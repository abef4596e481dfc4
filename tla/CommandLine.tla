------------------------------ MODULE CommandLine ------------------------------
(***************************************************************************)
(* The values of the command line: the comma separated lists of PIDs,      *)
(* flags, delays and languages (src/utils.c, src/delay_parse.c,            *)
(* src/lang_parse.c), the subtitle positions, and the bounds cli_parse of  *)
(* src/srt2dvbsub.c puts on numbers.                                       *)
(*                                                                         *)
(* A list is the sequence of the pieces between its commas.  A piece is a  *)
(* number, something strtol rejects ("junk"), only white space ("blank"),  *)
(* or nothing ("empty").  A null pointer is the empty sequence.            *)
(***************************************************************************)
EXTENDS Integers, Sequences, FiniteSets

CONSTANTS
  MinPid, MaxPid,     \* 32 and 8186 in the code
  MaxTracks,          \* the tracks a run can have, 8 in the code
  IntMax,             \* INT_MAX
  Processors,         \* what sysconf(_SC_NPROCESSORS_ONLN) returns
  MinRate, MaxRate,   \* the muxrates accepted, 100000 and 1000000000 in the code
  MaxMargin,          \* the largest margin, 50 percent in the code
  Languages           \* the codes of dvb_langs

ASSUME CommandLineAssumption ==
  /\ MinPid \in Nat \ {0} /\ MaxPid \in Nat /\ MinPid <= MaxPid
  /\ MaxTracks \in Nat \ {0}
  /\ IntMax \in Nat /\ Processors \in Int
  /\ MinRate \in Nat \ {0} /\ MaxRate \in Nat /\ MaxMargin \in Nat

Num(v) == [kind |-> "num", val |-> v]
Junk == [kind |-> "junk", val |-> 0]
Blank == [kind |-> "blank", val |-> 0]
Nothing == [kind |-> "empty", val |-> 0]

\* strtok_r never returns an empty piece: neighbouring commas are one separator.
Tokens(list) == SelectSeq(list, LAMBDA p : p.kind # "empty")

First(S) == CHOOSE i \in S : \A j \in S : i <= j

-----------------------------------------------------------------------------
(* PIDs.                                                                   *)

\* What parse_pid_list returns at token i, 0 when the token is stored.
PidError(t, i) ==
  IF t[i].kind # "num" THEN -1
  ELSE IF t[i].val \notin MinPid..MaxPid THEN 1
  ELSE IF \E j \in 1..(i - 1) : t[j].val = t[i].val THEN 1 ELSE 0

parse_pid_list(list) ==
  LET t == Tokens(list)
      bad == {i \in 1..Len(t) : PidError(t, i) # 0}
  IN  [code |-> IF t = <<>> THEN -1 ELSE IF bad = {} THEN 0 ELSE PidError(t, First(bad)),
       pids |-> [i \in 1..Len(t) |-> t[i].val]]

-----------------------------------------------------------------------------
(* Flags, delays and languages.                                            *)

\* atoi gives 0 for what is not a number; a blank piece keeps the flag 0.
Flag(t, i) == IF i \in DOMAIN t /\ t[i].kind = "num" /\ t[i].val # 0 THEN 1 ELSE 0

\* The flags of n tracks; the code refuses n = 0.
parse_flag_list(list, n) ==
  [code  |-> IF n < 1 \/ n > MaxTracks THEN -1 ELSE 0,
   flags |-> [i \in 1..n |-> Flag(Tokens(list), i)]]

\* trim_string_inplace leaves nothing of a blank piece.
trim(p) == IF p.kind = "blank" THEN Nothing ELSE p

\* A single value: strtol stops at a comma, so a list of two is refused.
parse_single_delay(list) ==
  IF Len(list) # 1 \/ trim(list[1]) = Nothing \/ list[1].kind # "num" THEN "EINVAL"
  ELSE IF list[1].val < -IntMax - 1 \/ list[1].val > IntMax THEN "ERANGE"
  ELSE "ok"

parse_delay_list(list) ==
  LET t == Tokens(list)
  IN  [ok   |-> \A i \in DOMAIN t : parse_single_delay(<<t[i]>>) = "ok",
       vals |-> [i \in DOMAIN t |-> t[i].val]]

\* A language piece: its letters in lower case, and whether it was written in capitals.
Lang(c) == [code |-> c, upper |-> FALSE]
NoLang == Lang("")
LangTokens(list) == SelectSeq(list, LAMBDA l : l.code # "")

is_valid_dvb_lang(l) == l.code \in Languages

validate_language_list(list) ==
  \A i \in DOMAIN LangTokens(list) : is_valid_dvb_lang(LangTokens(list)[i])

\* A null filter allows every language; the comparison ignores case.
overwrite_lang_allowed(filter, lang) ==
  /\ lang.code # ""
  /\ filter = <<>> \/ \E i \in DOMAIN filter : filter[i].code \in {"*", lang.code}

-----------------------------------------------------------------------------
(* Positions.  A track's piece is its position, 0 for an unknown name, and *)
(* up to four margins in the order top, left, bottom, right.               *)

BottomCenter == 8
DefaultPosition == [pos |-> BottomCenter, margins |-> <<7, 4, 7, 4>>]   \* half percents

MarginError(p) ==
  LET m == Tokens(p.margins)
      bad == {i \in DOMAIN m : i <= 4 /\ (m[i].kind # "num" \/ m[i].val \notin 0..MaxMargin)}
  IN  IF bad = {} THEN 0 ELSE IF m[First(bad)].kind # "num" THEN -1 ELSE 1

PositionError(p) == IF p.pos \notin 1..9 THEN -1 ELSE MarginError(p)

Positioned(p) ==
  LET m == Tokens(p.margins)
  IN  [pos     |-> p.pos,
       margins |-> [i \in 1..4 |-> IF i \in DOMAIN m THEN m[i].val
                                   ELSE DefaultPosition.margins[i]]]

\* Pieces beyond the last track are not read.
parse_subtitle_positions(spec) ==
  LET read == {i \in DOMAIN spec : i <= MaxTracks}
      bad  == {i \in read : PositionError(spec[i]) # 0}
  IN  [code    |-> IF bad = {} THEN 0 ELSE PositionError(spec[First(bad)]),
       configs |-> [k \in 1..MaxTracks |-> IF k \in read THEN Positioned(spec[k])
                                           ELSE DefaultPosition]]

\* The --margin options, -1 when not given, replace the margins of every track.
Overridden(configs, over) ==
  [k \in DOMAIN configs |->
     [configs[k] EXCEPT !.margins = [i \in 1..4 |-> IF over[i] >= 0 THEN over[i] ELSE @[i]]]]

-----------------------------------------------------------------------------
(* Numbers.                                                                *)

get_cpu_count == IF Processors > 0 THEN Processors ELSE 1

MostThreads(cpus) == IF cpus > 1 THEN 2 * cpus ELSE 4

Clamped(n, top) == IF n < 0 THEN 0 ELSE IF n > top THEN top ELSE n

\* atoi of --enc-threads and --render-threads, then the bounds.
enc_threads_of(p) == Clamped(IF p.kind = "num" THEN p.val ELSE 0, MostThreads(get_cpu_count))
render_threads_of(p) == Clamped(IF p.kind = "num" THEN p.val ELSE 0, MostThreads(get_cpu_count))

validate_fontsize(p) == p.kind = "num" /\ (p.val = 0 \/ p.val \in 6..200)

\* A colour is the number of hexadecimal digits behind '#', 0 when another character is met.
validate_color(digits) == digits \in {6, 8}

ValidMargin(p) == p.kind = "num" /\ p.val \in 0..MaxMargin
ValidRate(p) == p.kind = "num" /\ p.val > 0 /\ p.val >= MinRate /\ p.val <= MaxRate
==============================================================================
