-------------------------------- MODULE SrtText --------------------------------
(***************************************************************************)
(* What src/srt_parser.c does to the text of one cue, and what src/qc.c    *)
(* reads of it: sanitize_utf8 (for --qc-only), normalize_cue_text with its *)
(* line wrapping, remove_ass_h, rstrip, strip_tags, the size checks.       *)
(*                                                                         *)
(* A text is a sequence of bytes.  A byte is an ASCII character or one of  *)
(* "2", "3", "4" (the first byte of a sequence of that length) and "c" (a  *)
(* continuation byte).  In the texts that are converted for libass a tag   *)
(* is one symbol, "<font" being the start of one that has an attribute.    *)
(***************************************************************************)
EXTENDS Integers, SequencesExt

CONSTANTS
  Texts,        \* the texts that may be in textbuf
  HtmlTexts,    \* the texts of cues that libass renders
  MaxLines,     \* MAX_LINES_SD
  MaxChars      \* MAX_CHARS_SD or MAX_CHARS_HD

VARIABLES raw, mode, clean, norm, plain, step
vars == <<raw, mode, clean, norm, plain, step>>

LeadLength(b) == CASE b = "2" -> 2 [] b = "3" -> 3 [] b = "4" -> 4 [] OTHER -> 1

-----------------------------------------------------------------------------
(* UTF-8.                                                                  *)

\* validate_utf8_sequence; u8_len and visible_len test the same bytes.
ValidAt(s, i) ==
  /\ s[i] # "c"
  /\ \A k \in 1..(LeadLength(s[i]) - 1) : i + k <= Len(s) /\ s[i + k] = "c"

Advance(s, i) == IF ValidAt(s, i) THEN LeadLength(s[i]) ELSE 1

RECURSIVE CountFrom(_, _)
CountFrom(s, i) == IF i > Len(s) THEN 0 ELSE 1 + CountFrom(s, i + Advance(s, i))

u8_len(s) == CountFrom(s, 1)

\* Mutant: skips the whole sequence also when it was invalid.
RECURSIVE SanitizeFrom_Skips(_, _)
SanitizeFrom_Skips(s, i) ==
  IF i > Len(s) THEN s
  ELSE IF ValidAt(s, i) THEN SanitizeFrom_Skips(s, i + LeadLength(s[i]))
  ELSE SanitizeFrom_Skips([s EXCEPT ![i] = "?"], i + LeadLength(s[i]))

\* Every byte that starts no valid sequence becomes a question mark.
RECURSIVE SanitizeFrom(_, _)
SanitizeFrom(s, i) ==
  IF i > Len(s) THEN s
  ELSE IF ValidAt(s, i) THEN SanitizeFrom(s, i + LeadLength(s[i]))
  ELSE SanitizeFrom([s EXCEPT ![i] = "?"], i + 1)

sanitize_utf8(s) == SanitizeFrom(s, 1)

-----------------------------------------------------------------------------
(* Markup.                                                                 *)

\* strchr: the first position of b at or after i, 0 if there is none.
Find(s, i, b) ==
  LET at == {k \in i..Len(s) : s[k] = b}
  IN  IF at = {} THEN 0 ELSE CHOOSE k \in at : \A j \in at : k <= j

\* The end of the tag that starts at i, 0 if none does.
TagEnd(s, i) ==
  CASE s[i] = "<" -> Find(s, i, ">")
    [] s[i] = "{" -> Find(s, i, "}")
    [] OTHER -> 0

RECURSIVE VisibleFrom(_, _)
VisibleFrom(s, i) ==
  IF i > Len(s) THEN 0
  ELSE IF TagEnd(s, i) # 0 THEN VisibleFrom(s, TagEnd(s, i) + 1)
  ELSE 1 + VisibleFrom(s, i + Advance(s, i))

visible_len(s) == VisibleFrom(s, 1)

\* Mutant: stops at a brace that is not closed.
RECURSIVE StripFrom_Stops(_, _)
StripFrom_Stops(s, i) ==
  IF i > Len(s) \/ (s[i] = "{" /\ TagEnd(s, i) = 0) THEN <<>>
  ELSE IF TagEnd(s, i) # 0 THEN StripFrom_Stops(s, TagEnd(s, i) + 1)
  ELSE <<s[i]>> \o StripFrom_Stops(s, i + 1)

RECURSIVE StripFrom(_, _)
StripFrom(s, i) ==
  IF i > Len(s) THEN <<>>
  ELSE IF TagEnd(s, i) # 0 THEN StripFrom(s, TagEnd(s, i) + 1)
  ELSE <<s[i]>> \o StripFrom(s, i + 1)

strip_tags(s) == StripFrom(s, 1)

\* Drops every "\h"; the search goes on where one was dropped.
RECURSIVE RemoveH(_, _)
RemoveH(s, i) ==
  IF i >= Len(s) THEN s
  ELSE IF s[i] = "\\" /\ s[i + 1] = "h"
       THEN RemoveH(SubSeq(s, 1, i - 1) \o SubSeq(s, i + 2, Len(s)), i)
  ELSE RemoveH(s, i + 1)

remove_ass_h(s) == RemoveH(s, 1)

RECURSIVE rstrip(_)
rstrip(s) ==
  IF s # <<>> /\ Last(s) \in {"\n", "\r"} THEN rstrip(Front(s)) ELSE s

RECURSIVE ReplaceH(_, _)
ReplaceH(s, i) ==
  IF i >= Len(s) THEN s
  ELSE IF s[i] = "\\" /\ s[i + 1] = "h"
       THEN ReplaceH(SubSeq(s, 1, i - 1) \o <<" ">> \o SubSeq(s, i + 2, Len(s)), i + 1)
  ELSE ReplaceH(s, i + 1)

replace_ass_h(s) == ReplaceH(s, 1)

Override(tag) ==
  CASE tag = "<i>" -> "{i1}" [] tag = "</i>" -> "{i0}" [] tag = "<b>" -> "{b1}"
    [] tag = "</b>" -> "{b0}" [] tag = "</font>" -> "{r}" [] tag = "\n" -> "\\N"
    [] OTHER -> tag

\* Mutant: the bracket that closes the tag is not skipped.
RECURSIVE HtmlFrom_Bracket(_, _)
HtmlFrom_Bracket(s, i) ==
  IF i > Len(s) THEN <<>>
  ELSE IF s[i] = "<font" /\ Find(s, i, "'") # 0 /\ Find(s, Find(s, i, "'") + 1, "'") # 0
       THEN <<"{font}">> \o HtmlFrom_Bracket(s, Find(s, Find(s, i, "'") + 1, "'") + 1)
  ELSE <<Override(s[i])>> \o HtmlFrom_Bracket(s, i + 1)

\* The attribute runs from the next quote to the one after it, wherever they are;
\* without two quotes only the bracket of the tag is dropped.
RECURSIVE HtmlFrom(_, _)
HtmlFrom(s, i) ==
  IF i > Len(s) THEN <<>>
  ELSE IF s[i] = "<font"
       THEN LET q == Find(s, i, "'")
                r == IF q = 0 THEN 0 ELSE Find(s, q + 1, "'")
            IN  IF r = 0 THEN <<"font">> \o HtmlFrom(s, i + 1)
                ELSE <<"{font}">> \o HtmlFrom(s, r + 2)
  ELSE IF s[i] = "\r" THEN HtmlFrom(s, i + 1)
  ELSE <<Override(s[i])>> \o HtmlFrom(s, i + 1)

srt_html_to_ass(s) == HtmlFrom(s, 1)

-----------------------------------------------------------------------------
(* Wrapping.                                                               *)

EndsIn(s, b) == s # <<>> /\ Last(s) = b

\* White space becomes one blank, and a newline takes the place of a blank.
Collapse(s) ==
  LET add(t, b) ==
        CASE b = "\n" -> IF EndsIn(t, " ") THEN Append(Front(t), b) ELSE Append(t, b)
          [] b \in {" ", "\r"} -> IF EndsIn(t, " ") THEN t ELSE Append(t, " ")
          [] OTHER -> Append(t, b)
  IN  FoldLeft(add, <<>>, s)

\* The words of a line: blanks separate them, but not within a tag.
Words(line) ==
  LET add(w, b) ==
        IF b = " " /\ ~w.angle /\ ~w.brace
        THEN [w EXCEPT !.open = FALSE]
        ELSE [words |-> IF w.open THEN Append(Front(w.words), Append(Last(w.words), b))
                        ELSE Append(w.words, <<b>>),
              open  |-> TRUE,
              angle |-> b = "<" \/ (w.angle /\ b # ">"),
              brace |-> (w.brace /\ ~(b = "}")) \/ b = "{"]
      none == [words |-> <<>>, open |-> FALSE, angle |-> FALSE, brace |-> FALSE]
  IN  FoldLeft(add, none, line).words

\* The single non-ASCII character that gets a line of its own.
IsSymbol(s) ==
  LET p == strip_tags(s) IN p # <<>> /\ u8_len(p) = 1 /\ p[1] \in {"2", "3", "4", "c"}

\* Mutant: the blank between two words is not counted.
AddWord_NoBlank(o, w, symbol) ==
  LET len == visible_len(w)
  IN  IF len > 0 /\ o.len + len > MaxChars + 1 /\ o.lines < MaxLines
      THEN [out |-> o.out \o <<"\n">> \o w, len |-> len, lines |-> o.lines + 1]
      ELSE [out |-> o.out \o (IF len > 0 /\ o.len > 0 THEN <<" ">> ELSE <<>>) \o w,
            len |-> o.len + len, lines |-> o.lines]

\* Mutant: the word that does not fit is dropped with the last line.
AddWord_Drops(o, w, symbol) ==
  LET len == visible_len(w)
      blank == len > 0 /\ o.len > 0
  IN  IF len > 0 /\ o.len + len + 1 > MaxChars
      THEN IF o.lines < MaxLines
           THEN [out |-> o.out \o <<"\n">> \o w, len |-> len, lines |-> o.lines + 1]
           ELSE o
      ELSE [out |-> o.out \o (IF blank THEN <<" ">> ELSE <<>>) \o w,
            len |-> o.len + len + (IF blank THEN 1 ELSE 0), lines |-> o.lines]

\* One word of a line.  o.len is line_len, o.lines the lines begun.
AddWord(o, w, symbol) ==
  LET len == visible_len(w)
      break == len > 0 /\ o.len + len + 1 > MaxChars /\ o.lines < MaxLines
      blank == len > 0 /\ o.len > 0
  IN  CASE symbol /\ len = 1 ->
             [out |-> o.out \o (IF o.len > 0 THEN <<"\n">> ELSE <<>>) \o w,
              len |-> 1, lines |-> IF o.len > 0 THEN o.lines + 1 ELSE o.lines]
        [] ~(symbol /\ len = 1) /\ break ->
             [out |-> o.out \o <<"\n">> \o w, len |-> len, lines |-> o.lines + 1]
        [] OTHER ->
             [out |-> o.out \o (IF blank THEN <<" ">> ELSE <<>>) \o w,
              len |-> o.len + len + (IF blank THEN 1 ELSE 0), lines |-> o.lines]

\* One line of the source; a line with words keeps its newline.
AddLine(o, line, newline, symbol) ==
  LET add(p, w) == AddWord(p, w, symbol)
      q == FoldLeft(add, o, Words(line))
  IN  IF newline /\ Words(line) # <<>>
      THEN [out |-> Append(q.out, "\n"), len |-> 0, lines |-> q.lines + 1]
      ELSE q

RECURSIVE WrapFrom(_, _, _, _)
WrapFrom(o, s, i, symbol) ==
  IF i > Len(s) THEN o.out
  ELSE LET e == Find(s, i, "\n")
       IN  IF e = 0 THEN AddLine(o, SubSeq(s, i, Len(s)), FALSE, symbol).out
           ELSE WrapFrom(AddLine(o, SubSeq(s, i, e - 1), TRUE, symbol), s, e + 1, symbol)

normalize_cue_text(s) ==
  WrapFrom([out |-> <<>>, len |-> 0, lines |-> 1], Collapse(s), 1, IsSymbol(s))

-----------------------------------------------------------------------------
(* Measures.                                                               *)

Newlines(s) == {i \in 1..Len(s) : s[i] = "\n"}

\* Mutant: measures the last line only.
CueSize_Last(s) ==
  LET starts == {i + 1 : i \in Newlines(s)} \cup {1}
      last == CHOOSE i \in starts : \A j \in starts : j <= i
  IN  [lines |-> 1, longest |-> visible_len(SubSeq(s, last, Len(s)))]

\* validate_cue_size measures from the start of each line to the end of the text.
CueSize(s) ==
  LET starts == ({i + 1 : i \in Newlines(s)} \cup {1}) \ {Len(s) + 1}
      rest(i) == visible_len(SubSeq(s, i, Len(s)))
      lens == {rest(i) : i \in starts} \cup {0}
  IN  [lines |-> Cardinality(starts), longest |-> CHOOSE x \in lens : \A y \in lens : y <= x]

\* The scan of qc_check_entry, which trusts the first byte of a sequence: ends is
\* the position it stops at, Len(s) + 1 being the terminator.
RECURSIVE QcScan(_, _, _)
QcScan(s, i, q) ==
  IF i > Len(s) THEN [q EXCEPT !.ends = i]
  ELSE IF s[i] = "\n"
       THEN QcScan(s, i + 1,
              [max |-> IF q.cur > q.max THEN q.cur ELSE q.max, cur |-> 0,
               lines |-> IF i = Len(s) THEN q.lines ELSE q.lines + 1, ends |-> 0])
  ELSE QcScan(s, i + LeadLength(s[i]), [q EXCEPT !.cur = @ + 1])

QcMeasure(s) ==
  LET q == QcScan(s, 1, [max |-> 0, cur |-> 0, lines |-> 1, ends |-> 0])
  IN  [q EXCEPT !.max = IF q.cur > q.max THEN q.cur ELSE q.max]

\* The checks of qc_check_entry that concern text.
QcText(s) ==
  {c \in {"wide", "lines", "empty"} :
     \/ c = "wide" /\ QcMeasure(s).max > MaxChars
     \/ c = "lines" /\ QcMeasure(s).lines > 3
     \/ c = "empty" /\ s = <<>>}

-----------------------------------------------------------------------------
(* The steps of the parsers.                                               *)

Init ==
  /\ \/ raw \in Texts /\ mode \in {"plain", "stats"}
     \/ raw \in HtmlTexts /\ mode = "ass"
  /\ clean = <<>> /\ norm = <<>> /\ plain = <<>>
  /\ step = "raw"

Sanitize ==
  /\ step = "raw" /\ step' = "clean"
  /\ clean' = IF mode = "stats" THEN sanitize_utf8(raw) ELSE raw
  /\ UNCHANGED <<raw, mode, norm, plain>>

Normalize ==
  /\ step = "clean" /\ step' = "norm" /\ mode # "ass"
  /\ norm' = rstrip(remove_ass_h(normalize_cue_text(clean)))
  /\ UNCHANGED <<raw, mode, clean, plain>>

\* parse_srt_internal with use_ass, then the copy ctx_parse_tracks makes of it.
Convert ==
  /\ step = "clean" /\ step' = "norm" /\ mode = "ass"
  /\ norm' = srt_html_to_ass(replace_ass_h(clean))
  /\ UNCHANGED <<raw, mode, clean, plain>>

Strip ==
  /\ step = "norm" /\ step' = "checked" /\ mode # "ass"
  /\ plain' = strip_tags(norm)
  /\ UNCHANGED <<raw, mode, clean, norm>>

Next == Sanitize \/ Normalize \/ Convert \/ Strip

Spec == Init /\ [][Next]_vars

-----------------------------------------------------------------------------
(* Properties.                                                             *)

RECURSIVE ValidFrom(_, _)
ValidFrom(s, i) == i > Len(s) \/ (ValidAt(s, i) /\ ValidFrom(s, i + LeadLength(s[i])))

\* sanitize_utf8 returns valid text of the same length in which every byte is the
\* original one or a question mark, and leaves valid text alone.  On such text the
\* scan of qc_check_entry, which trusts lead bytes, stops at the terminator.
SanitizeSound ==
  mode = "stats" =>
    /\ step # "raw" =>
         /\ ValidFrom(clean, 1)
         /\ Len(clean) = Len(raw)
         /\ \A i \in 1..Len(raw) : clean[i] \in {raw[i], "?"}
         /\ ValidFrom(raw, 1) => clean = raw
    /\ step = "checked" => QcMeasure(plain).ends = Len(plain) + 1

Ink(s) == SelectSeq(s, LAMBDA b : b \notin {" ", "\n", "\r"})

\* The lines of a text.
LinesOf(s) ==
  {SubSeq(s, i, IF Find(s, i, "\n") = 0 THEN Len(s) ELSE Find(s, i, "\n") - 1) :
     i \in {1} \cup {k + 1 : k \in Newlines(s)}}

\* A line has a word that is too wide for any.
WideWord(s) ==
  \E line \in LinesOf(s) : \E i \in DOMAIN Words(line) : visible_len(Words(line)[i]) > MaxChars

\* A tag of the text runs over the end of a line.
TagAcross(s) == \E i \in DOMAIN s : \E k \in i..TagEnd(s, i) : s[k] = "\n"

\* The lines of a text before the last one wrapping may begin.
Upper(s) ==
  LET ends == {k \in Newlines(s) : Cardinality({j \in Newlines(s) : j <= k}) = MaxLines - 1}
  IN  IF ends = {} THEN s ELSE SubSeq(s, 1, (CHOOSE k \in ends : TRUE) - 1)

\* The parser wraps and quality control measures, each with its own scan over tags,
\* escapes and multi-byte characters; their lengths agree.  The length wrapping
\* goes by is that of what is left when markup is stripped.  A line of a wrapped cue
\* before the last one allowed is too wide for qc_check_entry only if a word is, or
\* if a tag that runs over the end of a line joins two lines when it is stripped.
\* validate_cue_size misses no line that is too long.
WrapFits ==
  mode = "stats" =>
    /\ step # "raw" => visible_len(clean) = u8_len(strip_tags(clean))
    /\ step = "checked" /\ "wide" \in QcText(strip_tags(Upper(norm))) =>
         WideWord(Collapse(clean)) \/ TagAcross(norm)
    /\ step = "checked" => CueSize(norm).longest >= QcMeasure(plain).max

Markup == {"", "<i>", "</i>", "<b>", "</b>", "</font>", "\n", "\r",
           "{i1}", "{i0}", "{b1}", "{b0}", "{r}", "{font}", "\\N"}

\* The five symbols of a font tag: the tag, a quoted attribute and the bracket.
InFont(s, i) == \E k \in 0..4 : i > k /\ s[i - k] = "<font"

Quoted(s) ==
  \A i \in 1..Len(s) : s[i] = "<font" =>
    /\ i + 4 <= Len(s) /\ s[i + 4] = ">"
    /\ s[i + 1] = "'" /\ s[i + 2] # "'" /\ s[i + 3] = "'"

Shown(s) ==
  SelectSeq([i \in 1..Len(s) |-> IF InFont(s, i) THEN "" ELSE s[i]],
            LAMBDA b : b \notin Markup)

\* No glyph is lost or added between the file and the renderer.  Wrapping moves white
\* space only, except for the "\h" that are removed, and the conversion for libass
\* changes markup only, provided that every font tag has exactly one attribute, in
\* quotes.
GlyphsKept ==
  step = "norm" =>
    IF mode = "ass" THEN Quoted(raw) => Shown(norm) = Shown(replace_ass_h(raw))
    ELSE Ink(norm) = Ink(remove_ass_h(clean))
==============================================================================
