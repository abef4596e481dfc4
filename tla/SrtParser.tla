------------------------------- MODULE SrtParser -------------------------------
(***************************************************************************)
(* The cue parsers of src/srt_parser.c: parse_srt_internal, which reads    *)
(* the tracks of a run, and parse_srt_with_stats, which --qc-only uses and *)
(* which accepts more time formats and counts what it did.  Both work line *)
(* by line, repair overlapping cues and hand each cue to qc_check_entry.   *)
(*                                                                         *)
(* A file is the sequence of lines fgets returns, stripped of their ends   *)
(* and of a byte order mark.  What is done to the text of a cue is in      *)
(* SrtText; here a text is the lines that fit into textbuf.                *)
(***************************************************************************)
EXTENDS Integers, Sequences, FiniteSets

CONSTANTS
  Files,       \* the files that may be parsed
  InitCap,     \* first capacity of the entry array, 128 in the code
  TextMax      \* sizeof(textbuf), 8192 in the code

Forms == {"standard", "dot", "short", "shortdot", "=>", "->"}
Stamp == [h : Int, m : Int, s : Int, ms : Int]

\* A line starts with an integer exactly when it is an index or a times line.
Line ==      [kind : {"blank"}]
        \cup [kind : {"index"}, id : Int]
        \cup [kind : {"times"}, form : Forms, from : Stamp, to : Stamp]
        \cup [kind : {"text"}, len : Nat \ {0}, an : 0..9]

ASSUME ParserAssumption ==
  /\ Files \subseteq Seq(Line)
  /\ InitCap \in Nat \ {0}
  /\ TextMax \in Nat

VARIABLES
  file, mode,      \* the file; "plain" or "stats"
  pos, pc,         \* next line to read; where the parser is
  entries, cap,    \* the cues stored so far, the capacity of their array
  live,            \* text strings allocated and not freed
  last_id,         \* last_cue_id
  stats,           \* SRTParserStats
  report, errors,  \* what qc_check_entry logged, qc_error_count
  faults           \* the allocations that failed

vars == <<file, mode, pos, pc, entries, cap, live, last_id, stats, report, errors,
          faults>>

Infinity == -1     \* INT64_MAX in min_duration and min_gap

NoStats == [total |-> 0, valid |-> 0, skipped |-> 0, duplicates |-> 0,
            sequences |-> 0, overlaps |-> 0, validation |-> 0, encoding |-> 0,
            timing |-> 0, minDur |-> Infinity, maxDur |-> 0, minGap |-> Infinity,
            maxGap |-> 0]

Init ==
  /\ file \in Files
  /\ mode \in {"plain", "stats"}
  /\ pos = 1
  /\ pc = "open"
  /\ entries = <<>>
  /\ cap = InitCap
  /\ live = 0
  /\ last_id = 0
  /\ stats = NoStats
  /\ report = {}
  /\ errors = 0
  /\ faults = {}

n == Len(entries)

-----------------------------------------------------------------------------
(* Lines.                                                                  *)

Blank(p) == file[p].kind = "blank"

\* sscanf(line, "%d"): also the line of times of a cue that has no index.
IsIndex(p) == file[p].kind \in {"index", "times"}

\* The line that has to hold the times of the cue whose first line is p.
TimesAt(p) == IF IsIndex(p) THEN p + 1 ELSE p

\* parse_srt_timestamp in stats mode, the standard format alone otherwise.
Recognised(p) ==
  /\ file[p].kind = "times"
  /\ mode = "plain" => file[p].form = "standard"

Hours(l, t) == IF l.form \in {"short", "shortdot"} THEN 0 ELSE t.h

InRange(t) == t.m \in 0..59 /\ t.s \in 0..59 /\ t.ms \in 0..999

Ms(l, t) == ((Hours(l, t) * 3600 + t.m * 60 + t.s) * 1000) + t.ms

StartMs(p) == Ms(file[p], file[p].from)
EndMs(p)   == Ms(file[p], file[p].to)

InTime(p) == InRange(file[p].from) /\ InRange(file[p].to)

Accepted(p) == Recognised(p) /\ InTime(p) /\ StartMs(p) < EndMs(p)

\* The text of the cue with times at p ends before line TextEnd(p), which is
\* blank or past the end of the file, and is consumed with it.
TextEnd(p) ==
  CHOOSE e \in (p + 1)..(Len(file) + 1) :
    /\ \A k \in (p + 1)..(e - 1) : ~Blank(k)
    /\ e <= Len(file) => Blank(e)

Length(l) == IF l.kind = "text" THEN l.len ELSE 1

\* The lines of f after line p, up to line e, that fit into textbuf: one that does
\* not fit is dropped, a later one may fit.
Fitting(f, p, e) ==
  LET buf[k \in p..e] ==
        IF k = p THEN [size |-> 0, lines |-> <<>>]
        ELSE LET b == buf[k - 1]
             IN  IF b.size + Length(f[k]) + 2 < TextMax
                 THEN [size |-> b.size + Length(f[k]) + 1, lines |-> Append(b.lines, f[k])]
                 ELSE b
  IN  buf[e].lines

TextBuf(p) == Fitting(file, p, TextEnd(p) - 1)

Tagged(text) == {k \in 1..Len(text) : text[k].kind = "text" /\ text[k].an # 0}

\* The digit of the first {\anN} of the text, 2 if there is none.
Alignment(text) ==
  IF Tagged(text) = {} THEN 2
  ELSE text[CHOOSE k \in Tagged(text) : \A j \in Tagged(text) : k <= j].an

-----------------------------------------------------------------------------
(* Statistics.                                                             *)

Stats(s) == IF mode = "stats" THEN s ELSE stats

IndexId(l) ==
  IF l.kind = "index" THEN l.id
  ELSE IF l.form \in {"short", "shortdot"} THEN l.from.m ELSE l.from.h

\* process_cue_id: the counters, and the identifier remembered.
WithId(s, id) ==
  IF id = last_id THEN [s EXCEPT !.duplicates = @ + 1]
  ELSE IF id > last_id + 1 THEN [s EXCEPT !.sequences = @ + 1]
  ELSE s

ProcessId(id) == IF id = last_id \/ id > last_id + 1 THEN last_id + 1 ELSE id

Indexed(p) == IF IsIndex(p) THEN WithId(stats, IndexId(file[p])) ELSE stats

\* The statistics after the header of the cue that starts at line p.
Headed(p) ==
  LET s == [Indexed(p) EXCEPT !.total = @ + 1]
      q == TimesAt(p)
  IN  CASE file[q].kind = "times" /\ file[q].form \in {"dot", "shortdot"} ->
             [s EXCEPT !.encoding = @ + 1]
        [] file[q].kind = "times" /\ file[q].form \in {"short", "=>", "->"} ->
             [s EXCEPT !.validation = @ + 1]
        [] OTHER -> s

Skipped(s) == [s EXCEPT !.skipped = @ + 1]
Warned(s)  == [s EXCEPT !.skipped = @ + 1, !.validation = @ + 1]

Least(a, b) == IF a = Infinity \/ b < a THEN b ELSE a
Greatest(a, b) == IF b > a THEN b ELSE a

\* The statistics of cue e, stored after the cues of entries.
Measured(s, e, repaired) ==
  LET dur == e.end - e.start
      gap == e.start - entries[n].end
      d == [s EXCEPT !.valid = @ + 1,
                     !.overlaps = IF repaired THEN @ + 1 ELSE @,
                     !.minDur = Least(@, dur), !.maxDur = Greatest(@, dur),
                     !.timing = IF dur < 100 \/ dur > 30000 THEN @ + 1 ELSE @]
  IN  IF n = 0 THEN d
      ELSE [d EXCEPT !.minGap = Least(@, gap), !.maxGap = Greatest(@, gap)]

-----------------------------------------------------------------------------
(* Cues.                                                                   *)

\* Mutant: compares with the start of the previous cue.
Overlaps_Start(p) == n > 0 /\ StartMs(p) < entries[n].start

\* A cue that starts before the previous one ends starts when it ends.
Overlaps(p) == n > 0 /\ StartMs(p) < entries[n].end

\* Mutant: the end of a cue that lies within the previous one is left alone.
Repair_StartOnly(p) ==
  [start |-> IF Overlaps(p) THEN entries[n].end ELSE StartMs(p), end |-> EndMs(p)]

\* Mutant: an overlapping cue is cut to one millisecond.
Repair_Cuts(p) ==
  IF Overlaps(p) THEN [start |-> entries[n].end, end |-> entries[n].end + 1]
  ELSE [start |-> StartMs(p), end |-> EndMs(p)]

Repair(p) ==
  LET start == IF Overlaps(p) THEN entries[n].end ELSE StartMs(p)
  IN  [start |-> start, end |-> IF start > EndMs(p) THEN start + 1 ELSE EndMs(p)]

CueAt(p) ==
  [start |-> Repair(p).start, end |-> Repair(p).end, at |-> p,
   align |-> Alignment(TextBuf(p)), text |-> TextBuf(p)]

\* The checks of qc_check_entry that concern times.
QcChecks(e) ==
  {c \in {"OVERLAP", "ERROR", "short", "long"} :
     \/ c = "OVERLAP" /\ n > 0 /\ e.start < entries[n].end
     \/ c = "ERROR" /\ e.end <= e.start
     \/ c = "short" /\ e.end - e.start < 250
     \/ c = "long" /\ e.end - e.start > 10000}

-----------------------------------------------------------------------------
(* Steps: one turn of the line loop each.                                  *)

Quiet == UNCHANGED <<entries, cap, live, report, errors, faults>>

\* fopen and the first calloc; ctx_run_qc_only passes statistics, the tracks do not.
Open ==
  /\ pc = "open"
  /\ \/ pc' = "read" /\ faults' = faults
     \/ pc' = "failed" /\ faults' = faults \cup {"open"}
  /\ UNCHANGED <<file, mode, pos, entries, cap, live, last_id, stats, report, errors>>

Reading == pc = "read" /\ pos <= Len(file)

SkipBlank ==
  /\ Reading /\ Blank(pos)
  /\ pos' = pos + 1
  /\ Quiet
  /\ UNCHANGED <<file, mode, pc, last_id, stats>>

\* Every turn that read an index processes it first, in stats mode.
TakeIndex ==
  /\ last_id' = IF mode = "stats" /\ IsIndex(pos)
                THEN ProcessId(IndexId(file[pos])) ELSE last_id

\* An index as the last line of the file.
IndexAtEnd ==
  /\ Reading /\ IsIndex(pos) /\ pos = Len(file)
  /\ pc' = "done"
  /\ pos' = pos + 1
  /\ TakeIndex
  /\ stats' = Stats(Indexed(pos))
  /\ Quiet
  /\ UNCHANGED <<file, mode>>

\* The turn that reads the header of a cue.
Header ==
  /\ Reading /\ ~Blank(pos)
  /\ TimesAt(pos) <= Len(file)
  /\ TakeIndex
  /\ UNCHANGED <<file, mode>>

\* Mutant: skips the line after the rejected one, too.
RejectCue_Far ==
  /\ Header
  /\ ~Accepted(TimesAt(pos))
  /\ pos' = TimesAt(pos) + 2
  /\ stats' = Stats(Skipped(Headed(pos)))
  /\ Quiet
  /\ UNCHANGED pc

\* Times that are not recognised, out of range, or that end too early.
RejectCue ==
  /\ Header
  /\ ~Accepted(TimesAt(pos))
  /\ pos' = TimesAt(pos) + 1
  /\ stats' = Stats(IF Recognised(TimesAt(pos)) THEN Warned(Headed(pos))
                    ELSE Skipped(Headed(pos)))
  /\ Quiet
  /\ UNCHANGED pc

\* Reads the text of an accepted cue.
ReadText ==
  /\ Header
  /\ Accepted(TimesAt(pos))
  /\ pos' = TextEnd(TimesAt(pos)) + 1

\* Only parse_srt_with_stats drops a cue that has no text.
NoText == mode = "stats" /\ TextBuf(TimesAt(pos)) = <<>>

\* Mutant: the dropped cue is not counted.
EmptyCue_Uncounted ==
  /\ ReadText
  /\ NoText
  /\ stats' = Headed(pos)
  /\ Quiet
  /\ UNCHANGED pc

EmptyCue ==
  /\ ReadText
  /\ NoText
  /\ stats' = Warned(Headed(pos))
  /\ Quiet
  /\ UNCHANGED pc

\* The array is doubled when it is full; the texts are lost if that fails.
GrowFails ==
  /\ ReadText /\ ~NoText /\ n >= cap
  /\ pc' = "failed"
  /\ entries' = <<>>
  /\ cap' = 2 * cap
  /\ faults' = faults \cup {"grow"}
  /\ stats' = Stats(Headed(pos))
  /\ UNCHANGED <<live, report, errors>>

Grown == IF n >= cap THEN 2 * cap ELSE cap

\* Mutant: the texts stored so far are not freed.
NormFails_Keeps ==
  /\ ReadText /\ mode = "plain"
  /\ pc' = "failed" /\ entries' = <<>>
  /\ cap' = Grown
  /\ faults' = faults \cup {"norm"}
  /\ UNCHANGED <<live, stats, report, errors>>

\* The text cannot be copied or wrapped: parse_srt_internal frees all and gives up.
NormFails ==
  /\ ReadText /\ mode = "plain"
  /\ pc' = "failed" /\ entries' = <<>> /\ live' = 0
  /\ cap' = Grown
  /\ faults' = faults \cup {"norm"}
  /\ UNCHANGED <<stats, report, errors>>

\* parse_srt_with_stats skips the cue and frees the copy that sanitize_utf8 made,
\* which is the local array itself if there was no memory for the copy, either.
NormSkips ==
  /\ ReadText /\ mode = "stats" /\ ~NoText
  /\ pc' \in {"read", "undefined"}
  /\ cap' = Grown
  /\ faults' = faults \cup {"norm"}
  /\ stats' = Skipped(Headed(pos))
  /\ UNCHANGED <<entries, live, report, errors>>

\* The text cannot be stripped for the checks: the cue is freed with the others.
StripFails ==
  /\ ReadText /\ mode = "plain"
  /\ pc' = "failed" /\ entries' = <<>> /\ live' = 0
  /\ cap' = Grown
  /\ faults' = faults \cup {"strip"}
  /\ UNCHANGED <<stats, report, errors>>

\* In stats mode the cue stays in the array, is counted twice and overwritten by
\* the next one.
StripSkips ==
  /\ ReadText /\ mode = "stats" /\ ~NoText
  /\ LET p == TimesAt(pos)
     IN  stats' = Skipped(Measured(Headed(pos), CueAt(p), Overlaps(p)))
  /\ cap' = Grown
  /\ live' = live + 1
  /\ faults' = faults \cup {"strip"}
  /\ UNCHANGED <<pc, entries, report, errors>>

StoreCue ==
  /\ ReadText /\ ~NoText
  /\ LET p == TimesAt(pos)
         e == CueAt(p)
     IN  /\ entries' = Append(entries, e)
         /\ stats' = Stats(Measured(Headed(pos), e, Overlaps(p)))
         /\ report' = report \cup {<<p, c>> : c \in QcChecks(e)}
         /\ errors' = IF "ERROR" \in QcChecks(e) THEN errors + 1 ELSE errors
  /\ cap' = Grown
  /\ live' = live + 1
  /\ UNCHANGED <<pc, faults>>

EndOfFile ==
  /\ pc = "read" /\ pos > Len(file)
  /\ pc' = "done"
  /\ Quiet
  /\ UNCHANGED <<file, mode, pos, last_id, stats>>

Returned == pc \in {"done", "failed", "undefined"} /\ UNCHANGED vars

Next ==
  \/ Open \/ SkipBlank \/ IndexAtEnd \/ RejectCue \/ EmptyCue
  \/ GrowFails \/ NormFails \/ NormSkips \/ StripFails \/ StripSkips
  \/ StoreCue \/ EndOfFile
  \/ Returned

Spec == Init /\ [][Next]_vars

-----------------------------------------------------------------------------
(* Reports.                                                                *)

\* What srt_analyze_gaps computes from two or more returned cues.
GapAnalysis ==
  LET gap(i) == entries[i].start - entries[i - 1].end
      gaps == {gap(i) : i \in 2..n}
  IN  [min   |-> CHOOSE g \in gaps : \A h \in gaps : g <= h,
       max   |-> CHOOSE g \in gaps \cup {0} : \A h \in gaps \cup {0} : g >= h,
       large |-> Cardinality({i \in 2..n : gap(i) > 5000}),
       small |-> Cardinality({i \in 2..n : gap(i) \in 1..99})]

-----------------------------------------------------------------------------
(* Properties.                                                             *)

\* The cues handed to the run never overlap, whatever the file says: none ends
\* before it starts, and none starts before an earlier one has ended.
Ordered ==
  /\ \A i \in 1..n : entries[i].start <= entries[i].end
  /\ \A i, j \in 1..n : i < j => entries[i].end <= entries[j].start

\* A cue is moved only by an overlap, and never ends before the file says so.
TimesKept ==
  \A i \in 1..n :
    LET e == entries[i] IN
    /\ e.end >= EndMs(e.at)
    /\ e.start # StartMs(e.at) => i > 1 /\ e.start = entries[i - 1].end
    /\ e.end # EndMs(e.at) => e.end = e.start + 1

\* The overlap repair of parse_srt_internal and parse_srt_with_stats puts the cues in
\* order, and changes no time it need not change.
RepairSound == Ordered /\ TimesKept

\* A cue of the form "index, times, text" that follows a blank line or begins the
\* file: what stands before it does not matter to a reader.
WellFormed(p) ==
  /\ p + 1 <= Len(file)
  /\ p = 1 \/ Blank(p - 1)
  /\ file[p].kind = "index"
  /\ Accepted(p + 1)
  /\ mode = "stats" => TextBuf(p + 1) # <<>>

\* The parsers resynchronise: after any malformed block, every well-formed cue
\* is stored, unless an allocation failed.
NoCueLost ==
  pc = "done" /\ faults = {} =>
    \A p \in 1..Len(file) : WellFormed(p) => \E i \in 1..n : entries[i].at = p + 1

\* The statistics --qc-only prints add up and describe the cues stored: every cue
\* encountered is either valid or skipped, the valid ones are those returned,
\* the extreme durations are theirs, and the gaps counted while parsing are the
\* ones srt_analyze_gaps finds afterwards; also when texts could not be normalised,
\* but not when the array could not grow or a text not be stripped.  The errors
\* qc_check_entry counts are the cues without any duration.
Accounting ==
  /\ mode = "stats" /\ faults \subseteq {"norm"} =>
       /\ stats.total = stats.valid + stats.skipped
       /\ stats.valid = n
       /\ n > 0 => /\ \A i \in 1..n : entries[i].end - entries[i].start
                                        \in stats.minDur..stats.maxDur
                   /\ \E i \in 1..n : entries[i].end - entries[i].start = stats.minDur
       /\ n > 1 => /\ stats.minGap = GapAnalysis.min /\ stats.maxGap = GapAnalysis.max
                   /\ GapAnalysis.min >= 0
  /\ pc # "failed" => errors = Cardinality({i \in 1..n : entries[i].start = entries[i].end})

\* --qc-only "checks timing continuity and overlaps": a cue that begins in the file
\* before the cue stored before it ends is reported.  qc_check_entry is called after
\* the repair, so the code reports none.
OverlapsReported ==
  \A i \in 2..n :
    StartMs(entries[i].at) < EndMs(entries[i - 1].at) => <<entries[i].at, "OVERLAP">> \in report

\* Every text string belongs to a stored cue, and none outlives a failed call,
\* unless doubling the array failed, or stripping a text in stats mode.
TextsOwned ==
  "grow" \notin faults /\ ("strip" \in faults => mode = "plain") => live = n

-----------------------------------------------------------------------------
(* The inductive invariant behind RepairSound, NoCueLost and TextsOwned.   *)

\* Stored cues come from accepted lines and have integer times.
CuesTyped ==
  /\ entries \in Seq({entries[i] : i \in DOMAIN entries})
  /\ \A i \in 1..n :
       /\ entries[i].start \in Int /\ entries[i].end \in Int
       /\ entries[i].at \in 1..Len(file) /\ Accepted(entries[i].at)

\* The parser never stands inside a well-formed cue: it has not reached it yet, or
\* it has stored it.
Resynchronised ==
  faults = {} =>
    \A p \in 1..Len(file) :
      WellFormed(p) => p >= pos \/ \E i \in 1..n : entries[i].at = p + 1

\* The variables have their types, the cues stored are in order and as the file
\* has them, no cue behind the parser is missing, every text is owned.
ParserInv ==
  /\ file \in Seq(Line)
  /\ mode \in {"plain", "stats"}
  /\ pos \in Nat \ {0}
  /\ pc \in {"open", "read", "done", "failed", "undefined"}
  /\ pc = "done" => pos > Len(file)
  /\ live \in Nat
  /\ CuesTyped /\ RepairSound /\ Resynchronised /\ TextsOwned

==============================================================================
