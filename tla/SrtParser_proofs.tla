---------------------------- MODULE SrtParser_proofs ----------------------------
(***************************************************************************)
(* Proofs about SrtParser: for every file, the cues that the parsers store *)
(* are in order and as the file has them, no well-formed cue is lost,      *)
(* every text string has an owner, and the statistics describe the cues.   *)
(***************************************************************************)
EXTENDS SrtParser, FiniteSetTheorems, SequenceTheorems, WellFoundedInduction, TLAPS

-----------------------------------------------------------------------------
(* Sequences and numbers.                                                  *)

\* A nonempty set of natural numbers has a least element.
LEMMA Smallest ==
  ASSUME NEW T, T \subseteq Nat, T # {}
  PROVE  \E x \in T : \A y \in T : x <= y
<1> DEFINE R == OpToRel(<, Nat)
<1>1. IsWellFoundedOn(R, Nat)
  BY NatLessThanWellFounded, ZenonT(60)
<1>2. \A x \in Nat, y \in Nat : y < x => <<y, x>> \in R
  BY Zenon DEF OpToRel
<1> HIDE DEF R
<1>3. PICK x \in T : \A y \in T : ~(<<y, x>> \in R)
  BY <1>1, WFMin, ZenonT(60)
<1>4. ASSUME NEW y \in T
      PROVE  x <= y
  <2>1. x \in Nat /\ y \in Nat /\ ~(y < x)
    BY <1>2, <1>3, ZenonT(60)
  <2> QED
    BY <2>1
<1> QED
  BY <1>4, Zenon

\* A sequence is a sequence over its own elements, and stays one when e is added.
LEMMA Appended ==
  ASSUME NEW S, NEW s \in Seq(S), NEW e
  PROVE  LET a == Append(s, e)
         IN  /\ a \in Seq({a[i] : i \in DOMAIN a})
             /\ Len(a) = Len(s) + 1
             /\ \A i \in 1..Len(s) : a[i] = s[i]
             /\ a[Len(s) + 1] = e
<1> DEFINE a == Append(s, e)
<1>1. s \in Seq(S \cup {e})
  BY SeqMonotonic, Zenon
<1>2. /\ a \in Seq(S \cup {e})
      /\ Len(a) = Len(s) + 1
      /\ \A i \in 1..Len(s) : a[i] = s[i]
      /\ a[Len(s) + 1] = e
  BY <1>1, AppendProperties
<1> HIDE DEF a
<1>3. Len(a) \in Nat /\ DOMAIN a = 1..Len(a) /\ a = [i \in 1..Len(a) |-> a[i]]
  BY <1>2, LenProperties, Zenon
<1>4. a \in Seq({a[i] : i \in DOMAIN a})
  BY <1>3, IsASeq
<1> QED
  BY <1>2, <1>4, Zenon DEF a

-----------------------------------------------------------------------------
(* Lines and times.                                                        *)

\* A line of times gives integers.
LEMMA TimesAreIntegers ==
  ASSUME file \in Seq(Line), NEW p \in 1..Len(file), file[p].kind = "times"
  PROVE  StartMs(p) \in Int /\ EndMs(p) \in Int
<1>1. file[p].form \in Forms /\ file[p].from \in Stamp /\ file[p].to \in Stamp
  BY DEF Line
<1>2. ASSUME NEW t \in Stamp
      PROVE  Ms(file[p], t) \in Int
  <2>1. Hours(file[p], t) \in Int /\ t.m \in Int /\ t.s \in Int /\ t.ms \in Int
    BY DEF Hours, Stamp
  <2>2. PICK h \in Int, m \in Int, s \in Int, ms \in Int :
          h = Hours(file[p], t) /\ m = t.m /\ s = t.s /\ ms = t.ms
    BY <2>1, Zenon
  <2>3. Ms(file[p], t) = ((h * 3600 + m * 60 + s) * 1000) + ms
    BY <2>2, SMTT(60) DEF Ms
  <2> QED
    BY <2>3, SMTT(60)
<1> QED
  BY <1>1, <1>2, Zenon DEF StartMs, EndMs

\* There is a line that ends the text of a cue, so TextEnd is that line.
LEMMA TextEnds ==
  ASSUME file \in Seq(Line), NEW p \in 1..Len(file)
  PROVE  /\ TextEnd(p) \in (p + 1)..(Len(file) + 1)
         /\ \A k \in (p + 1)..(TextEnd(p) - 1) : ~Blank(k)
         /\ TextEnd(p) <= Len(file) => Blank(TextEnd(p))
<1> DEFINE S == {e \in (p + 1)..(Len(file) + 1) : e <= Len(file) => Blank(e)}
<1>1. Len(file) + 1 \in S
  OBVIOUS
<1>2. PICK e \in S : \A k \in S : e <= k
  <2>1. S \subseteq Nat /\ S # {}
    BY <1>1
  <2> QED
    BY <2>1, Smallest, ZenonT(60)
<1>3. \A k \in (p + 1)..(e - 1) : ~Blank(k)
  BY <1>2
<1> QED
  BY <1>2, <1>3, Zenon DEF TextEnd

\* What the properties say of the file does not change while it is parsed.
LEMMA FileFixed ==
  ASSUME file' = file, mode' = mode, NEW p
  PROVE  /\ StartMs(p)' = StartMs(p) /\ EndMs(p)' = EndMs(p)
         /\ Accepted(p)' <=> Accepted(p)
         /\ WellFormed(p)' <=> WellFormed(p)
<1>1. StartMs(p)' = StartMs(p) /\ EndMs(p)' = EndMs(p)
  BY Zenon DEF StartMs, EndMs
<1>2. \A q : Accepted(q)' <=> Accepted(q)
  BY Zenon DEF Accepted, Recognised, InTime, StartMs, EndMs
<1>3. TextEnd(p + 1)' = TextEnd(p + 1)
  BY Zenon DEF TextEnd, Blank
<1>4. TextBuf(p + 1)' = TextBuf(p + 1)
  BY <1>3, Zenon DEF TextBuf
<1> QED
  BY <1>1, <1>2, <1>4, Zenon DEF WellFormed, Blank

-----------------------------------------------------------------------------
(* The cue that a step stores.                                             *)

\* The times of a new cue: in order with itself and with the last cue stored.
LEMMA Repaired ==
  ASSUME ParserInv, NEW p \in 1..Len(file), Accepted(p)
  PROVE  LET e == CueAt(p)
         IN  /\ e.start \in Int /\ e.end \in Int /\ e.at = p
             /\ e.start <= e.end
             /\ n > 0 => entries[n].end <= e.start
             /\ e.end >= EndMs(p)
             /\ e.start # StartMs(p) => n > 0 /\ e.start = entries[n].end
             /\ e.end # EndMs(p) => e.end = e.start + 1
<1>1. StartMs(p) \in Int /\ EndMs(p) \in Int /\ StartMs(p) < EndMs(p)
  BY TimesAreIntegers, Zenon DEF ParserInv, Accepted, Recognised
<1>2. n \in Nat /\ (n > 0 => entries[n].end \in Int)
  BY DEF ParserInv, CuesTyped, n
<1>3. CueAt(p).start = Repair(p).start /\ CueAt(p).end = Repair(p).end /\ CueAt(p).at = p
  BY Zenon DEF CueAt
<1> HIDE DEF n
<1> QED
  BY <1>1, <1>2, <1>3 DEF Repair, Overlaps

\* A step that leaves the cues alone.
LEMMA CuesKept ==
  ASSUME ParserInv, UNCHANGED <<file, mode, entries>>
  PROVE  CuesTyped' /\ RepairSound'
<1>1. \A p : /\ StartMs(p)' = StartMs(p) /\ EndMs(p)' = EndMs(p)
             /\ Accepted(p)' <=> Accepted(p)
  BY FileFixed, Zenon
<1>2. CuesTyped'
  BY <1>1, Zenon DEF ParserInv, CuesTyped, n
<1>3. RepairSound'
  BY <1>1, Zenon DEF ParserInv, RepairSound, Ordered, TimesKept, n
<1> QED
  BY <1>2, <1>3, Zenon

\* A step that gives all cues up.
LEMMA CuesDropped ==
  ASSUME entries' = <<>>
  PROVE  CuesTyped' /\ RepairSound'
<1>1. n' = 0
  BY Zenon DEF n
<1>2. <<>> \in Seq({entries[i] : i \in DOMAIN entries}')
  BY EmptySeq, Zenon
<1>3. CuesTyped'
  BY <1>1, <1>2 DEF CuesTyped
<1>4. RepairSound'
  BY <1>1 DEF RepairSound, Ordered, TimesKept
<1> QED
  BY <1>3, <1>4, Zenon

\* A step that stores one more cue.
LEMMA CueStored ==
  ASSUME ParserInv, UNCHANGED <<file, mode>>,
         NEW p \in 1..Len(file), Accepted(p), entries' = Append(entries, CueAt(p))
  PROVE  CuesTyped' /\ RepairSound' /\ n' = n + 1
<1> DEFINE e == CueAt(p)
<1>1. /\ entries' \in Seq({entries'[i] : i \in DOMAIN entries'})
      /\ n' = n + 1
      /\ \A i \in 1..n : entries'[i] = entries[i]
      /\ entries'[n + 1] = e
  <2> DEFINE S == {entries[i] : i \in DOMAIN entries}
  <2>1. entries \in Seq(S)
    BY Zenon DEF ParserInv, CuesTyped
  <2> HIDE DEF S, e
  <2> QED
    BY <2>1, Appended DEF n, e
<1>2. n \in Nat /\ n' = n + 1
  BY <1>1 DEF ParserInv, CuesTyped, n
<1>3. \A q : /\ StartMs(q)' = StartMs(q) /\ EndMs(q)' = EndMs(q)
             /\ Accepted(q)' <=> Accepted(q)
  BY FileFixed, Zenon
<1>4. /\ e.start \in Int /\ e.end \in Int /\ e.at = p
      /\ e.start <= e.end
      /\ n > 0 => entries[n].end <= e.start
      /\ e.end >= EndMs(p)
      /\ e.start # StartMs(p) => n > 0 /\ e.start = entries[n].end
      /\ e.end # EndMs(p) => e.end = e.start + 1
  BY Repaired, Zenon
<1>5. \A i \in 1..n : /\ entries[i].start \in Int /\ entries[i].end \in Int
                      /\ entries[i].at \in 1..Len(file) /\ Accepted(entries[i].at)
  BY Zenon DEF ParserInv, CuesTyped
<1> HIDE DEF e, n
<1>6. CuesTyped'
  <2>1. ASSUME NEW i \in 1..n'
        PROVE  /\ entries'[i].start \in Int /\ entries'[i].end \in Int
               /\ entries'[i].at \in 1..Len(file) /\ Accepted(entries'[i].at)
    <3>1. i \in 1..n \/ i = n + 1
      BY <1>2
    <3> QED
      BY <1>1, <1>4, <1>5, <3>1, ZenonT(60)
  <2> QED
    BY <1>1, <1>3, <2>1, ZenonT(60) DEF CuesTyped
<1>7. Ordered'
  <2>1. Ordered
    BY Zenon DEF ParserInv, RepairSound
  <2>2. \A i \in 1..n : entries[i].end <= e.start
    <3>1. ASSUME NEW i \in 1..n
          PROVE  entries[i].end <= entries[n].end
      <4>1. CASE i = n
        BY <1>5, <4>1
      <4>2. CASE i # n
        <5>1. entries[i].end <= entries[n].start /\ entries[n].start <= entries[n].end
          BY <1>2, <2>1, <4>2 DEF Ordered
        <5>2. n \in 1..n
          BY <1>2
        <5> QED
          BY <1>5, <5>1, <5>2
      <4> QED
        BY <4>1, <4>2, Zenon
    <3>2. ASSUME NEW i \in 1..n
          PROVE  entries[i].end <= e.start
      <4>1. n > 0 /\ n \in 1..n
        BY <1>2
      <4> QED
        BY <1>4, <1>5, <3>1, <4>1
    <3> QED
      BY <3>2, Zenon
  <2>3. ASSUME NEW i \in 1..n'
        PROVE  entries'[i].start <= entries'[i].end
    <3>1. i \in 1..n \/ i = n + 1
      BY <1>2
    <3> QED
      BY <1>1, <1>4, <2>1, <3>1, ZenonT(60) DEF Ordered
  <2>4. \A i, j \in 1..n' : i < j => entries'[i].end <= entries'[j].start
    <3> SUFFICES ASSUME NEW i \in 1..n', NEW j \in 1..n', i < j
                 PROVE  entries'[i].end <= entries'[j].start
      BY ZenonT(60)
    <3>1. i \in 1..n /\ (j \in 1..n \/ j = n + 1)
      BY <1>2
    <3>2. CASE j \in 1..n
      BY <1>1, <2>1, <3>1, <3>2, ZenonT(60) DEF Ordered
    <3>3. CASE j = n + 1
      BY <1>1, <2>2, <3>1, <3>3, ZenonT(60)
    <3> QED
      BY <3>1, <3>2, <3>3, ZenonT(60)
  <2> QED
    BY <2>3, <2>4, ZenonT(60) DEF Ordered
<1>8. TimesKept'
  <2>1. TimesKept
    BY Zenon DEF ParserInv, RepairSound
  <2>2. ASSUME NEW i \in 1..n'
        PROVE  /\ entries'[i].end >= EndMs(entries'[i].at)
               /\ entries'[i].start # StartMs(entries'[i].at) =>
                    i > 1 /\ entries'[i].start = entries'[i - 1].end
               /\ entries'[i].end # EndMs(entries'[i].at) =>
                    entries'[i].end = entries'[i].start + 1
    <3>1. CASE i \in 1..n
      <4>1. i > 1 => i - 1 \in 1..n
        BY <1>2, <3>1
      <4> QED
        BY <1>1, <2>1, <3>1, <4>1, ZenonT(60) DEF TimesKept
    <3>2. CASE i = n + 1
      <4>1. n > 0 => i > 1 /\ i - 1 = n /\ n \in 1..n
        BY <1>2, <3>2
      <4> QED
        BY <1>1, <1>4, <3>2, <4>1, ZenonT(60)
    <3>3. i \in 1..n \/ i = n + 1
      BY <1>2
    <3> QED
      BY <3>1, <3>2, <3>3, ZenonT(60)
  <2> QED
    BY <1>3, <2>2, ZenonT(60) DEF TimesKept
<1> QED
  BY <1>1, <1>6, <1>7, <1>8, Zenon DEF RepairSound

-----------------------------------------------------------------------------
(* Where the next turn begins.                                             *)

\* The turn that reads a header has the line of times in the file.
LEMMA HeaderLines ==
  ASSUME ParserInv, Header
  PROVE  /\ pos \in 1..Len(file) /\ TimesAt(pos) \in 1..Len(file)
         /\ TimesAt(pos) = IF IsIndex(pos) THEN pos + 1 ELSE pos
         /\ UNCHANGED <<file, mode>>
  BY DEF ParserInv, Header, Reading, TimesAt

\* No turn that starts before a well-formed cue ends behind its first line; the
\* turn that starts there takes it.
LEMMA NotPassed ==
  ASSUME ParserInv, NEW p \in 1..Len(file), WellFormed(p), p >= pos
  PROVE  /\ SkipBlank => p >= pos'
         /\ ~IndexAtEnd
         /\ RejectCue => p >= pos'
         /\ ReadText /\ p # pos => p >= pos'
         /\ p = pos => TimesAt(pos) = p + 1 /\ ~NoText
<1>1. file \in Seq(Line) /\ pos \in Nat \ {0} /\ Len(file) \in Nat
  BY DEF ParserInv
<1>2. /\ p + 1 <= Len(file) /\ file[p].kind = "index" /\ Accepted(p + 1)
      /\ p = 1 \/ Blank(p - 1)
      /\ mode = "stats" => TextBuf(p + 1) # <<>>
  BY Zenon DEF WellFormed
<1>3. ~Blank(p) /\ IsIndex(p)
  BY <1>2, Zenon DEF Blank, IsIndex
<1>4. SkipBlank => p >= pos'
  BY <1>1, <1>3 DEF SkipBlank
<1>5. ~IndexAtEnd
  BY <1>1, <1>2 DEF IndexAtEnd
<1>6. p = pos => TimesAt(pos) = p + 1 /\ ~NoText
  BY <1>2, <1>3, Zenon DEF TimesAt, NoText
<1>7. ASSUME Header, p # pos
      PROVE  /\ TimesAt(pos) + 1 <= p
             /\ TimesAt(pos) \in 1..Len(file)
             /\ p - 1 \in 1..Len(file) /\ Blank(p - 1)
  <2>1. ~Blank(pos) /\ pos < p /\ p # 1
    BY <1>1, <1>7 DEF Header
  <2>2. Blank(p - 1) /\ pos # p - 1
    BY <1>2, <2>1, Zenon
  <2>3. pos + 1 <= p - 1
    BY <1>1, <2>1, <2>2
  <2>4. TimesAt(pos) \in 1..Len(file) /\ (TimesAt(pos) = pos + 1 \/ TimesAt(pos) = pos)
    BY <1>7, HeaderLines, Zenon
  <2> QED
    BY <1>1, <2>2, <2>3, <2>4
<1>8. RejectCue => p >= pos'
  <2> SUFFICES ASSUME RejectCue
               PROVE  p >= pos'
    BY Zenon
  <2>1. Header /\ pos' = TimesAt(pos) + 1 /\ p # pos
    BY <1>2, <1>6, Zenon DEF RejectCue
  <2> QED
    BY <1>1, <1>7, <2>1, Zenon
<1>9. ReadText /\ p # pos => p >= pos'
  <2> SUFFICES ASSUME ReadText, p # pos
               PROVE  p >= pos'
    BY Zenon
  <2> DEFINE q == TimesAt(pos)
  <2>1. Header /\ Accepted(q) /\ pos' = TextEnd(q) + 1
    BY Zenon DEF ReadText
  <2>2. q + 1 <= p /\ q \in 1..Len(file) /\ p - 1 \in 1..Len(file) /\ Blank(p - 1)
    BY <1>7, <2>1, Zenon
  <2>3. ~Blank(q)
    BY <2>1, Zenon DEF Accepted, Recognised, Blank
  <2>4. q + 1 <= p - 1
    BY <1>1, <2>2, <2>3
  <2>5. /\ TextEnd(q) \in (q + 1)..(Len(file) + 1)
        /\ \A k \in (q + 1)..(TextEnd(q) - 1) : ~Blank(k)
    BY <1>1, <2>2, TextEnds, Zenon
  <2> HIDE DEF q
  <2>6. ~(p - 1 < TextEnd(q))
    BY <1>1, <2>2, <2>4, <2>5
  <2> QED
    BY <1>1, <2>1, <2>2, <2>5, <2>6
<1> QED
  BY <1>4, <1>5, <1>6, <1>8, <1>9, Zenon

\* A step that keeps the cues and passes no well-formed one.
LEMMA StillSynchronised ==
  ASSUME ParserInv, UNCHANGED <<file, mode, entries, faults>>,
         \A p \in 1..Len(file) : WellFormed(p) /\ p >= pos => p >= pos'
  PROVE  Resynchronised'
<1>1. \A p : WellFormed(p)' <=> WellFormed(p)
  BY FileFixed, Zenon
<1> QED
  BY <1>1, Zenon DEF ParserInv, Resynchronised, n

\* The step that stores a cue.
LEMMA StoredSynchronised ==
  ASSUME ParserInv, StoreCue
  PROVE  Resynchronised'
<1> DEFINE q == TimesAt(pos)
<1>1. /\ ReadText /\ Header /\ Accepted(q)
      /\ entries' = Append(entries, CueAt(q)) /\ UNCHANGED faults
  BY Zenon DEF StoreCue, ReadText
<1>2. q \in 1..Len(file) /\ UNCHANGED <<file, mode>>
  BY <1>1, HeaderLines, Zenon
<1>3. \A p : WellFormed(p)' <=> WellFormed(p)
  BY <1>2, FileFixed, Zenon
<1>4. n \in Nat /\ n' = n + 1
  BY <1>1, <1>2, CueStored DEF ParserInv, CuesTyped, n
<1>5. /\ \A i \in 1..n : entries'[i] = entries[i]
      /\ entries'[n + 1].at = q
  <2> DEFINE S == {entries[i] : i \in DOMAIN entries}
  <2>1. entries \in Seq(S)
    BY Zenon DEF ParserInv, CuesTyped
  <2>2. CueAt(q).at = q
    BY Zenon DEF CueAt
  <2> HIDE DEF S, q
  <2> QED
    BY <1>1, <2>1, <2>2, Appended DEF n
<1>6. ASSUME faults = {}, NEW p \in 1..Len(file), WellFormed(p)
      PROVE  p >= pos' \/ \E i \in 1..n' : entries'[i].at = p + 1
  <2>1. CASE p >= pos /\ p # pos
    BY <1>1, <1>6, <2>1, NotPassed, Zenon
  <2>2. CASE p = pos
    <3>1. q = p + 1
      BY <1>6, <2>2, NotPassed DEF ParserInv
    <3>2. n + 1 \in 1..n' /\ entries'[n + 1].at = p + 1
      BY <1>4, <1>5, <3>1
    <3> QED
      BY <3>2, Zenon
  <2>3. CASE ~(p >= pos)
    <3>1. PICK i \in 1..n : entries[i].at = p + 1
      BY <1>6, <2>3, Zenon DEF ParserInv, Resynchronised
    <3>2. i \in 1..n' /\ entries'[i].at = p + 1
      BY <1>4, <1>5, <3>1
    <3> QED
      BY <3>2, Zenon
  <2> QED
    BY <2>1, <2>2, <2>3, Zenon
<1> QED
  BY <1>1, <1>2, <1>3, <1>6, ZenonT(60) DEF Resynchronised

-----------------------------------------------------------------------------
(* The invariant.                                                          *)

\* A turn that reads the text of a cue goes on behind it.
LEMMA TextTurn ==
  ASSUME ParserInv, ReadText
  PROVE  /\ pos' \in Nat \ {0} /\ UNCHANGED <<file, mode>>
         /\ TimesAt(pos) \in 1..Len(file) /\ Accepted(TimesAt(pos))
         /\ pc = "read"
<1>1. TimesAt(pos) \in 1..Len(file) /\ UNCHANGED <<file, mode>> /\ Len(file) \in Nat
  BY HeaderLines DEF ReadText, ParserInv
<1>2. TextEnd(TimesAt(pos)) \in (TimesAt(pos) + 1)..(Len(file) + 1)
  BY <1>1, TextEnds, Zenon DEF ParserInv
<1> QED
  BY <1>1, <1>2 DEF ReadText, Header, Reading

\* A turn that loses cues to a failing allocation claims nothing of them.
LEMMA GivenUp ==
  ASSUME ParserInv, ReadText, entries' = <<>>, pc' = "failed",
         faults' # {}, live' \in Nat, TextsOwned'
  PROVE  ParserInv'
<1>1. pos' \in Nat \ {0} /\ UNCHANGED <<file, mode>>
  BY TextTurn, Zenon
<1>2. CuesTyped' /\ RepairSound'
  BY CuesDropped, Zenon
<1> QED
  BY <1>1, <1>2, Zenon DEF ParserInv, Resynchronised

\* The parsers start with an array without cues, on the first line.
LEMMA ParserStarts == Init => ParserInv
<1> SUFFICES ASSUME Init
             PROVE  ParserInv
  BY Zenon
<1>1. n = 0 /\ file \in Seq(Line)
  BY ParserAssumption, Zenon DEF Init, n
<1>2. CuesTyped
  BY <1>1, EmptySeq DEF Init, CuesTyped
<1>3. RepairSound
  BY <1>1 DEF RepairSound, Ordered, TimesKept
<1>4. Resynchronised
  BY <1>1 DEF Init, Resynchronised
<1>5. TextsOwned
  BY <1>1, Zenon DEF Init, TextsOwned
<1> QED
  BY <1>1, <1>2, <1>3, <1>4, <1>5 DEF Init, ParserInv

\* Every turn of the two parsers keeps the invariant.
LEMMA ParserSteps == ParserInv /\ [Next]_vars => ParserInv'
<1> SUFFICES ASSUME ParserInv, [Next]_vars
             PROVE  ParserInv'
  BY Zenon
<1>0. /\ file \in Seq(Line) /\ Len(file) \in Nat /\ pos \in Nat \ {0} /\ live \in Nat
      /\ n \in Nat /\ mode \in {"plain", "stats"}
  BY DEF ParserInv, CuesTyped, n
<1>1. CASE Open
  <2>1. UNCHANGED <<file, mode, pos, entries, live>>
    BY <1>1, Zenon DEF Open
  <2>2. CuesTyped' /\ RepairSound'
    BY <2>1, CuesKept, Zenon
  <2>3. Resynchronised'
    <3>1. CASE faults' = faults
      BY <2>1, <3>1, StillSynchronised, Zenon
    <3>2. CASE faults' = faults \cup {"open"}
      BY <3>2, Zenon DEF Resynchronised
    <3> QED
      BY <1>1, <3>1, <3>2, Zenon DEF Open
  <2>4. TextsOwned'
    BY <1>1, <2>1, Zenon DEF Open, ParserInv, TextsOwned, n
  <2> QED
    BY <1>1, <2>1, <2>2, <2>3, <2>4, Zenon DEF Open, ParserInv
<1>2. CASE SkipBlank \/ IndexAtEnd \/ RejectCue \/ EndOfFile
  <2>1. UNCHANGED <<file, mode, entries, live, faults>>
    BY <1>2, Zenon DEF SkipBlank, IndexAtEnd, RejectCue, Header, EndOfFile, Quiet
  <2>2. CuesTyped' /\ RepairSound'
    BY <2>1, CuesKept, Zenon
  <2>3. EndOfFile => pos' = pos
    BY Zenon DEF EndOfFile
  <2>4. Resynchronised'
    BY <1>2, <2>1, <2>3, NotPassed, StillSynchronised, Zenon
  <2>5. TextsOwned'
    BY <2>1, Zenon DEF ParserInv, TextsOwned, n
  <2>6. /\ pos' \in Nat \ {0} /\ pc' \in {"read", "done"}
        /\ pc' = "done" => pos' > Len(file)
    BY <1>0, <1>2, HeaderLines
    DEF SkipBlank, IndexAtEnd, RejectCue, EndOfFile, Reading, Header
  <2> QED
    BY <2>1, <2>2, <2>4, <2>5, <2>6, Zenon DEF ParserInv
<1>3. CASE EmptyCue
  <2>1. ReadText /\ NoText /\ UNCHANGED <<entries, live, faults, pc>>
    BY <1>3, Zenon DEF EmptyCue, Quiet
  <2>2. pos' \in Nat \ {0} /\ UNCHANGED <<file, mode>> /\ pc = "read"
    BY <2>1, TextTurn, Zenon
  <2>3. CuesTyped' /\ RepairSound'
    BY <2>1, <2>2, CuesKept, Zenon
  <2>4. Resynchronised'
    BY <2>1, <2>2, NotPassed, StillSynchronised, Zenon
  <2>5. TextsOwned'
    BY <2>1, <2>2, Zenon DEF ParserInv, TextsOwned, n
  <2> QED
    BY <2>1, <2>2, <2>3, <2>4, <2>5, Zenon DEF ParserInv
<1>4. CASE GrowFails
  <2>1. /\ ReadText /\ entries' = <<>> /\ pc' = "failed" /\ live' = live
        /\ "grow" \in faults'
    BY <1>4, Zenon DEF GrowFails
  <2>2. TextsOwned'
    BY <2>1, Zenon DEF TextsOwned
  <2> QED
    BY <1>0, <2>1, <2>2, GivenUp, Zenon
<1>5. CASE NormFails \/ StripFails
  <2>1. /\ ReadText /\ entries' = <<>> /\ pc' = "failed" /\ live' = 0
        /\ faults' # {}
    BY <1>5, Zenon DEF NormFails, StripFails
  <2>2. TextsOwned'
    BY <2>1, Zenon DEF TextsOwned, n
  <2> QED
    BY <2>1, <2>2, GivenUp, Zenon
<1>6. CASE NormSkips \/ StripSkips
  <2>1. /\ ReadText /\ UNCHANGED entries /\ faults' # {} /\ mode = "stats"
        /\ pc' \in {"read", "undefined", pc} /\ live' \in {live, live + 1}
    <3>1. CASE NormSkips
      BY <3>1, Zenon DEF NormSkips
    <3>2. CASE StripSkips
      BY <3>2, Zenon DEF StripSkips
    <3> QED
      BY <1>6, <3>1, <3>2, Zenon
  <2>2. pos' \in Nat \ {0} /\ UNCHANGED <<file, mode>> /\ pc = "read"
    BY <2>1, TextTurn, Zenon
  <2>3. CuesTyped' /\ RepairSound'
    BY <2>1, <2>2, CuesKept, Zenon
  <2>4. Resynchronised'
    BY <2>1, Zenon DEF Resynchronised
  <2>5. TextsOwned'
    <3>1. CASE NormSkips
      BY <2>1, <2>2, <3>1, Zenon DEF NormSkips, ParserInv, TextsOwned, n
    <3>2. CASE StripSkips
      BY <2>1, <2>2, <3>2, Zenon DEF StripSkips, TextsOwned
    <3> QED
      BY <1>6, <3>1, <3>2, Zenon
  <2> QED
    BY <1>0, <2>1, <2>2, <2>3, <2>4, <2>5 DEF ParserInv
<1>7. CASE StoreCue
  <2>1. /\ ReadText /\ entries' = Append(entries, CueAt(TimesAt(pos)))
        /\ live' = live + 1 /\ UNCHANGED <<pc, faults>>
    BY <1>7, Zenon DEF StoreCue
  <2>2. /\ pos' \in Nat \ {0} /\ UNCHANGED <<file, mode>> /\ pc = "read"
        /\ TimesAt(pos) \in 1..Len(file) /\ Accepted(TimesAt(pos))
    BY <2>1, TextTurn, Zenon
  <2>3. CuesTyped' /\ RepairSound' /\ n' = n + 1
    BY <2>1, <2>2, CueStored, Zenon
  <2>4. Resynchronised'
    BY <1>7, StoredSynchronised, Zenon
  <2>5. TextsOwned'
    BY <2>1, <2>2, <2>3, Zenon DEF ParserInv, TextsOwned
  <2> QED
    BY <1>0, <2>1, <2>2, <2>3, <2>4, <2>5 DEF ParserInv
<1>8. CASE UNCHANGED vars
  <2>1. UNCHANGED <<file, mode, pos, pc, entries, live, faults>>
    BY <1>8, Zenon DEF vars
  <2>2. CuesTyped' /\ RepairSound'
    BY <2>1, CuesKept, Zenon
  <2>3. Resynchronised'
    BY <2>1, StillSynchronised, Zenon
  <2>4. TextsOwned'
    BY <2>1, Zenon DEF ParserInv, TextsOwned, n
  <2> QED
    BY <2>1, <2>2, <2>3, <2>4, Zenon DEF ParserInv
<1> QED
  BY <1>1, <1>2, <1>3, <1>4, <1>5, <1>6, <1>7, <1>8, Zenon DEF Next, Returned

-----------------------------------------------------------------------------
(* Theorems.                                                               *)

\* ParserInv holds while either parser reads any file, whichever allocations fail.
THEOREM ParserInvariant == Spec => []ParserInv
  BY ParserStarts, ParserSteps, PTL DEF Spec

\* The overlap repair of both parsers orders the cues of every file, and changes
\* no time that it need not change.
THEOREM ParserRepairSound == Spec => []RepairSound
<1>1. ParserInv => RepairSound
  BY Zenon DEF ParserInv
<1> QED
  BY <1>1, ParserInvariant, PTL

\* Both parsers find every well-formed cue of every file, whatever stands before it.
THEOREM ParserLosesNoCue == Spec => []NoCueLost
<1>1. ParserInv => NoCueLost
  BY DEF ParserInv, Resynchronised, NoCueLost
<1> QED
  BY <1>1, ParserInvariant, PTL

\* Each text string belongs to one stored cue, also when an allocation fails.
THEOREM ParserTextsOwned == Spec => []TextsOwned
<1>1. ParserInv => TextsOwned
  BY Zenon DEF ParserInv
<1> QED
  BY <1>1, ParserInvariant, PTL

-----------------------------------------------------------------------------
(* Accounting: the statistics of --qc-only and the findings of qc_check_entry. *)

Duration(i) == entries[i].end - entries[i].start
Gap(i) == entries[i].start - entries[i - 1].end

\* min_duration and max_duration bound the durations, and min_duration is one.
DurationsMeasured ==
  /\ stats.minDur \in Int /\ stats.maxDur \in Int
  /\ n = 0 => stats.minDur = Infinity
  /\ \A i \in 1..n : stats.minDur <= Duration(i) /\ Duration(i) <= stats.maxDur
  /\ n > 0 => \E i \in 1..n : Duration(i) = stats.minDur

\* min_gap and max_gap are the least and the greatest gap between neighbours.
GapsMeasured ==
  /\ stats.minGap \in Int /\ stats.maxGap \in Nat
  /\ n <= 1 => stats.minGap = Infinity
  /\ \A i \in 2..n : stats.minGap <= Gap(i) /\ Gap(i) <= stats.maxGap
  /\ n > 1 => \E i \in 2..n : Gap(i) = stats.minGap
  /\ stats.maxGap = 0 \/ \E i \in 2..n : Gap(i) = stats.maxGap

\* The statistics describe the cues stored so far.
StatsInv ==
  /\ DOMAIN stats = DOMAIN NoStats
  /\ mode = "stats" /\ faults \subseteq {"norm"} =>
       /\ stats.total \in Nat /\ stats.valid \in Nat /\ stats.skipped \in Nat
       /\ stats.total = stats.valid + stats.skipped
       /\ stats.valid = n
       /\ DurationsMeasured /\ GapsMeasured

\* qc_check_entry sees an error where a cue takes no time.
Timeless == {i \in 1..n : entries[i].start = entries[i].end}
QcInv == pc # "failed" => errors = Cardinality(Timeless)

\* The fields that Accounting speaks of, total and skipped excepted.
SameMeasures(s, t) ==
  /\ s.valid = t.valid
  /\ s.minDur = t.minDur /\ s.maxDur = t.maxDur
  /\ s.minGap = t.minGap /\ s.maxGap = t.maxGap

\* The header of a cue counts it once, whatever its index and the form of its times.
LEMMA HeaderCounts ==
  ASSUME DOMAIN stats = DOMAIN NoStats, NEW p
  PROVE  /\ DOMAIN Indexed(p) = DOMAIN NoStats /\ SameMeasures(Indexed(p), stats)
         /\ Indexed(p).total = stats.total /\ Indexed(p).skipped = stats.skipped
         /\ DOMAIN Headed(p) = DOMAIN NoStats /\ SameMeasures(Headed(p), stats)
         /\ Headed(p).total = stats.total + 1 /\ Headed(p).skipped = stats.skipped
<1> DEFINE i == Indexed(p)
           s == [i EXCEPT !.total = @ + 1]
<1>1. /\ DOMAIN i = DOMAIN NoStats /\ SameMeasures(i, stats)
      /\ i.total = stats.total /\ i.skipped = stats.skipped
  BY Zenon DEF Indexed, WithId, NoStats, SameMeasures
<1> HIDE DEF i
<1>2. /\ DOMAIN s = DOMAIN NoStats /\ SameMeasures(s, stats)
      /\ s.total = stats.total + 1 /\ s.skipped = stats.skipped
  BY <1>1, Zenon DEF NoStats, SameMeasures
<1>3. \/ Headed(p) = [s EXCEPT !.encoding = @ + 1]
      \/ Headed(p) = [s EXCEPT !.validation = @ + 1]
      \/ Headed(p) = s
  <2>1. \A A, B, x, y, z :
          \/ (CASE A -> x [] B -> y [] OTHER -> z) = x
          \/ (CASE A -> x [] B -> y [] OTHER -> z) = y
          \/ (CASE A -> x [] B -> y [] OTHER -> z) = z
    OBVIOUS
  <2> QED
    BY <2>1, Zenon DEF Headed, i
<1> HIDE DEF s
<1>4. /\ DOMAIN Headed(p) = DOMAIN NoStats /\ SameMeasures(Headed(p), stats)
      /\ Headed(p).total = stats.total + 1 /\ Headed(p).skipped = stats.skipped
  BY <1>2, <1>3, Zenon DEF NoStats, SameMeasures
<1> QED
  BY <1>1, <1>4, Zenon DEF i

\* A skipped cue is counted once more, with or without a warning.
LEMMA SkipCounts ==
  ASSUME NEW s, DOMAIN s = DOMAIN NoStats
  PROVE  /\ DOMAIN Skipped(s) = DOMAIN NoStats /\ SameMeasures(Skipped(s), s)
         /\ Skipped(s).total = s.total /\ Skipped(s).skipped = s.skipped + 1
         /\ DOMAIN Warned(s) = DOMAIN NoStats /\ SameMeasures(Warned(s), s)
         /\ Warned(s).total = s.total /\ Warned(s).skipped = s.skipped + 1
<1>1. /\ DOMAIN Skipped(s) = DOMAIN NoStats /\ SameMeasures(Skipped(s), s)
      /\ Skipped(s).total = s.total /\ Skipped(s).skipped = s.skipped + 1
  BY Zenon DEF Skipped, NoStats, SameMeasures
<1>2. /\ DOMAIN Warned(s) = DOMAIN NoStats /\ SameMeasures(Warned(s), s)
      /\ Warned(s).total = s.total /\ Warned(s).skipped = s.skipped + 1
  BY Zenon DEF Warned, NoStats, SameMeasures
<1> QED
  BY <1>1, <1>2, Zenon

\* What a stored cue adds to the statistics.
LEMMA MeasureCounts ==
  ASSUME NEW s, DOMAIN s = DOMAIN NoStats, NEW e, NEW r \in BOOLEAN
  PROVE  LET m == Measured(s, e, r)
             dur == e.end - e.start
             gap == e.start - entries[n].end
         IN  /\ DOMAIN m = DOMAIN NoStats
             /\ m.total = s.total /\ m.skipped = s.skipped /\ m.valid = s.valid + 1
             /\ m.minDur = Least(s.minDur, dur) /\ m.maxDur = Greatest(s.maxDur, dur)
             /\ m.minGap = (IF n = 0 THEN s.minGap ELSE Least(s.minGap, gap))
             /\ m.maxGap = (IF n = 0 THEN s.maxGap ELSE Greatest(s.maxGap, gap))
<1> DEFINE dur == e.end - e.start
           gap == e.start - entries[n].end
           d == [s EXCEPT !.valid = @ + 1,
                          !.overlaps = IF r THEN @ + 1 ELSE @,
                          !.minDur = Least(@, dur), !.maxDur = Greatest(@, dur),
                          !.timing = IF dur < 100 \/ dur > 30000 THEN @ + 1 ELSE @]
           g == [d EXCEPT !.minGap = Least(@, gap), !.maxGap = Greatest(@, gap)]
<1>1. Measured(s, e, r) = IF n = 0 THEN d ELSE g
  BY DEF Measured
<1> HIDE DEF dur, gap
<1>2. /\ DOMAIN d = DOMAIN NoStats
      /\ d.total = s.total /\ d.skipped = s.skipped /\ d.valid = s.valid + 1
      /\ d.minDur = Least(s.minDur, dur) /\ d.maxDur = Greatest(s.maxDur, dur)
      /\ d.minGap = s.minGap /\ d.maxGap = s.maxGap
  BY DEF NoStats
<1> HIDE DEF d
<1>3. /\ DOMAIN g = DOMAIN NoStats
      /\ g.total = d.total /\ g.skipped = d.skipped /\ g.valid = d.valid
      /\ g.minDur = d.minDur /\ g.maxDur = d.maxDur
      /\ g.minGap = Least(d.minGap, gap) /\ g.maxGap = Greatest(d.maxGap, gap)
  BY <1>2, Zenon DEF NoStats
<1> HIDE DEF g
<1> QED
  BY <1>1, <1>2, <1>3 DEF dur, gap

\* A turn that stores no cue and counts as many cues skipped as it encounters.
LEMMA StatsKept ==
  ASSUME StatsInv, UNCHANGED <<mode, entries>>, faults \subseteq faults',
         DOMAIN stats' = DOMAIN NoStats,
         SameMeasures(stats', stats),
         \/ stats'.total = stats.total /\ stats'.skipped = stats.skipped
         \/ stats'.total = stats.total + 1 /\ stats'.skipped = stats.skipped + 1
  PROVE  StatsInv'
<1> SUFFICES ASSUME mode = "stats", faults' \subseteq {"norm"}
             PROVE  /\ stats'.total \in Nat /\ stats'.valid \in Nat /\ stats'.skipped \in Nat
                    /\ stats'.total = stats'.valid + stats'.skipped
                    /\ stats'.valid = n'
                    /\ DurationsMeasured' /\ GapsMeasured'
  BY ZenonT(60) DEF StatsInv
<1>1. n' = n /\ (\A i : Duration(i)' = Duration(i) /\ Gap(i)' = Gap(i))
  BY Zenon DEF n, Duration, Gap
<1>2. /\ stats.total \in Nat /\ stats.valid \in Nat /\ stats.skipped \in Nat
      /\ stats.total = stats.valid + stats.skipped
      /\ stats.valid = n
      /\ DurationsMeasured /\ GapsMeasured
  <2>1. faults \subseteq {"norm"}
    BY Zenon
  <2> QED
    BY <2>1, Zenon DEF StatsInv
<1>3. DurationsMeasured'
  BY <1>1, <1>2, ZenonT(60) DEF DurationsMeasured, SameMeasures
<1>4. GapsMeasured'
  BY <1>1, <1>2, ZenonT(60) DEF GapsMeasured, SameMeasures
<1>5. stats'.valid = stats.valid
  BY Zenon DEF SameMeasures
<1> HIDE DEF n, SameMeasures
<1> QED
  BY <1>1, <1>2, <1>3, <1>4, <1>5

\* The cues after one was stored: the old durations and gaps, and one of each more.
LEMMA OneMore ==
  ASSUME ParserInv, UNCHANGED <<file, mode>>,
         NEW p \in 1..Len(file), Accepted(p), entries' = Append(entries, CueAt(p))
  PROVE  /\ n \in Nat /\ n' = n + 1
         /\ \A i \in 1..n : entries'[i] = entries[i]
         /\ entries'[n + 1] = CueAt(p)
         /\ \A i \in 1..n : Duration(i) \in Nat /\ Duration(i)' = Duration(i)
         /\ \A i \in 2..n : Gap(i) \in Nat /\ Gap(i)' = Gap(i)
         /\ \A k : k = n + 1 =>
              /\ Duration(k)' \in Nat /\ Duration(k)' = CueAt(p).end - CueAt(p).start
              /\ n > 0 => Gap(k)' \in Nat /\ Gap(k)' = CueAt(p).start - entries[n].end
<1> DEFINE e == CueAt(p)
<1>1. /\ n' = n + 1
      /\ \A i \in 1..n : entries'[i] = entries[i]
      /\ entries'[n + 1] = e
  <2> DEFINE S == {entries[i] : i \in DOMAIN entries}
  <2>1. entries \in Seq(S)
    BY Zenon DEF ParserInv, CuesTyped
  <2> HIDE DEF S, e
  <2> QED
    BY <2>1, Appended DEF n, e
<1>2. n \in Nat
  BY DEF ParserInv, CuesTyped, n
<1>3. /\ e.start \in Int /\ e.end \in Int /\ e.start <= e.end
      /\ n > 0 => entries[n].end <= e.start
  BY Repaired, Zenon
<1>4. \A i \in 1..n : entries[i].start \in Int /\ entries[i].end \in Int
  BY Zenon DEF ParserInv, CuesTyped
<1>5. Ordered
  BY Zenon DEF ParserInv, RepairSound
<1> HIDE DEF e, n
<1>6. ASSUME NEW i \in 1..n
      PROVE  Duration(i) \in Nat /\ Duration(i)' = Duration(i)
  <2>1. entries'[i] = entries[i] /\ entries[i].start <= entries[i].end
    BY <1>1, <1>5, Zenon DEF Ordered
  <2> QED
    BY <1>4, <2>1 DEF Duration
<1>7. ASSUME NEW i \in 2..n
      PROVE  Gap(i) \in Nat /\ Gap(i)' = Gap(i)
  <2>1. i \in 1..n /\ i - 1 \in 1..n /\ i - 1 < i
    BY <1>2
  <2>2. /\ entries'[i] = entries[i] /\ entries'[i - 1] = entries[i - 1]
        /\ entries[i - 1].end <= entries[i].start
    BY <1>1, <1>5, <2>1, Zenon DEF Ordered
  <2> QED
    BY <1>4, <2>1, <2>2 DEF Gap
<1>8. ASSUME NEW k, k = n + 1
      PROVE  /\ Duration(k)' \in Nat /\ Duration(k)' = e.end - e.start
             /\ n > 0 => Gap(k)' \in Nat /\ Gap(k)' = e.start - entries[n].end
  <2>1. Duration(k)' = e.end - e.start
    BY <1>1, <1>8, Zenon DEF Duration
  <2>2. ASSUME n > 0
        PROVE  Gap(k)' \in Nat /\ Gap(k)' = e.start - entries[n].end
    <3>1. n \in 1..n /\ k - 1 = n
      BY <1>2, <1>8, <2>2
    <3>2. Gap(k)' = e.start - entries[n].end
      BY <1>1, <1>8, <3>1, Zenon DEF Gap
    <3> QED
      BY <1>3, <1>4, <2>2, <3>1, <3>2
  <2> QED
    BY <1>3, <2>1, <2>2
<1> QED
  BY <1>1, <1>2, <1>6, <1>7, <1>8, Zenon DEF e

\* A duration measured: the least and the greatest are those of one cue more.
LEMMA DurationsGrow ==
  ASSUME n \in Nat, n' = n + 1, DurationsMeasured,
         \A i \in 1..n : Duration(i) \in Nat /\ Duration(i)' = Duration(i),
         NEW d \in Nat, \A k : k = n + 1 => Duration(k)' = d,
         stats'.minDur = Least(stats.minDur, d), stats'.maxDur = Greatest(stats.maxDur, d)
  PROVE  DurationsMeasured'
<1>1. /\ stats.minDur \in Int /\ stats.maxDur \in Int
      /\ n = 0 => stats.minDur = Infinity
      /\ \A i \in 1..n : stats.minDur <= Duration(i) /\ Duration(i) <= stats.maxDur
      /\ n > 0 => \E i \in 1..n : Duration(i) = stats.minDur
  BY Zenon DEF DurationsMeasured
<1>2. n > 0 => stats.minDur \in Nat
  BY <1>1, Zenon
<1>3. /\ stats'.minDur \in Int /\ stats'.maxDur \in Int
      /\ stats'.minDur <= d /\ d <= stats'.maxDur
      /\ n > 0 => stats'.minDur <= stats.minDur
      /\ stats.maxDur <= stats'.maxDur
      /\ stats'.minDur = d \/ (n > 0 /\ stats'.minDur = stats.minDur)
  BY <1>1, <1>2 DEF Least, Greatest, Infinity
<1> HIDE DEF n
<1>4. ASSUME NEW i \in 1..n'
      PROVE  stats'.minDur <= Duration(i)' /\ Duration(i)' <= stats'.maxDur
  <2>1. CASE i = n + 1
    BY <1>3, <2>1, Zenon
  <2>2. CASE i \in 1..n
    <3>1. /\ n > 0 /\ stats.minDur <= Duration(i) /\ Duration(i) <= stats.maxDur
          /\ Duration(i) \in Nat /\ Duration(i)' = Duration(i)
      BY <1>1, <2>2
    <3> HIDE DEF Duration
    <3> QED
      BY <1>1, <1>3, <3>1
  <2> QED
    BY <2>1, <2>2
<1>5. \E i \in 1..n' : Duration(i)' = stats'.minDur
  <2>1. CASE stats'.minDur = d
    <3>1. PICK k : k = n + 1
      BY Zenon
    <3>2. k \in 1..n' /\ Duration(k)' = d
      BY <3>1
    <3> QED
      BY <2>1, <3>2, ZenonT(60)
  <2>2. CASE n > 0 /\ stats'.minDur = stats.minDur
    <3>1. PICK i \in 1..n : Duration(i) = stats.minDur
      BY <1>1, <2>2, Zenon
    <3>2. i \in 1..n' /\ Duration(i)' = Duration(i)
      BY <3>1
    <3> QED
      BY <2>2, <3>1, <3>2, ZenonT(60)
  <2> QED
    BY <1>3, <2>1, <2>2, Zenon
<1>6. n' # 0
  OBVIOUS
<1> QED
  BY <1>3, <1>4, <1>5, <1>6, ZenonT(60) DEF DurationsMeasured

\* A gap measured: the least and the greatest are those of one gap more.
LEMMA GapsGrow ==
  ASSUME n \in Nat, n' = n + 1, GapsMeasured,
         \A i \in 2..n : Gap(i) \in Nat /\ Gap(i)' = Gap(i),
         NEW g, n > 0 => g \in Nat, n > 0 => \A k : k = n + 1 => Gap(k)' = g,
         stats'.minGap = IF n = 0 THEN stats.minGap ELSE Least(stats.minGap, g),
         stats'.maxGap = IF n = 0 THEN stats.maxGap ELSE Greatest(stats.maxGap, g)
  PROVE  GapsMeasured'
<1>1. /\ stats.minGap \in Int /\ stats.maxGap \in Nat
      /\ n <= 1 => stats.minGap = Infinity
      /\ \A i \in 2..n : stats.minGap <= Gap(i) /\ Gap(i) <= stats.maxGap
      /\ n > 1 => \E i \in 2..n : Gap(i) = stats.minGap
      /\ stats.maxGap = 0 \/ \E i \in 2..n : Gap(i) = stats.maxGap
  BY Zenon DEF GapsMeasured
<1> HIDE DEF n
<1>2. CASE n = 0
  <2>1. n' <= 1 /\ ~(n' > 1) /\ 2..n' = {} /\ 2..n = {}
    BY <1>2
  <2>2. stats'.minGap = stats.minGap /\ stats'.maxGap = stats.maxGap /\ n <= 1
    BY <1>2
  <2>3. stats'.maxGap = 0
    BY <1>1, <2>1, <2>2, Zenon
  <2> QED
    BY <1>1, <2>1, <2>2, <2>3, Zenon DEF GapsMeasured
<1>3. CASE n > 0
  <2>1. n > 1 => stats.minGap \in Nat
    BY <1>1, Zenon
  <2>2. /\ g \in Nat
        /\ stats'.minGap = Least(stats.minGap, g) /\ stats'.maxGap = Greatest(stats.maxGap, g)
    BY <1>3
  <2>3. /\ stats'.minGap \in Int /\ stats'.maxGap \in Nat
        /\ stats'.minGap <= g /\ g <= stats'.maxGap
        /\ n > 1 => stats'.minGap <= stats.minGap
        /\ stats.maxGap <= stats'.maxGap
        /\ stats'.minGap = g \/ (n > 1 /\ stats'.minGap = stats.minGap)
        /\ stats'.maxGap = g \/ stats'.maxGap = stats.maxGap
    BY <1>1, <1>3, <2>1, <2>2 DEF Least, Greatest, Infinity
  <2>4. ASSUME NEW i \in 2..n'
        PROVE  stats'.minGap <= Gap(i)' /\ Gap(i)' <= stats'.maxGap
    <3>1. CASE i = n + 1
      BY <1>3, <2>3, <3>1, Zenon
    <3>2. CASE i \in 2..n
      <4>1. /\ n > 1 /\ stats.minGap <= Gap(i) /\ Gap(i) <= stats.maxGap
            /\ Gap(i) \in Nat /\ Gap(i)' = Gap(i)
        BY <1>1, <3>2
      <4> HIDE DEF Gap
      <4> QED
        BY <1>1, <2>3, <4>1
    <3> QED
      BY <3>1, <3>2
  <2>5. PICK k : k = n + 1
    BY Zenon
  <2>6. k \in 2..n' /\ Gap(k)' = g
    BY <1>3, <2>5
  <2>7. \A i \in 2..n : i \in 2..n' /\ Gap(i)' = Gap(i)
    BY <1>3
  <2>8. \E i \in 2..n' : Gap(i)' = stats'.minGap
    BY <1>1, <2>3, <2>6, <2>7, ZenonT(60)
  <2>9. stats'.maxGap = 0 \/ \E i \in 2..n' : Gap(i)' = stats'.maxGap
    BY <1>1, <2>3, <2>6, <2>7, ZenonT(60)
  <2>10. ~(n' <= 1)
    BY <1>3
  <2> QED
    BY <2>3, <2>4, <2>8, <2>9, <2>10, ZenonT(60) DEF GapsMeasured
<1> QED
  BY <1>2, <1>3

\* The cue stored is one more valid cue, with its duration and its gap.
LEMMA StatsGrow ==
  ASSUME ParserInv, StatsInv, StoreCue
  PROVE  StatsInv'
<1> DEFINE p == TimesAt(pos)
           e == CueAt(p)
           d == e.end - e.start
           g == e.start - entries[n].end
           h == Headed(pos)
           m == Measured(h, e, Overlaps(p))
<1>1. /\ ReadText /\ entries' = Append(entries, e) /\ stats' = Stats(m)
      /\ UNCHANGED faults
  BY Zenon DEF StoreCue
<1>2. UNCHANGED <<file, mode>> /\ p \in 1..Len(file) /\ Accepted(p)
  BY <1>1, TextTurn, Zenon
<1>3. DOMAIN stats = DOMAIN NoStats
  BY Zenon DEF StatsInv
<1>4. /\ DOMAIN h = DOMAIN NoStats /\ SameMeasures(h, stats)
      /\ h.total = stats.total + 1 /\ h.skipped = stats.skipped
  BY <1>3, HeaderCounts, Zenon
<1>5. Overlaps(p) \in BOOLEAN
  BY Zenon DEF Overlaps
<1>6. /\ n \in Nat /\ n' = n + 1
      /\ \A i \in 1..n : Duration(i) \in Nat /\ Duration(i)' = Duration(i)
      /\ \A i \in 2..n : Gap(i) \in Nat /\ Gap(i)' = Gap(i)
      /\ \A k : k = n + 1 => /\ Duration(k)' \in Nat /\ Duration(k)' = d
                             /\ n > 0 => Gap(k)' \in Nat /\ Gap(k)' = g
  BY <1>1, <1>2, OneMore, Zenon
<1> HIDE DEF h, e, p
<1>7. /\ DOMAIN m = DOMAIN NoStats
      /\ m.total = h.total /\ m.skipped = h.skipped /\ m.valid = h.valid + 1
      /\ m.minDur = Least(h.minDur, d) /\ m.maxDur = Greatest(h.maxDur, d)
      /\ m.minGap = (IF n = 0 THEN h.minGap ELSE Least(h.minGap, g))
      /\ m.maxGap = (IF n = 0 THEN h.maxGap ELSE Greatest(h.maxGap, g))
  BY <1>4, <1>5, MeasureCounts
<1> HIDE DEF m, d, g, n
<1>8. DOMAIN stats' = DOMAIN NoStats
  BY <1>1, <1>3, <1>7, Zenon DEF Stats
<1>9. ASSUME mode' = "stats", faults' \subseteq {"norm"}
      PROVE  /\ stats'.total \in Nat /\ stats'.valid \in Nat /\ stats'.skipped \in Nat
             /\ stats'.total = stats'.valid + stats'.skipped
             /\ stats'.valid = n'
             /\ DurationsMeasured' /\ GapsMeasured'
  <2>1. /\ stats.total \in Nat /\ stats.valid \in Nat /\ stats.skipped \in Nat
        /\ stats.total = stats.valid + stats.skipped
        /\ stats.valid = n
        /\ DurationsMeasured /\ GapsMeasured
    BY <1>1, <1>2, <1>9, Zenon DEF StatsInv
  <2>2. stats' = m
    BY <1>1, <1>2, <1>9, Zenon DEF Stats
  <2>3. /\ stats'.total = stats.total + 1 /\ stats'.skipped = stats.skipped
        /\ stats'.valid = stats.valid + 1
        /\ stats'.minDur = Least(stats.minDur, d) /\ stats'.maxDur = Greatest(stats.maxDur, d)
        /\ stats'.minGap = (IF n = 0 THEN stats.minGap ELSE Least(stats.minGap, g))
        /\ stats'.maxGap = (IF n = 0 THEN stats.maxGap ELSE Greatest(stats.maxGap, g))
    BY <1>4, <1>7, <2>2, ZenonT(60) DEF SameMeasures
  <2>4. d \in Nat /\ (n > 0 => g \in Nat)
    BY <1>6, Zenon
  <2>5. DurationsMeasured'
    BY <1>6, <2>1, <2>3, <2>4, DurationsGrow, ZenonT(60)
  <2>6. GapsMeasured'
    BY <1>6, <2>1, <2>3, <2>4, GapsGrow, ZenonT(60)
  <2> QED
    BY <1>6, <2>1, <2>3, <2>5, <2>6
<1> QED
  BY <1>8, <1>9, ZenonT(60) DEF StatsInv

\* Every turn of the parsers keeps the statistics true to the cues.
LEMMA StatsSteps == ParserInv /\ StatsInv /\ [Next]_vars => StatsInv'
<1> SUFFICES ASSUME ParserInv, StatsInv, [Next]_vars
             PROVE  StatsInv'
  BY Zenon
<1>0. DOMAIN stats = DOMAIN NoStats
  BY Zenon DEF StatsInv
<1> DEFINE h == Headed(pos)
<1>1. /\ DOMAIN Indexed(pos) = DOMAIN NoStats /\ SameMeasures(Indexed(pos), stats)
      /\ Indexed(pos).total = stats.total /\ Indexed(pos).skipped = stats.skipped
      /\ DOMAIN h = DOMAIN NoStats /\ SameMeasures(h, stats)
      /\ h.total = stats.total + 1 /\ h.skipped = stats.skipped
  BY <1>0, HeaderCounts, Zenon
<1>2. /\ DOMAIN Skipped(h) = DOMAIN NoStats /\ SameMeasures(Skipped(h), stats)
      /\ Skipped(h).total = stats.total + 1 /\ Skipped(h).skipped = stats.skipped + 1
      /\ DOMAIN Warned(h) = DOMAIN NoStats /\ SameMeasures(Warned(h), stats)
      /\ Warned(h).total = stats.total + 1 /\ Warned(h).skipped = stats.skipped + 1
  <2> HIDE DEF h
  <2> QED
    BY <1>1, SkipCounts, ZenonT(60) DEF SameMeasures
<1> HIDE DEF h
<1>3. SameMeasures(stats, stats)
  BY Zenon DEF SameMeasures
<1>4. ASSUME ~(mode' = "stats" /\ faults' \subseteq {"norm"}), DOMAIN stats' = DOMAIN NoStats
      PROVE  StatsInv'
  BY <1>4, Zenon DEF StatsInv
<1>5. CASE Open
  <2>1. UNCHANGED <<mode, entries, stats>> /\ faults \subseteq faults'
    BY <1>5, Zenon DEF Open
  <2> QED
    BY <1>0, <1>3, <2>1, StatsKept, Zenon
<1>6. CASE SkipBlank \/ EndOfFile \/ UNCHANGED vars
  <2>1. UNCHANGED <<mode, entries, stats>> /\ faults \subseteq faults'
    BY <1>6, Zenon DEF SkipBlank, EndOfFile, Quiet, vars
  <2> QED
    BY <1>0, <1>3, <2>1, StatsKept, Zenon
<1>7. CASE IndexAtEnd
  <2>1. UNCHANGED <<mode, entries>> /\ faults \subseteq faults' /\ stats' \in {stats, Indexed(pos)}
    BY <1>7, Zenon DEF IndexAtEnd, Quiet, Stats
  <2> QED
    BY <1>0, <1>1, <1>3, <2>1, StatsKept, Zenon
<1>8. CASE RejectCue
  <2>1. UNCHANGED <<mode, entries>> /\ faults \subseteq faults' /\ stats' \in {stats, Skipped(h), Warned(h)}
    BY <1>8, Zenon DEF RejectCue, Header, Quiet, Stats, h
  <2> QED
    BY <1>0, <1>2, <1>3, <2>1, StatsKept, Zenon
<1>9. CASE EmptyCue
  <2>1. UNCHANGED <<mode, entries>> /\ faults \subseteq faults' /\ stats' = Warned(h)
    BY <1>9, Zenon DEF EmptyCue, ReadText, Header, Quiet, h
  <2> QED
    BY <1>0, <1>2, <2>1, StatsKept, Zenon
<1>10. CASE GrowFails
  <2>1. ~(faults' \subseteq {"norm"}) /\ stats' \in {stats, h}
    BY <1>10, Zenon DEF GrowFails, Stats, h
  <2> QED
    BY <1>0, <1>1, <1>4, <2>1, Zenon
<1>11. CASE NormFails \/ StripFails
  <2>1. ReadText /\ mode = "plain" /\ stats' = stats
    <3>1. CASE NormFails
      BY <3>1, Zenon DEF NormFails
    <3>2. CASE StripFails
      BY <3>2, Zenon DEF StripFails
    <3> QED
      BY <1>11, <3>1, <3>2, Zenon
  <2>2. mode' # "stats"
    BY <2>1, TextTurn
  <2> QED
    BY <1>0, <1>4, <2>1, <2>2, Zenon
<1>12. CASE NormSkips
  <2>1. ReadText /\ UNCHANGED entries /\ faults \subseteq faults' /\ stats' = Skipped(h)
    BY <1>12, Zenon DEF NormSkips, h
  <2>2. UNCHANGED mode
    BY <2>1, TextTurn, Zenon
  <2> QED
    BY <1>2, <2>1, <2>2, StatsKept, Zenon
<1>13. CASE StripSkips
  <2> DEFINE p == TimesAt(pos)
             m == Measured(h, CueAt(p), Overlaps(p))
  <2>1. ~(faults' \subseteq {"norm"}) /\ stats' = Skipped(m)
    BY <1>13, Zenon DEF StripSkips, h
  <2>2. Overlaps(p) \in BOOLEAN
    BY Zenon DEF Overlaps
  <2>3. DOMAIN m = DOMAIN NoStats
    BY <1>1, <2>2, MeasureCounts
  <2> HIDE DEF m
  <2>4. DOMAIN Skipped(m) = DOMAIN NoStats
    BY <2>3, SkipCounts, Zenon
  <2> QED
    BY <1>4, <2>1, <2>4, Zenon
<1>14. CASE StoreCue
  BY <1>14, StatsGrow, Zenon
<1> QED
  BY <1>5, <1>6, <1>7, <1>8, <1>9, <1>10, <1>11, <1>12, <1>13, <1>14, Zenon DEF Next, Returned

\* A cue without a duration is one error more, any other cue none.
LEMMA ErrorsCounted ==
  ASSUME ParserInv, QcInv, StoreCue
  PROVE  QcInv'
<1> DEFINE p == TimesAt(pos)
           e == CueAt(p)
<1>1. /\ ReadText /\ entries' = Append(entries, e)
      /\ errors' = IF "ERROR" \in QcChecks(e) THEN errors + 1 ELSE errors
      /\ UNCHANGED pc
  BY Zenon DEF StoreCue
<1>2. UNCHANGED <<file, mode>> /\ p \in 1..Len(file) /\ Accepted(p)
  BY <1>1, TextTurn, Zenon
<1>3. /\ e.start \in Int /\ e.end \in Int /\ e.start <= e.end
      /\ n > 0 => entries[n].end <= e.start
  BY <1>2, Repaired, Zenon
<1>4. /\ n \in Nat /\ n' = n + 1
      /\ \A i \in 1..n : entries'[i] = entries[i]
      /\ entries'[n + 1] = e
  BY <1>1, <1>2, OneMore, Zenon
<1>5. n > 0 => entries[n].end \in Int
  BY <1>4 DEF ParserInv, CuesTyped
<1> HIDE DEF e, n
<1>6. "ERROR" \in QcChecks(e) <=> e.start = e.end
  BY <1>3 DEF QcChecks
<1>7. ASSUME pc # "failed"
      PROVE  errors' = Cardinality(Timeless')
  <2>1. errors = Cardinality(Timeless)
    BY <1>7, Zenon DEF QcInv
  <2>2. IsFiniteSet(Timeless) /\ Cardinality(Timeless) \in Nat
    <3>1. IsFiniteSet(1..n)
      BY <1>4, FS_Interval
    <3>2. IsFiniteSet(Timeless)
      BY <3>1, FS_Subset, Zenon DEF Timeless
    <3> QED
      BY <3>2, FS_CardinalityType, Zenon
  <2>3. n + 1 \notin Timeless
    BY <1>4 DEF Timeless
  <2>4. CASE e.start = e.end
    <3>1. Timeless' = Timeless \cup {n + 1}
      BY <1>4, <2>4 DEF Timeless
    <3>2. Cardinality(Timeless \cup {n + 1}) = Cardinality(Timeless) + 1
      BY <2>2, <2>3, FS_AddElement, Zenon
    <3> QED
      BY <1>1, <1>6, <2>1, <2>4, <3>1, <3>2
  <2>5. CASE e.start # e.end
    <3>1. Timeless' = Timeless
      BY <1>4, <2>5 DEF Timeless
    <3> QED
      BY <1>1, <1>6, <2>1, <2>5, <3>1, Zenon
  <2> QED
    BY <2>4, <2>5, Zenon
<1> QED
  BY <1>1, <1>7, Zenon DEF QcInv

\* Every turn of the parsers keeps what qc_check_entry counts.
LEMMA QcSteps == ParserInv /\ QcInv /\ [Next]_vars => QcInv'
<1> SUFFICES ASSUME ParserInv, QcInv, [Next]_vars
             PROVE  QcInv'
  BY Zenon
<1>1. CASE StoreCue
  BY <1>1, ErrorsCounted, Zenon
<1>2. ASSUME UNCHANGED <<errors, entries>>, pc' = "failed" \/ pc # "failed" \/ pc' = pc
      PROVE  QcInv'
  <2>1. Timeless' = Timeless
    BY <1>2, Zenon DEF Timeless, n
  <2> QED
    BY <1>2, <2>1, Zenon DEF QcInv
<1>3. CASE \/ Open \/ SkipBlank \/ IndexAtEnd \/ RejectCue \/ EndOfFile
  <2>1. UNCHANGED <<errors, entries>> /\ pc # "failed"
    BY <1>3, Zenon DEF Open, SkipBlank, IndexAtEnd, RejectCue, EndOfFile, Header, Reading, Quiet
  <2> QED
    BY <1>2, <2>1, Zenon
<1>4. CASE EmptyCue \/ NormSkips \/ StripSkips
  <2>1. UNCHANGED <<errors, entries>> /\ ReadText
    <3>1. CASE EmptyCue
      BY <3>1, Zenon DEF EmptyCue, Quiet
    <3>2. CASE NormSkips
      BY <3>2, Zenon DEF NormSkips
    <3>3. CASE StripSkips
      BY <3>3, Zenon DEF StripSkips
    <3> QED
      BY <1>4, <3>1, <3>2, <3>3, Zenon
  <2>2. pc # "failed"
    BY <2>1, TextTurn, Zenon
  <2> QED
    BY <1>2, <2>1, <2>2, Zenon
<1>5. CASE GrowFails \/ NormFails \/ StripFails
  <2>1. pc' = "failed"
    <3>1. CASE GrowFails
      BY <3>1, Zenon DEF GrowFails
    <3>2. CASE NormFails
      BY <3>2, Zenon DEF NormFails
    <3>3. CASE StripFails
      BY <3>3, Zenon DEF StripFails
    <3> QED
      BY <1>5, <3>1, <3>2, <3>3, Zenon
  <2> QED
    BY <2>1, Zenon DEF QcInv
<1>6. CASE UNCHANGED vars
  <2>1. UNCHANGED <<errors, entries, pc>>
    BY <1>6, Zenon DEF vars
  <2> QED
    BY <1>2, <2>1, Zenon
<1> QED
  BY <1>1, <1>3, <1>4, <1>5, <1>6, Zenon DEF Next, Returned

\* CHOOSE finds the least element of a set of numbers.
LEMMA TheLeast ==
  ASSUME NEW S, S \subseteq Nat, NEW m \in S, \A h \in S : m <= h
  PROVE  (CHOOSE g \in S : \A h \in S : g <= h) = m
<1>1. ASSUME NEW g \in S, \A h \in S : g <= h
      PROVE  g = m
  <2>1. g <= m /\ m <= g /\ g \in Nat /\ m \in Nat
    BY <1>1, Zenon
  <2> QED
    BY <2>1
<1> QED
  BY <1>1, ZenonT(60)

\* CHOOSE finds the greatest element of a set of numbers.
LEMMA TheGreatest ==
  ASSUME NEW S, S \subseteq Nat, NEW m \in S, \A h \in S : m >= h
  PROVE  (CHOOSE g \in S : \A h \in S : g >= h) = m
<1>1. ASSUME NEW g \in S, \A h \in S : g >= h
      PROVE  g = m
  <2>1. g >= m /\ m >= g /\ g \in Nat /\ m \in Nat
    BY <1>1, Zenon
  <2> QED
    BY <2>1
<1> QED
  BY <1>1, ZenonT(60)

\* srt_analyze_gaps finds the gaps that were measured while the file was read.
LEMMA GapsAnalysed ==
  ASSUME n \in Nat, n > 1, GapsMeasured, \A i \in 2..n : Gap(i) \in Nat
  PROVE  /\ stats.minGap = GapAnalysis.min /\ stats.maxGap = GapAnalysis.max
         /\ GapAnalysis.min >= 0
<1> DEFINE gaps == {Gap(i) : i \in 2..n}
           all == gaps \cup {0}
<1>1. /\ GapAnalysis.min = CHOOSE g \in gaps : \A h \in gaps : g <= h
      /\ GapAnalysis.max = CHOOSE g \in all : \A h \in all : g >= h
  BY Zenon DEF GapAnalysis, Gap
<1>2. gaps \subseteq Nat /\ all \subseteq Nat
  OBVIOUS
<1>3. stats.minGap \in gaps /\ \A h \in gaps : stats.minGap <= h
  BY Zenon DEF GapsMeasured
<1>4. stats.maxGap \in all /\ \A h \in all : stats.maxGap >= h
  BY DEF GapsMeasured
<1> HIDE DEF gaps, all
<1>5. GapAnalysis.min = stats.minGap
  BY <1>1, <1>2, <1>3, TheLeast, ZenonT(60)
<1>6. GapAnalysis.max = stats.maxGap
  BY <1>1, <1>2, <1>4, TheGreatest, ZenonT(60)
<1>7. stats.minGap \in Nat
  BY <1>2, <1>3, Zenon
<1> QED
  BY <1>5, <1>6, <1>7

\* The statistics that --qc-only prints and the errors it counts describe exactly the
\* cues stored, for every file, unless the array could not grow or a text could not be
\* stripped.
THEOREM ParserAccounting == Spec => []Accounting
<1>1. Init => StatsInv /\ QcInv
  <2> SUFFICES ASSUME Init
               PROVE  StatsInv /\ QcInv
    BY Zenon
  <2>1. n = 0 /\ stats = NoStats
    BY Zenon DEF Init, n
  <2>2. DurationsMeasured /\ GapsMeasured
    BY <2>1 DEF DurationsMeasured, GapsMeasured, NoStats, Infinity
  <2>3. StatsInv
    BY <2>1, <2>2 DEF StatsInv, NoStats
  <2>4. Cardinality(Timeless) = 0
    <3>1. Timeless = {}
      BY <2>1 DEF Timeless
    <3> QED
      BY <3>1, FS_EmptySet, Zenon
  <2> QED
    BY <2>3, <2>4, Zenon DEF QcInv, Init
<1>2. ParserInv /\ StatsInv /\ QcInv => Accounting
  <2> SUFFICES ASSUME ParserInv, StatsInv, QcInv
               PROVE  Accounting
    BY Zenon
  <2>1. /\ n \in Nat
        /\ \A i \in 1..n : entries[i].start \in Int /\ entries[i].end \in Int
    BY DEF ParserInv, CuesTyped, n
  <2>2. Ordered
    BY Zenon DEF ParserInv, RepairSound
  <2> HIDE DEF n
  <2>3. ASSUME NEW i \in 2..n
        PROVE  Gap(i) \in Nat
    <3>1. i \in 1..n /\ i - 1 \in 1..n /\ i - 1 < i
      BY <2>1
    <3>2. entries[i - 1].end <= entries[i].start
      BY <2>2, <3>1, Zenon DEF Ordered
    <3> QED
      BY <2>1, <3>1, <3>2 DEF Gap
  <2>4. ASSUME mode = "stats", faults \subseteq {"norm"}
        PROVE  /\ stats.total = stats.valid + stats.skipped
               /\ stats.valid = n
               /\ n > 0 => /\ \A i \in 1..n : entries[i].end - entries[i].start
                                                \in stats.minDur..stats.maxDur
                           /\ \E i \in 1..n : entries[i].end - entries[i].start = stats.minDur
               /\ n > 1 => /\ stats.minGap = GapAnalysis.min /\ stats.maxGap = GapAnalysis.max
                           /\ GapAnalysis.min >= 0
    <3>1. /\ stats.total = stats.valid + stats.skipped /\ stats.valid = n
          /\ DurationsMeasured /\ GapsMeasured
      BY <2>4, Zenon DEF StatsInv
    <3>2. ASSUME NEW i \in 1..n
          PROVE  entries[i].end - entries[i].start \in stats.minDur..stats.maxDur
      BY <2>1, <3>1 DEF DurationsMeasured, Duration
    <3>3. n > 0 => \E i \in 1..n : entries[i].end - entries[i].start = stats.minDur
      BY <3>1, Zenon DEF DurationsMeasured, Duration
    <3>4. n > 1 => /\ stats.minGap = GapAnalysis.min /\ stats.maxGap = GapAnalysis.max
                   /\ GapAnalysis.min >= 0
      BY <2>1, <2>3, <3>1, GapsAnalysed, Zenon
    <3> QED
      BY <3>1, <3>2, <3>3, <3>4, Zenon
  <2> QED
    BY <2>4, ZenonT(60) DEF Accounting, QcInv, Timeless
<1> QED
  BY <1>1, <1>2, StatsSteps, QcSteps, ParserInvariant, PTL DEF Spec

=============================================================================
