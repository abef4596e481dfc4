----------------------------- MODULE EncodeRun_proofs -----------------------------
(***************************************************************************)
(* Proofs about one call of srt2dvbsub_run_cli, for all options, inputs    *)
(* and failing calls.  First TrackSetup by itself: no two output streams   *)
(* get the same PID, and the tracks own the streams they replace.  Then    *)
(* the run around it: what cli_parse reads has its types, a run uses       *)
(* TrackSetup as TrackSetup is specified, releases what it took, and       *)
(* returns a code that tells what became of its work.                      *)
(*                                                                         *)
(* OptionsInv types the options.  LinkInv says how the phase of a run, the *)
(* stage of its context and what is held go together, WorkInv how far the  *)
(* output file is.  BatchEncode_proofs shows that they hold in every run   *)
(* of the program.                                                         *)
(***************************************************************************)
EXTENDS EncodeRun, SequenceTheorems, WellFoundedInduction, TLAPS

USE CommandLineAssumption

-----------------------------------------------------------------------------
(* Sequences over their own elements.                                      *)

\* A nonempty set of natural numbers has a least element.
LEMMA Smallest ==
  ASSUME NEW T, T \subseteq Nat, T # {}
  PROVE  \E x \in T : \A y \in T : x <= y
<1> DEFINE R == OpToRel(<, Nat)
<1>1. IsWellFoundedOn(R, Nat)
  BY NatLessThanWellFounded, ZenonT(60)
<1>2. \A x \in Nat, y \in Nat : y < x => <<y, x>> \in R
  BY Zenon DEF OpToRel
<1> HIDE DEF R
<1>3. PICK x \in T : \A y \in T : ~(<<y, x>> \in R)
  BY <1>1, WFMin, ZenonT(60)
<1>4. ASSUME NEW y \in T
      PROVE  x <= y
  <2>1. x \in Nat /\ y \in Nat /\ ~(y < x)
    BY <1>2, <1>3, ZenonT(60)
  <2> QED
    BY <2>1
<1> QED
  BY <1>4, Zenon

\* Such a sequence has the indices 1 to its length.
LEMMA OwnDomain ==
  ASSUME NEW s, OverOwn(s)
  PROVE  Len(s) \in Nat /\ DOMAIN s = 1..Len(s)
<1> DEFINE S == {s[i] : i \in DOMAIN s}
<1>1. s \in Seq(S)
  BY Zenon DEF OverOwn
<1> HIDE DEF S
<1> QED
  BY <1>1, LenProperties, Zenon

\* A function on 1..n is a sequence of length n over its own elements.
LEMMA OwnFunction ==
  ASSUME NEW n \in Nat, NEW b, DOMAIN b = 1..n, b = [i \in 1..n |-> b[i]]
  PROVE  OverOwn(b) /\ Len(b) = n
<1>1. b \in Seq({b[i] : i \in DOMAIN b})
  BY IsASeq
<1>2. Len(b) \in Nat /\ DOMAIN b = 1..Len(b)
  BY <1>1, OwnDomain, Zenon DEF OverOwn
<1> QED
  BY <1>1, <1>2 DEF OverOwn

\* Appending keeps all elements and adds one at the end.
LEMMA OwnAppend ==
  ASSUME NEW s, OverOwn(s), NEW e
  PROVE  LET a == Append(s, e)
         IN  /\ OverOwn(a)
             /\ Len(a) = Len(s) + 1
             /\ DOMAIN a = 1..(Len(s) + 1)
             /\ \A i \in 1..Len(s) : a[i] = s[i]
             /\ a[Len(s) + 1] = e
<1> DEFINE S == {s[i] : i \in DOMAIN s}
           a == Append(s, e)
<1>1. s \in Seq(S)
  BY Zenon DEF OverOwn
<1> HIDE DEF S
<1>2. s \in Seq(S \cup {e})
  BY <1>1, SeqMonotonic, Zenon
<1>3. /\ a \in Seq(S \cup {e})
      /\ Len(a) = Len(s) + 1
      /\ \A i \in 1..Len(s) : a[i] = s[i]
      /\ a[Len(s) + 1] = e
  BY <1>2, AppendProperties
<1> HIDE DEF a
<1>4. Len(a) \in Nat /\ DOMAIN a = 1..Len(a) /\ a = [i \in 1..Len(a) |-> a[i]]
  BY <1>3, LenProperties, Zenon
<1>5. OverOwn(a)
  BY <1>4, OwnFunction, Zenon
<1> QED
  BY <1>3, <1>4, <1>5, Zenon DEF a

\* Replacing one element keeps the length and the others.
LEMMA OwnExcept ==
  ASSUME NEW s, OverOwn(s), NEW k \in DOMAIN s, NEW e
  PROVE  LET b == [s EXCEPT ![k] = e]
         IN  /\ OverOwn(b) /\ Len(b) = Len(s) /\ DOMAIN b = DOMAIN s
             /\ b[k] = e
             /\ \A i \in DOMAIN s : i # k => b[i] = s[i]
<1> DEFINE b == [s EXCEPT ![k] = e]
<1>1. Len(s) \in Nat /\ DOMAIN s = 1..Len(s)
  BY OwnDomain, Zenon
<1>2. /\ DOMAIN b = DOMAIN s /\ b = [i \in DOMAIN s |-> b[i]]
      /\ b[k] = e
      /\ \A i \in DOMAIN s : i # k => b[i] = s[i]
  BY Zenon
<1> HIDE DEF b
<1>3. OverOwn(b) /\ Len(b) = Len(s)
  BY <1>1, <1>2, OwnFunction, Zenon
<1> QED
  BY <1>2, <1>3, Zenon DEF b

\* The empty sequence is one of them.
LEMMA OwnEmpty == OverOwn(<<>>) /\ Len(<<>>) = 0 /\ DOMAIN <<>> = {}
  BY EmptySeq DEF OverOwn

-----------------------------------------------------------------------------
(* Beginnings and ends.                                                    *)

\* A run that has no streams and no tracks, at its beginning or at its end.
LEMMA Emptied ==
  ASSUME input' \in Inputs, opt' \in Settings, max_pid' \in Nat,
         outs' = <<>>, targets' = <<>>, tracks' = <<>>,
         \/ stage' \in {"idle", "failed"}
         \/ stage' = "open" /\ ~opt'.preview
         \/ stage' = "lists" /\ opt'.preview
  PROVE  SetupInv'
<1>1. DOMAIN outs' = {} /\ DOMAIN targets' = {} /\ DOMAIN tracks' = {}
  BY OwnEmpty, Zenon
<1>2. SetupTypes'
  BY <1>1, OwnEmpty, Zenon DEF SetupTypes, Stages
<1>3. StreamsMirrored'
  BY Zenon DEF StreamsMirrored
<1>4. TargetsSound' /\ TracksPlaced'
  BY <1>1, Zenon DEF TargetsSound, TracksPlaced
<1>5. PidsGiven' /\ PidsFinal' /\ DistinctPids'
  BY <1>1, Zenon DEF PidsGiven, PidsFinal, DistinctPids
<1> QED
  BY <1>2, <1>3, <1>4, <1>5, Zenon DEF SetupInv

\* A stage that fails, and the end of a run.
LEMMA FailStep ==
  ASSUME SetupInv, NEW h, NEW k, NEW code, Fail(h, k, code)
  PROVE  SetupInv'
  BY Emptied, Zenon DEF Fail, SetupInv, SetupTypes

\* main starts without streams, targets and tracks.
LEMMA SetupStarts == Init => SetupInv
<1> SUFFICES ASSUME Init
             PROVE  SetupInv
  BY Zenon
<1>1. DOMAIN outs = {} /\ DOMAIN targets = {} /\ DOMAIN tracks = {}
  BY OwnEmpty, Zenon DEF Init
<1>2. NoInput \in Inputs
  BY EmptySeq, OwnEmpty, Zenon DEF NoInput, Inputs
<1>3. NoOptions \in Settings
  BY EmptySeq, Zenon DEF NoOptions, Settings
<1>4. SetupTypes
  BY <1>1, <1>2, <1>3, OwnEmpty, Zenon DEF Init, SetupTypes, Stages
<1>5. StreamsMirrored
  BY Zenon DEF Init, StreamsMirrored
<1>6. TargetsSound /\ TracksPlaced
  BY <1>1, Zenon DEF TargetsSound, TracksPlaced
<1>7. PidsGiven /\ PidsFinal /\ DistinctPids
  BY <1>1, Zenon DEF PidsGiven, PidsFinal, DistinctPids
<1> QED
  BY <1>4, <1>5, <1>6, <1>7, Zenon DEF SetupInv

\* ctx_init opens input and output before any stream is mirrored.
LEMMA OpenStep ==
  ASSUME SetupInv, OpenInput
  PROVE  SetupInv'
<1>1. /\ stage = "open" /\ stage' = "mirror" /\ max_pid' \in Nat
      /\ UNCHANGED <<input, opt, outs, targets, tracks>>
  BY DEF OpenInput, SetupInv, SetupTypes
<1>2. outs = <<>> /\ tracks = <<>> /\ DOMAIN outs = {} /\ DOMAIN tracks = {}
  BY <1>1, OwnEmpty, Zenon DEF SetupInv, StreamsMirrored
<1>3. DOMAIN targets = {}
  BY <1>2, ZenonT(60) DEF SetupInv, TargetsSound
<1>4. SetupTypes'
  BY <1>1, <1>2, Zenon DEF SetupInv, SetupTypes, Stages
<1>5. StreamsMirrored'
  <2>1. Len(input.streams) \in Nat /\ Len(outs) = 0
    BY <1>2, OwnEmpty DEF SetupInv, SetupTypes, Inputs
  <2> QED
    BY <1>1, <1>2, <2>1 DEF SetupInv, StreamsMirrored
<1>6. TargetsSound' /\ TracksPlaced'
  BY <1>1, <1>2, <1>3, Zenon DEF TargetsSound, TracksPlaced
<1>7. PidsGiven' /\ PidsFinal' /\ DistinctPids'
  BY <1>1, <1>2, <1>3, Zenon DEF PidsGiven, PidsFinal, DistinctPids
<1> QED
  BY <1>4, <1>5, <1>6, <1>7, Zenon DEF SetupInv
-----------------------------------------------------------------------------
(* Mirroring.                                                              *)

\* The streams of the input, with PIDs of their own.
LEMMA InputStreams ==
  ASSUME SetupInv
  PROVE  /\ Len(input.streams) \in Nat /\ DOMAIN input.streams = 1..Len(input.streams)
         /\ \A i \in DOMAIN input.streams : input.streams[i].pid \in Nat
         /\ \A i, j \in DOMAIN input.streams :
              i # j => input.streams[i].pid # input.streams[j].pid
<1>1. input.streams \in Seq(Stream)
  BY Zenon DEF SetupInv, SetupTypes, Inputs
<1>2. \A i, j \in DOMAIN input.streams : i # j => input.streams[i].pid # input.streams[j].pid
  BY Zenon DEF SetupInv, SetupTypes, Inputs
<1>3. Len(input.streams) \in Nat /\ DOMAIN input.streams = 1..Len(input.streams)
  BY <1>1, LenProperties, Zenon
<1>4. ASSUME NEW i \in DOMAIN input.streams
      PROVE  input.streams[i].pid \in Nat
  <2>1. input.streams[i] \in Stream
    BY <1>1, <1>3, ElementOfSeq, Zenon
  <2> QED
    BY <2>1, Zenon DEF Stream
<1> QED
  BY <1>2, <1>3, <1>4, Zenon

\* Mirroring one more stream gives it a PID only that stream has.
LEMMA MirrorStep ==
  ASSUME SetupInv, MirrorStream
  PROVE  SetupInv'
<1> DEFINE i == Len(outs) + 1
           st == input.streams[i]
           r == outs'[i]
<1>1. /\ stage = "mirror" /\ UNCHANGED <<stage, input, opt, tracks>>
      /\ Len(outs) < Len(input.streams)
      /\ outs' = Append(outs, [id |-> IF Preserved(st) THEN st.pid ELSE 0, lang |-> st.lang,
                               forced |-> 0, hi |-> 0])
      /\ targets' = IF Candidate(st) /\ ~Skipped(st) THEN Append(targets, Target(i, st))
                    ELSE targets
      /\ max_pid' = MaxPidWith(st)
  BY Zenon DEF MirrorStream
<1>2. /\ OverOwn(outs') /\ Len(outs') = i /\ DOMAIN outs' = 1..i
      /\ \A s \in DOMAIN outs : outs'[s] = outs[s]
      /\ r = [id |-> IF Preserved(st) THEN st.pid ELSE 0, lang |-> st.lang,
              forced |-> 0, hi |-> 0]
  BY <1>1, OwnAppend, OwnDomain DEF SetupInv, SetupTypes
<1>3. /\ Len(outs) \in Nat /\ DOMAIN outs = 1..Len(outs)
      /\ Len(targets) \in Nat /\ DOMAIN targets = 1..Len(targets)
  BY OwnDomain, Zenon DEF SetupInv, SetupTypes
<1>4. i \in DOMAIN input.streams /\ i \notin DOMAIN outs /\ DOMAIN outs' = DOMAIN outs \cup {i}
  BY <1>1, <1>2, <1>3, InputStreams
<1>5. st.pid \in Nat /\ r.id \in Nat /\ "id" \in DOMAIN r
  BY <1>2, <1>4, InputStreams
<1>6. /\ OverOwn(targets')
      /\ DOMAIN targets \subseteq DOMAIN targets'
      /\ \A k \in DOMAIN targets : targets'[k] = targets[k]
      /\ \A k \in DOMAIN targets' \ DOMAIN targets :
           k = Len(targets) + 1 /\ Candidate(st) /\ ~Skipped(st) /\ targets'[k] = Target(i, st)
  <2>1. CASE Candidate(st) /\ ~Skipped(st)
    <3>1. targets' = Append(targets, Target(i, st)) /\ OverOwn(targets)
      BY <1>1, <2>1, Zenon DEF SetupInv, SetupTypes
    <3>2. /\ OverOwn(targets') /\ DOMAIN targets' = 1..(Len(targets) + 1)
          /\ \A k \in 1..Len(targets) : targets'[k] = targets[k]
          /\ targets'[Len(targets) + 1] = Target(i, st)
      BY <3>1, OwnAppend
    <3> QED
      BY <1>3, <2>1, <3>2
  <2>2. CASE ~(Candidate(st) /\ ~Skipped(st))
    BY <1>1, <2>2, Zenon DEF SetupInv, SetupTypes
  <2> QED
    BY <2>1, <2>2, Zenon
<1>7. /\ max_pid \in Nat /\ max_pid' \in Nat /\ max_pid <= max_pid'
      /\ Preserved(st) => st.pid <= max_pid'
  BY <1>1, <1>5 DEF MaxPidWith, SetupInv, SetupTypes
<1>8. ~opt.preview /\ tracks = <<>> /\ DOMAIN tracks = {}
  BY <1>1, OwnEmpty, Zenon DEF SetupInv, StreamsMirrored
<1>9. \A s : Mirrors(s)' <=> Mirrors(s)
  BY <1>1, Zenon DEF Mirrors
<1>10. \A s \in DOMAIN outs' : Mirrors(s)
  BY <1>1, <1>2, <1>3, <1>8, InputStreams, SMTT(60) DEF Mirrors
<1> HIDE DEF i, st, r
<1>11. SetupTypes'
  BY <1>1, <1>2, <1>4, <1>5, <1>6, <1>7, <1>8, Zenon DEF SetupInv, SetupTypes, r
<1>12. StreamsMirrored'
  BY <1>1, <1>2, <1>3, <1>8, InputStreams DEF SetupInv, StreamsMirrored, i
<1>13. TargetsSound'
  <2>1. \A k \in DOMAIN targets' \ DOMAIN targets :
          LET tg == targets'[k]
          IN  /\ DOMAIN tg = {"in", "out", "pid", "lang", "used"}
              /\ tg.in = i /\ tg.out = i /\ tg.pid = st.pid /\ tg.lang = st.lang
              /\ tg.used = FALSE /\ st.sub /\ opt.overwrite
              /\ overwrite_lang_allowed(opt.only, st.lang)
    BY <1>6 DEF Target, Candidate, Skipped
  <2>2. \A k \in DOMAIN targets : targets[k].out \in DOMAIN outs
    BY Zenon DEF SetupInv, TargetsSound
  <2>3. ASSUME NEW k \in DOMAIN targets'
        PROVE  LET tg == targets'[k]
                   in == input.streams[tg.out]
               IN  /\ DOMAIN tg = {"in", "out", "pid", "lang", "used"}
                   /\ tg.in = tg.out /\ tg.out \in DOMAIN outs' /\ Mirrors(tg.out)
                   /\ tg.pid = in.pid /\ tg.lang = in.lang /\ in.sub /\ opt.overwrite
                   /\ overwrite_lang_allowed(opt.only, in.lang)
                   /\ tg.used \in BOOLEAN
    <3>1. CASE k \in DOMAIN targets
      BY <1>4, <1>6, <3>1 DEF SetupInv, TargetsSound
    <3>2. CASE k \notin DOMAIN targets
      BY <1>4, <1>10, <2>1, <3>2, ZenonT(60) DEF st
    <3> QED
      BY <3>1, <3>2, Zenon
  <2>4. ASSUME NEW j \in DOMAIN targets', NEW k \in DOMAIN targets', j # k
        PROVE  targets'[j].out # targets'[k].out
    <3>1. CASE j \in DOMAIN targets /\ k \in DOMAIN targets
      BY <1>6, <2>4, <3>1 DEF SetupInv, TargetsSound
    <3>2. CASE j \in DOMAIN targets /\ k \notin DOMAIN targets
      BY <1>4, <1>6, <2>1, <2>2, <3>2
    <3>3. CASE j \notin DOMAIN targets /\ k \in DOMAIN targets
      BY <1>4, <1>6, <2>1, <2>2, <3>3
    <3>4. CASE j \notin DOMAIN targets /\ k \notin DOMAIN targets
      BY <1>6, <2>4, <3>4
    <3> QED
      BY <3>1, <3>2, <3>3, <3>4, Zenon
  <2> QED
    BY <1>1, <1>9, <2>3, <2>4, ZenonT(60) DEF TargetsSound
<1>14. TracksPlaced'
  <2>1. \A k \in DOMAIN targets : ~targets[k].used
    BY <1>8, Zenon DEF SetupInv, TracksPlaced
  <2>2. \A k \in DOMAIN targets' : ~targets'[k].used
    BY <1>6, <2>1, SMTT(60) DEF Target
  <2> QED
    BY <1>1, <1>8, <2>2, Zenon DEF TracksPlaced
<1>15. PidsGiven'
  <2>1. ASSUME NEW s \in DOMAIN outs'
        PROVE  /\ outs'[s].id \in {0, input.streams[s].pid}
               /\ opt.preserve => outs'[s].id <= max_pid'
    <3>1. CASE s \in DOMAIN outs
      <4>1. /\ outs'[s] = outs[s] /\ outs[s].id \in {0, input.streams[s].pid}
            /\ opt.preserve => outs[s].id <= max_pid
        BY <1>1, <1>2, <1>8, <1>10, <3>1, Zenon DEF SetupInv, PidsGiven
      <4>2. outs[s].id \in Nat
        BY <3>1, Zenon DEF SetupInv, SetupTypes
      <4> QED
        BY <1>7, <4>1, <4>2
    <3>2. CASE s = i
      BY <1>2, <1>5, <1>7, <3>2 DEF r, st
    <3> QED
      BY <1>4, <3>1, <3>2, Zenon
  <2>2. ASSUME NEW k \in DOMAIN targets', opt.preserve \/ targets'[k].used
        PROVE  outs'[targets'[k].out].id = targets'[k].pid
    <3>1. CASE k \in DOMAIN targets
      <4>1. targets[k].out \in DOMAIN outs /\ targets'[k] = targets[k]
        BY <1>6, <3>1, Zenon DEF SetupInv, TargetsSound
      <4> QED
        BY <1>1, <1>2, <2>2, <3>1, <4>1 DEF SetupInv, PidsGiven
    <3>2. CASE k \notin DOMAIN targets
      <4>1. targets'[k] = Target(i, st) /\ ~Skipped(st)
        BY <1>6, <3>2, Zenon
      <4>2. opt.preserve /\ targets'[k].out = i /\ targets'[k].pid = st.pid
        BY <2>2, <4>1 DEF Target
      <4> QED
        BY <1>2, <1>5, <4>1, <4>2 DEF r, Preserved
    <3> QED
      BY <3>1, <3>2, Zenon
  <2> QED
    BY <1>1, <1>9, <1>10, <2>1, <2>2, ZenonT(60) DEF PidsGiven
<1>16. PidsFinal'
  BY <1>1, Zenon DEF PidsFinal
<1>17. DistinctPids'
  <2>1. \A s \in DOMAIN outs' : outs'[s].id \in {0, input.streams[s].pid}
    BY <1>1, <1>9, <1>10, <1>15, Zenon DEF PidsGiven
  <2>2. \A s \in DOMAIN outs' : s \in DOMAIN input.streams
    BY <1>10, Zenon DEF Mirrors
  <2> QED
    BY <2>1, <2>2, InputStreams, SMTT(60) DEF DistinctPids
<1> QED
  BY <1>11, <1>12, <1>13, <1>14, <1>15, <1>16, <1>17, Zenon DEF SetupInv
-----------------------------------------------------------------------------
(* Tracks.                                                                 *)

\* Going on to the next stage changes nothing that the invariant speaks of.
LEMMA StageStep ==
  ASSUME SetupInv, AllMirrored \/ ListsParsed \/ TracksDone \/ (ApplyPids /\ NoPids)
  PROVE  SetupInv'
<1>1. /\ UNCHANGED <<input, opt, outs, targets, tracks, max_pid>>
      /\ \/ stage = "mirror" /\ stage' = "lists" /\ Len(outs) = Len(input.streams)
         \/ stage = "lists" /\ stage' = "tracks"
         \/ stage = "tracks" /\ stage' \in {"pids", "flags"}
         \/ stage = "pids" /\ stage' = "flags"
  BY Zenon DEF AllMirrored, ListsParsed, TracksDone, ApplyPids
<1>2. SetupTypes'
  BY <1>1, Zenon DEF SetupInv, SetupTypes, Stages
<1>3. StreamsMirrored'
  <2>1. Len(outs) \in Nat
    BY OwnDomain, Zenon DEF SetupInv, SetupTypes
  <2> QED
    BY <1>1, <2>1, Zenon DEF SetupInv, StreamsMirrored
<1>4. TargetsSound' /\ TracksPlaced' /\ DistinctPids'
  BY <1>1 DEF SetupInv, TargetsSound, TracksPlaced, DistinctPids, Mirrors
<1>5. PidsGiven'
  BY <1>1, Zenon DEF SetupInv, PidsGiven, Mirrors
<1>6. PidsFinal'
  <2> SUFFICES ASSUME stage \in {"tracks", "pids"}, NEW t \in DOMAIN tracks
               PROVE  LET s == tracks[t].stream
                      IN  \/ outs[s].id \in {0} \cup MinPid..MaxPid
                          \/ \E k \in DOMAIN targets :
                               /\ targets[k].used /\ targets[k].out = s
                               /\ outs[s].id = targets[k].pid
    BY <1>1, Zenon DEF PidsFinal
  <2> DEFINE s == tracks[t].stream
  <2>1. s \in DOMAIN outs
    BY Zenon DEF SetupInv, TracksPlaced
  <2>2. CASE Mirrors(s)
    <3>1. PICK k \in DOMAIN targets : targets[k].used /\ targets[k].out = s
      BY <2>2, Zenon DEF SetupInv, TracksPlaced
    <3>2. outs[s].id = targets[k].pid
      BY <3>1, Zenon DEF SetupInv, PidsGiven
    <3> QED
      BY <3>1, <3>2, Zenon
  <2>3. CASE ~Mirrors(s)
    BY <2>1, <2>3, Zenon DEF SetupInv, PidsGiven
  <2> QED
    BY <2>2, <2>3, Zenon
<1> QED
  BY <1>2, <1>3, <1>4, <1>5, <1>6, Zenon DEF SetupInv

\* The target that find_overwrite_target returns is free and of the language.
LEMMA TargetFound ==
  ASSUME SetupInv, NEW lang, find_overwrite_target(lang) # 0
  PROVE  LET k == find_overwrite_target(lang)
         IN  k \in DOMAIN targets /\ ~targets[k].used /\ targets[k].lang.code = lang.code
<1> DEFINE m == {i \in DOMAIN targets : ~targets[i].used /\ targets[i].lang.code = lang.code}
<1>1. m # {} /\ find_overwrite_target(lang) = First(m)
  BY Zenon DEF find_overwrite_target
<1>2. m \subseteq Nat
  BY OwnDomain DEF SetupInv, SetupTypes
<1> HIDE DEF m
<1>3. First(m) \in m
  <2>1. \E x \in m : \A y \in m : x <= y
    BY <1>1, <1>2, Smallest, ZenonT(60)
  <2> QED
    BY <2>1, Zenon DEF First
<1> QED
  BY <1>1, <1>3, Zenon DEF m
\* A track on a stream of its own: its PID is above all others, or left open.
LEMMA NewStreamStep ==
  ASSUME SetupInv, stage = "tracks", UNCHANGED <<stage, input, opt, targets>>,
         NEW track, {"stream", "lang"} \subseteq DOMAIN track, track.stream = Len(outs) + 1,
         ~(Allocates /\ NextPid > MaxPid),
         outs' = Append(outs, Marked(NewId, track)),
         max_pid' = IF Allocates THEN NextPid ELSE max_pid,
         tracks' = Append(tracks, track)
  PROVE  SetupInv'
<1> DEFINE i == Len(outs) + 1
           u == Len(tracks) + 1
<1>1. /\ Len(outs) \in Nat /\ DOMAIN outs = 1..Len(outs)
      /\ Len(tracks) \in Nat /\ DOMAIN tracks = 1..Len(tracks)
      /\ max_pid \in Nat
  BY OwnDomain, Zenon DEF SetupInv, SetupTypes
<1>2. /\ OverOwn(outs') /\ Len(outs') = i /\ DOMAIN outs' = DOMAIN outs \cup {i}
      /\ i \notin DOMAIN outs
      /\ \A s \in DOMAIN outs : outs'[s] = outs[s]
      /\ outs'[i] = Marked(NewId, track)
  BY <1>1, OwnAppend DEF SetupInv, SetupTypes
<1>3. /\ OverOwn(tracks') /\ DOMAIN tracks' = DOMAIN tracks \cup {u} /\ u \notin DOMAIN tracks
      /\ \A t \in DOMAIN tracks : tracks'[t] = tracks[t]
      /\ tracks'[u] = track /\ track.stream = i
  BY <1>1, OwnAppend DEF SetupInv, SetupTypes
<1>4. /\ outs'[i].id = NewId /\ "id" \in DOMAIN outs'[i]
      /\ NewId \in Nat /\ max_pid' \in Nat /\ max_pid <= max_pid' /\ NewId <= max_pid'
      /\ NewId # 0 => /\ opt.preserve /\ ~opt.preview /\ NewId > max_pid
                      /\ NewId \in MinPid..MaxPid
  BY <1>1, <1>2 DEF Marked, NewId, NextPid, Allocates
<1>5. \A s : Mirrors(s)' <=> Mirrors(s)
  BY Zenon DEF Mirrors
<1>6. ~Mirrors(i)
  BY <1>1, InputStreams DEF Mirrors, SetupInv, StreamsMirrored
<1> HIDE DEF i, u
<1>7. SetupTypes'
  BY <1>2, <1>3, <1>4 DEF SetupInv, SetupTypes
<1>8. StreamsMirrored'
  BY <1>1, <1>2, InputStreams, SMTT(60) DEF SetupInv, StreamsMirrored, i
<1>9. TargetsSound'
  <2>1. \A k \in DOMAIN targets : targets[k].out \in DOMAIN outs'
    BY <1>2, Zenon DEF SetupInv, TargetsSound
  <2> QED
    BY <1>5, <2>1, Zenon DEF SetupInv, TargetsSound
<1>10. TracksPlaced'
  <2>1. \A t \in DOMAIN tracks : tracks[t].stream \in DOMAIN outs
    BY Zenon DEF SetupInv, TracksPlaced
  <2>2. \A t \in DOMAIN tracks' : tracks'[t].stream \in DOMAIN outs'
    BY <1>2, <1>3, <2>1, Zenon
  <2>3. \A t, v \in DOMAIN tracks' : t # v => tracks'[t].stream # tracks'[v].stream
    BY <1>2, <1>3, <2>1, SMTT(60) DEF SetupInv, TracksPlaced
  <2>4. \A t \in DOMAIN tracks' : Mirrors(tracks'[t].stream) =>
          \E k \in DOMAIN targets : /\ targets[k].used /\ targets[k].out = tracks'[t].stream
                                    /\ targets[k].lang.code = tracks'[t].lang.code
    BY <1>3, <1>6 DEF SetupInv, TracksPlaced
  <2>5. \A k \in DOMAIN targets : targets[k].used =>
          \E t \in DOMAIN tracks' : tracks'[t].stream = targets[k].out
    BY <1>3, SMTT(60) DEF SetupInv, TracksPlaced
  <2> QED
    BY <1>5, <2>2, <2>3, <2>4, <2>5 DEF TracksPlaced
<1>11. PidsGiven'
  <2>1. ASSUME NEW s \in DOMAIN outs'
        PROVE  /\ Mirrors(s) => outs'[s].id \in {0, input.streams[s].pid}
               /\ ~Mirrors(s) => \/ outs'[s].id = 0
                                 \/ /\ opt.preserve /\ ~opt.preview
                                    /\ outs'[s].id \in MinPid..MaxPid
               /\ opt.preserve /\ ~opt.preview => outs'[s].id <= max_pid'
    <3>1. CASE s \in DOMAIN outs
      <4>1. outs[s].id \in Nat /\ outs'[s] = outs[s]
        BY <1>2, <3>1, Zenon DEF SetupInv, SetupTypes
      <4>2. opt.preserve /\ ~opt.preview => outs[s].id <= max_pid
        BY <3>1, Zenon DEF SetupInv, PidsGiven
      <4>3. opt.preserve /\ ~opt.preview => outs[s].id <= max_pid'
        BY <1>1, <1>4, <4>1, <4>2, SMTT(60)
      <4> QED
        BY <3>1, <4>1, <4>3, Zenon DEF SetupInv, PidsGiven
    <3>2. CASE s = i
      BY <1>4, <1>6, <3>2, Zenon
    <3> QED
      BY <1>2, <3>1, <3>2, Zenon
  <2>2. \A k \in DOMAIN targets :
          opt.preserve \/ targets[k].used => outs'[targets[k].out].id = targets[k].pid
    <3>1. \A k \in DOMAIN targets : targets[k].out \in DOMAIN outs
      BY Zenon DEF SetupInv, TargetsSound
    <3> QED
      BY <1>2, <3>1, Zenon DEF SetupInv, PidsGiven
  <2> QED
    BY <1>5, <2>1, <2>2, ZenonT(60) DEF PidsGiven
<1>12. PidsFinal'
  BY Zenon DEF PidsFinal
<1>13. DistinctPids'
  <2>1. ASSUME NEW s \in DOMAIN outs, NewId # 0
        PROVE  outs[s].id # NewId
    <3>1. outs[s].id \in Nat /\ outs[s].id <= max_pid /\ NewId > max_pid
      BY <1>4, <2>1, Zenon DEF SetupInv, SetupTypes, PidsGiven
    <3> QED
      BY <1>1, <1>4, <3>1, SMTT(60)
  <2> QED
    BY <1>2, <1>4, <2>1 DEF SetupInv, DistinctPids
<1> QED
  BY <1>7, <1>8, <1>9, <1>10, <1>11, <1>12, <1>13, Zenon DEF SetupInv

\* A track that takes a target over keeps the PID of the stream it replaces.
LEMMA OverwriteStep ==
  ASSUME SetupInv, stage = "tracks", UNCHANGED <<stage, input, opt, max_pid>>,
         NEW k \in DOMAIN targets, ~targets[k].used,
         NEW track, {"stream", "lang"} \subseteq DOMAIN track,
         track.stream = targets[k].out, track.lang.code = targets[k].lang.code,
         outs' = [outs EXCEPT ![targets[k].out] =
                    Marked(IF targets[k].pid > 0 THEN targets[k].pid ELSE @.id, track)],
         targets' = [targets EXCEPT ![k].used = TRUE],
         tracks' = Append(tracks, track)
  PROVE  SetupInv'
<1> DEFINE tg == targets[k]
           o == tg.out
           u == Len(tracks) + 1
<1>1. /\ DOMAIN tg = {"in", "out", "pid", "lang", "used"}
      /\ o \in DOMAIN outs /\ Mirrors(o) /\ tg.pid = input.streams[o].pid
  BY Zenon DEF SetupInv, TargetsSound
<1>2. o \in DOMAIN input.streams /\ tg.pid \in Nat
  BY <1>1, InputStreams, Zenon DEF Mirrors
<1>3. /\ OverOwn(outs') /\ Len(outs') = Len(outs) /\ DOMAIN outs' = DOMAIN outs
      /\ outs'[o] = Marked(IF tg.pid > 0 THEN tg.pid ELSE outs[o].id, track)
      /\ \A s \in DOMAIN outs : s # o => outs'[s] = outs[s]
  <2> DEFINE mk == Marked(IF tg.pid > 0 THEN tg.pid ELSE outs[o].id, track)
  <2>1. outs' = [outs EXCEPT ![o] = mk]
    BY Zenon
  <2> HIDE DEF mk, o, tg
  <2>2. OverOwn(outs)
    BY Zenon DEF SetupInv, SetupTypes
  <2>3. LET b == [outs EXCEPT ![o] = mk]
        IN  /\ OverOwn(b) /\ Len(b) = Len(outs) /\ DOMAIN b = DOMAIN outs
            /\ b[o] = mk
            /\ \A s \in DOMAIN outs : s # o => b[s] = outs[s]
    BY <1>1, <2>2, OwnExcept, Zenon
  <2>4. /\ OverOwn(outs') /\ Len(outs') = Len(outs) /\ DOMAIN outs' = DOMAIN outs
        /\ outs'[o] = mk
        /\ \A s \in DOMAIN outs : s # o => outs'[s] = outs[s]
    BY <2>1, <2>3, ZenonT(60)
  <2> QED
    BY <2>4, Zenon DEF mk
<1>4. outs[o].id \in {0, tg.pid}
  BY <1>1, Zenon DEF SetupInv, PidsGiven
<1>5. outs'[o].id = tg.pid /\ "id" \in DOMAIN outs'[o]
  BY <1>2, <1>3, <1>4 DEF Marked
<1>6. /\ OverOwn(targets') /\ DOMAIN targets' = DOMAIN targets
      /\ targets'[k] = [tg EXCEPT !.used = TRUE]
      /\ \A j \in DOMAIN targets : j # k => targets'[j] = targets[j]
  BY OwnExcept, ZenonT(60) DEF SetupInv, SetupTypes
<1>7. /\ DOMAIN targets'[k] = {"in", "out", "pid", "lang", "used"}
      /\ targets'[k].in = tg.in /\ targets'[k].out = o /\ targets'[k].pid = tg.pid
      /\ targets'[k].lang = tg.lang /\ targets'[k].used = TRUE
  BY <1>1, <1>6, ZenonT(60)
<1>8. /\ OverOwn(tracks') /\ DOMAIN tracks' = DOMAIN tracks \cup {u} /\ u \notin DOMAIN tracks
      /\ \A t \in DOMAIN tracks : tracks'[t] = tracks[t]
      /\ tracks'[u] = track
  BY OwnAppend, OwnDomain, SMTT(60) DEF SetupInv, SetupTypes
<1>9. \A s : Mirrors(s)' <=> Mirrors(s)
  BY Zenon DEF Mirrors
<1>10. \A t \in DOMAIN tracks : tracks[t].stream # o
  <2> SUFFICES ASSUME NEW t \in DOMAIN tracks, tracks[t].stream = o
               PROVE  FALSE
    BY Zenon
  <2>1. Mirrors(tracks[t].stream)
    BY <1>1, Zenon
  <2>2. PICK j \in DOMAIN targets : targets[j].used /\ targets[j].out = tracks[t].stream
    BY <2>1, Zenon DEF SetupInv, TracksPlaced
  <2> QED
    BY <2>2 DEF SetupInv, TargetsSound
<1> HIDE DEF tg, o, u
<1>11. SetupTypes'
  <2>1. \A s \in DOMAIN outs' : "id" \in DOMAIN outs'[s] /\ outs'[s].id \in Nat
    BY <1>2, <1>3, <1>5, Zenon DEF SetupInv, SetupTypes
  <2>2. \A t \in DOMAIN tracks' : {"stream", "lang"} \subseteq DOMAIN tracks'[t]
    BY <1>8, Zenon DEF SetupInv, SetupTypes
  <2> QED
    BY <1>3, <1>6, <1>8, <2>1, <2>2, Zenon DEF SetupInv, SetupTypes
<1>12. StreamsMirrored'
  BY <1>3, Zenon DEF SetupInv, StreamsMirrored
<1>13. TargetsSound'
  <2>1. ASSUME NEW j \in DOMAIN targets
        PROVE  /\ targets'[j].in = targets[j].in /\ targets'[j].out = targets[j].out
               /\ targets'[j].pid = targets[j].pid /\ targets'[j].lang = targets[j].lang
               /\ DOMAIN targets'[j] = {"in", "out", "pid", "lang", "used"}
               /\ targets'[j].used \in BOOLEAN
    <3>1. CASE j = k
      BY <1>7, <3>1, ZenonT(60) DEF tg, o
    <3>2. CASE j # k
      BY <1>6, <3>2, Zenon DEF SetupInv, TargetsSound
    <3> QED
      BY <3>1, <3>2, ZenonT(60)
  <2>2. ASSUME NEW j \in DOMAIN targets
        PROVE  LET st == input.streams[targets[j].out]
               IN  /\ targets[j].in = targets[j].out /\ targets[j].out \in DOMAIN outs'
                   /\ Mirrors(targets[j].out)
                   /\ targets[j].pid = st.pid /\ targets[j].lang = st.lang /\ st.sub
                   /\ opt.overwrite /\ overwrite_lang_allowed(opt.only, st.lang)
    BY <1>3, Zenon DEF SetupInv, TargetsSound
  <2>3. \A i, j \in DOMAIN targets : i # j => targets[i].out # targets[j].out
    BY Zenon DEF SetupInv, TargetsSound
  <2>4. \A i, j \in DOMAIN targets' : i # j => targets'[i].out # targets'[j].out
    <3> SUFFICES ASSUME NEW i \in DOMAIN targets, NEW j \in DOMAIN targets, i # j
                 PROVE  targets'[i].out # targets'[j].out
      BY <1>6, Zenon
    <3>1. targets'[i].out = targets[i].out /\ targets'[j].out = targets[j].out
      BY <2>1, Zenon
    <3> QED
      BY <2>3, <3>1, Zenon
  <2>5. ASSUME NEW j \in DOMAIN targets'
        PROVE  LET h == targets'[j]
                   st == input'.streams[h.out]
               IN  /\ DOMAIN h = {"in", "out", "pid", "lang", "used"}
                   /\ h.in = h.out /\ h.out \in DOMAIN outs'
                   /\ ~opt'.preview /\ h.out \in DOMAIN input'.streams
                   /\ h.pid = st.pid /\ h.lang = st.lang /\ st.sub /\ opt'.overwrite
                   /\ overwrite_lang_allowed(opt'.only, st.lang)
                   /\ h.used \in BOOLEAN
    <3>1. input' = input /\ opt' = opt /\ j \in DOMAIN targets
      BY <1>6, Zenon
    <3>2. /\ targets'[j].in = targets[j].in /\ targets'[j].out = targets[j].out
          /\ targets'[j].pid = targets[j].pid /\ targets'[j].lang = targets[j].lang
          /\ DOMAIN targets'[j] = {"in", "out", "pid", "lang", "used"}
          /\ targets'[j].used \in BOOLEAN
      BY <2>1, <3>1, ZenonT(60)
    <3>3. /\ targets[j].in = targets[j].out /\ targets[j].out \in DOMAIN outs'
          /\ ~opt.preview /\ targets[j].out \in DOMAIN input.streams
          /\ targets[j].pid = input.streams[targets[j].out].pid
          /\ targets[j].lang = input.streams[targets[j].out].lang
          /\ input.streams[targets[j].out].sub /\ opt.overwrite
      BY <2>2, <3>1, Zenon DEF Mirrors
    <3>4. overwrite_lang_allowed(opt.only, input.streams[targets[j].out].lang)
      BY <2>2, <3>1, Zenon
    <3>5. overwrite_lang_allowed(opt'.only, input'.streams[targets'[j].out].lang)
      BY <3>1, <3>2, <3>4, Zenon
    <3> QED
      BY <3>1, <3>2, <3>3, <3>5, ZenonT(60)
  <2> QED
    BY <2>4, <2>5, Zenon DEF TargetsSound, Mirrors
<1>14. TracksPlaced'
  <2>1. \A t \in DOMAIN tracks' : tracks'[t].stream \in DOMAIN outs'
    BY <1>1, <1>3, <1>8 DEF SetupInv, TracksPlaced, tg, o
  <2>2. \A t, v \in DOMAIN tracks' : t # v => tracks'[t].stream # tracks'[v].stream
    BY <1>8, <1>10, SMTT(60) DEF SetupInv, TracksPlaced, tg, o
  <2>3. ASSUME NEW t \in DOMAIN tracks', Mirrors(tracks'[t].stream)
        PROVE  \E j \in DOMAIN targets' :
                 /\ targets'[j].used /\ targets'[j].out = tracks'[t].stream
                 /\ targets'[j].lang.code = tracks'[t].lang.code
    <3>1. CASE t \in DOMAIN tracks
      <4>1. PICK j \in DOMAIN targets : /\ targets[j].used /\ targets[j].out = tracks[t].stream
                                        /\ targets[j].lang.code = tracks[t].lang.code
        BY <1>8, <2>3, <3>1, Zenon DEF SetupInv, TracksPlaced
      <4>2. j # k
        BY <4>1, Zenon
      <4> QED
        BY <1>6, <1>8, <3>1, <4>1, <4>2, SMTT(60)
    <3>2. CASE t = u
      BY <1>6, <1>7, <1>8, <3>2, SMTT(60) DEF tg, o
    <3> QED
      BY <1>8, <3>1, <3>2, Zenon
  <2>4. ASSUME NEW j \in DOMAIN targets', targets'[j].used
        PROVE  \E t \in DOMAIN tracks' : tracks'[t].stream = targets'[j].out
    <3>1. CASE j = k
      BY <1>7, <1>8, <3>1, SMTT(60) DEF tg, o
    <3>2. CASE j # k
      BY <1>6, <1>8, <2>4, <3>2, SMTT(60) DEF SetupInv, TracksPlaced
    <3> QED
      BY <3>1, <3>2, Zenon
  <2> QED
    BY <1>9, <2>1, <2>2, <2>3, <2>4, ZenonT(60) DEF TracksPlaced
<1>15. PidsGiven'
  <2>1. ASSUME NEW s \in DOMAIN outs'
        PROVE  /\ Mirrors(s) => outs'[s].id \in {0, input.streams[s].pid}
               /\ ~Mirrors(s) => \/ outs'[s].id = 0
                                 \/ /\ opt.preserve /\ ~opt.preview
                                    /\ outs'[s].id \in MinPid..MaxPid
               /\ opt.preserve /\ ~opt.preview => outs'[s].id <= max_pid
    <3>1. CASE s # o
      BY <1>3, <3>1, Zenon DEF SetupInv, PidsGiven
    <3>2. CASE s = o
      <4>1. opt.preserve => outs[o].id = tg.pid
        BY Zenon DEF SetupInv, PidsGiven, tg, o
      <4>2. opt.preserve /\ ~opt.preview => outs[o].id <= max_pid
        BY <1>1, Zenon DEF SetupInv, PidsGiven
      <4> QED
        BY <1>1, <1>5, <3>2, <4>1, <4>2, Zenon
    <3> QED
      BY <3>1, <3>2, Zenon
  <2>2. ASSUME NEW j \in DOMAIN targets', opt.preserve \/ targets'[j].used
        PROVE  outs'[targets'[j].out].id = targets'[j].pid
    <3>1. CASE j = k
      BY <1>5, <1>7, <3>1, Zenon
    <3>2. CASE j # k
      <4>1. targets'[j] = targets[j] /\ targets[j].out # o /\ targets[j].out \in DOMAIN outs
        BY <1>6, <3>2, Zenon DEF SetupInv, TargetsSound, tg, o
      <4>2. outs[targets[j].out].id = targets[j].pid
        BY <1>6, <2>2, <4>1, ZenonT(60) DEF SetupInv, PidsGiven
      <4> QED
        BY <1>3, <4>1, <4>2, Zenon
    <3> QED
      BY <3>1, <3>2, Zenon
  <2> QED
    BY <1>9, <2>1, <2>2, Zenon DEF PidsGiven
<1>16. PidsFinal'
  BY Zenon DEF PidsFinal
<1>17. DistinctPids'
  <2>1. ASSUME NEW s \in DOMAIN outs, s # o, tg.pid # 0
        PROVE  outs[s].id # tg.pid
    <3>1. CASE Mirrors(s)
      <4>1. outs[s].id \in {0, input.streams[s].pid} /\ s \in DOMAIN input.streams
        BY <3>1, Zenon DEF SetupInv, PidsGiven, Mirrors
      <4> QED
        BY <1>1, <1>2, <2>1, <4>1, InputStreams, Zenon
    <3>2. CASE ~Mirrors(s) /\ opt.preserve
      <4>1. outs[o].id = tg.pid
        BY <3>2, Zenon DEF SetupInv, PidsGiven, tg, o
      <4> QED
        BY <1>1, <2>1, <4>1, Zenon DEF SetupInv, DistinctPids
    <3>3. CASE ~Mirrors(s) /\ ~opt.preserve
      BY <2>1, <3>3, Zenon DEF SetupInv, PidsGiven
    <3> QED
      BY <3>1, <3>2, <3>3, Zenon
  <2> QED
    BY <1>3, <1>5, <2>1 DEF SetupInv, DistinctPids
<1> QED
  BY <1>11, <1>12, <1>13, <1>14, <1>15, <1>16, <1>17, Zenon DEF SetupInv
\* Both ways a track finds its stream.
LEMMA AddTrackStep ==
  ASSUME SetupInv, AddTrack
  PROVE  SetupInv'
<1> DEFINE lang == Langs[cur]
           k == find_overwrite_target(lang)
           track == NewTrack(IF k = 0 THEN Len(outs) + 1 ELSE targets[k].out, Files[cur], lang)
<1>1. /\ stage = "tracks" /\ UNCHANGED <<stage, input, opt>>
      /\ ~Exhausted(lang)
      /\ targets' = IF k = 0 THEN targets ELSE [targets EXCEPT ![k].used = TRUE]
      /\ outs' = Placed(k, track)
      /\ max_pid' = IF k = 0 /\ Allocates THEN NextPid ELSE max_pid
      /\ tracks' = Append(tracks, track)
  BY Zenon DEF AddTrack
<1>2. /\ {"stream", "lang"} \subseteq DOMAIN track /\ track.lang = lang
      /\ track.stream = IF k = 0 THEN Len(outs) + 1 ELSE targets[k].out
  BY Zenon DEF NewTrack
<1>3. Exhausted(lang) <=> k = 0 /\ Allocates /\ NextPid > MaxPid
  BY Zenon DEF Exhausted
<1>4. k # 0 => k \in DOMAIN targets /\ ~targets[k].used /\ targets[k].lang.code = lang.code
  BY TargetFound, Zenon
<1> HIDE DEF lang, k, track
<1>5. CASE k = 0
  <2>1. /\ UNCHANGED <<stage, input, opt, targets>>
        /\ track.stream = Len(outs) + 1
        /\ ~(Allocates /\ NextPid > MaxPid)
        /\ outs' = Append(outs, Marked(NewId, track))
        /\ max_pid' = IF Allocates THEN NextPid ELSE max_pid
    BY <1>1, <1>2, <1>3, <1>5, Zenon DEF Placed
  <2> QED
    BY <1>1, <1>2, <2>1, NewStreamStep, Zenon
<1>6. CASE k # 0
  <2>1. /\ UNCHANGED <<stage, input, opt, max_pid>>
        /\ track.stream = targets[k].out /\ track.lang.code = targets[k].lang.code
        /\ outs' = [outs EXCEPT ![targets[k].out] =
                     Marked(IF targets[k].pid > 0 THEN targets[k].pid ELSE @.id, track)]
        /\ targets' = [targets EXCEPT ![k].used = TRUE]
    BY <1>1, <1>2, <1>4, <1>6, Zenon DEF Placed
  <2> QED
    BY <1>1, <1>2, <1>4, <1>6, <2>1, OverwriteStep, ZenonT(60)
<1> QED
  BY <1>5, <1>6, Zenon

-----------------------------------------------------------------------------
(* The PIDs of --pid, the flags.                                           *)

\* A list of PIDs that parse_pid_list accepts has no PID twice or out of range.
LEMMA ListAccepted ==
  ASSUME NEW list, parse_pid_list(list).code = 0
  PROVE  LET p == parse_pid_list(list).pids
         IN  /\ Len(p) \in Nat /\ DOMAIN p = 1..Len(p)
             /\ \A i \in 1..Len(p) : p[i] \in MinPid..MaxPid
             /\ \A i, j \in 1..Len(p) : i # j => p[i] # p[j]
<1> DEFINE t == Tokens(list)
           bad == {i \in 1..Len(t) : PidError(t, i) # 0}
           p == parse_pid_list(list).pids
<1>1. Len(t) \in Nat
  BY DEF Tokens
<1>2. /\ p = [i \in 1..Len(t) |-> t[i].val]
      /\ bad = {} \/ PidError(t, First(bad)) = 0
  BY DEF parse_pid_list
<1> HIDE DEF t, p
<1>3. DOMAIN p = 1..Len(t) /\ p = [i \in 1..Len(t) |-> p[i]]
      /\ \A i \in 1..Len(t) : p[i] = t[i].val
  BY <1>2, Zenon
<1>4. Len(p) = Len(t)
  BY <1>1, <1>3, OwnFunction, Zenon
<1>5. bad = {}
  <2> SUFFICES ASSUME bad # {}
               PROVE  FALSE
    BY Zenon
  <2>1. bad \subseteq Nat /\ \A i \in bad : PidError(t, i) # 0
    BY <1>1
  <2> HIDE DEF bad
  <2>2. First(bad) \in bad
    BY <2>1, Smallest, ZenonT(60) DEF First
  <2> QED
    BY <1>2, <2>1, <2>2, ZenonT(60)
<1>6. \A i \in 1..Len(t) : PidError(t, i) = 0
  BY <1>5, Zenon
<1>7. \A i \in 1..Len(t) : t[i].val \in MinPid..MaxPid
  BY <1>6 DEF PidError
<1>8. \A i \in 1..Len(t) : \A j \in 1..(i - 1) : t[j].val # t[i].val
  BY <1>6 DEF PidError
<1>9. \A i, j \in 1..Len(t) : i # j => t[i].val # t[j].val
  <2> SUFFICES ASSUME NEW i \in 1..Len(t), NEW j \in 1..Len(t), i # j
               PROVE  t[i].val # t[j].val
    BY Zenon
  <2>1. j \in 1..(i - 1) \/ i \in 1..(j - 1)
    BY <1>1
  <2> QED
    BY <1>8, <2>1, Zenon
<1> QED
  BY <1>1, <1>3, <1>4, <1>7, <1>9 DEF p

\* PIDs that apply_custom_pids gives to the tracks differ from each other and from
\* those of all other streams.
LEMMA PidsAccepted ==
  ASSUME SetupInv, PidsRefused = 0
  PROVE  /\ \A t \in DOMAIN tracks : Assigned[t] \in MinPid..MaxPid
         /\ \A t, u \in DOMAIN tracks : t # u => Assigned[t] # Assigned[u]
         /\ \A s \in DOMAIN outs \ TrackStreams, t \in DOMAIN tracks :
              outs[s].id # 0 => outs[s].id # Assigned[t]
<1> DEFINE p == parse_pid_list(opt.pids).pids
           n == Len(tracks)
<1>1. n \in Nat /\ DOMAIN tracks = 1..n
  BY OwnDomain, Zenon DEF SetupInv, SetupTypes
<1>2. /\ n # 0 /\ parse_pid_list(opt.pids).code = 0
      /\ ~(Len(p) = 1 /\ p[1] + n > MaxPid)
      /\ Len(p) = 1 \/ Len(p) = n
      /\ ~Conflict
  BY DEF PidsRefused, ntracks
<1>3. Assigned = [t \in 1..n |-> IF Len(p) = 1 THEN p[1] + (t - 1) ELSE p[t]]
  BY Zenon DEF Assigned, ntracks
<1>4. /\ Len(p) \in Nat
      /\ \A i \in 1..Len(p) : p[i] \in MinPid..MaxPid
      /\ \A i, j \in 1..Len(p) : i # j => p[i] # p[j]
  BY <1>2, ListAccepted, Zenon
<1> HIDE DEF p, n
<1>5. \A t \in 1..n : Assigned[t] \in MinPid..MaxPid
  <2>1. CASE Len(p) = 1
    BY <1>1, <1>2, <1>3, <1>4, <2>1
  <2>2. CASE Len(p) # 1
    BY <1>2, <1>3, <1>4, <2>2, Zenon
  <2> QED
    BY <2>1, <2>2, Zenon
<1>6. \A t, u \in 1..n : t # u => Assigned[t] # Assigned[u]
  <2>1. CASE Len(p) = 1
    <3>1. p[1] \in Int
      BY <1>4, <2>1
    <3> QED
      BY <1>1, <1>3, <2>1, <3>1
  <2>2. CASE Len(p) # 1
    BY <1>2, <1>3, <1>4, <2>2
  <2> QED
    BY <2>1, <2>2, Zenon
<1>7. ASSUME NEW s \in DOMAIN outs \ TrackStreams, NEW t \in DOMAIN tracks, outs[s].id # 0
      PROVE  outs[s].id # Assigned[t]
  <2>1. outs[s].id > 0
    BY <1>7 DEF SetupInv, SetupTypes
  <2> QED
    BY <1>1, <1>2, <2>1, Zenon DEF Conflict, ntracks, n
<1> QED
  BY <1>1, <1>5, <1>6, <1>7, Zenon
\* The tracks' streams get the PIDs of --pid; nothing else changes.
LEMMA RepidStep ==
  ASSUME SetupInv, ApplyPids, ~NoPids
  PROVE  SetupInv'
<1>1. /\ stage = "pids" /\ stage' = "flags" /\ outs' = Repid /\ PidsRefused = 0
      /\ UNCHANGED <<input, opt, targets, tracks, max_pid>>
  BY Zenon DEF ApplyPids
<1>2. Len(outs) \in Nat /\ DOMAIN outs = 1..Len(outs)
  BY OwnDomain, Zenon DEF SetupInv, SetupTypes
<1>3. /\ DOMAIN outs' = DOMAIN outs /\ outs' = [s \in 1..Len(outs) |-> outs'[s]]
      /\ \A s \in DOMAIN outs :
           outs'[s] = IF s \in TrackStreams THEN [outs[s] EXCEPT !.id = Assigned[TrackAt(s)]]
                      ELSE outs[s]
  BY <1>1, <1>2, Zenon DEF Repid
<1>4. OverOwn(outs') /\ Len(outs') = Len(outs)
  BY <1>2, <1>3, OwnFunction, Zenon
<1>5. ASSUME NEW s \in TrackStreams
      PROVE  TrackAt(s) \in DOMAIN tracks /\ tracks[TrackAt(s)].stream = s
  BY Zenon DEF TrackAt, TrackStreams
<1>6. ASSUME NEW s \in DOMAIN outs, s \in TrackStreams
      PROVE  "id" \in DOMAIN outs'[s] /\ outs'[s].id = Assigned[TrackAt(s)]
  BY <1>3, <1>6, Zenon DEF SetupInv, SetupTypes
<1>7. ASSUME NEW s \in DOMAIN outs, s \in TrackStreams
      PROVE  outs'[s].id \in MinPid..MaxPid
  BY <1>1, <1>5, <1>6, <1>7, PidsAccepted, Zenon
<1>8. \A s \in DOMAIN outs : s \notin TrackStreams => outs'[s] = outs[s]
  BY <1>3, Zenon
<1>9. SetupTypes'
  <2>1. \A s \in DOMAIN outs : "id" \in DOMAIN outs'[s] /\ outs'[s].id \in Nat
    BY <1>6, <1>7, <1>8 DEF SetupInv, SetupTypes
  <2> QED
    BY <1>1, <1>3, <1>4, <2>1, Zenon DEF SetupInv, SetupTypes, Stages
<1>10. StreamsMirrored'
  BY <1>1, <1>4, Zenon DEF SetupInv, StreamsMirrored
<1>11. TargetsSound' /\ TracksPlaced'
  BY <1>1, <1>3 DEF SetupInv, TargetsSound, TracksPlaced, Mirrors
<1>12. PidsGiven'
  BY <1>1, Zenon DEF PidsGiven
<1>13. PidsFinal'
  <2>1. \A t \in DOMAIN tracks : tracks[t].stream \in DOMAIN outs /\ tracks[t].stream \in TrackStreams
    BY Zenon DEF SetupInv, TracksPlaced, TrackStreams
  <2>2. \A t \in DOMAIN tracks : outs'[tracks[t].stream].id \in MinPid..MaxPid
    BY <1>7, <2>1, Zenon
  <2> QED
    BY <1>1, <2>2, Zenon DEF PidsFinal
<1>14. DistinctPids'
  <2> SUFFICES ASSUME NEW a \in DOMAIN outs, NEW b \in DOMAIN outs, a # b, outs'[a].id # 0
               PROVE  outs'[a].id # outs'[b].id
    BY <1>3, Zenon DEF DistinctPids
  <2>1. CASE a \in TrackStreams /\ b \in TrackStreams
    <3>1. TrackAt(a) # TrackAt(b)
      BY <1>5, <2>1, Zenon
    <3> QED
      BY <1>1, <1>5, <1>6, <2>1, <3>1, PidsAccepted
  <2>2. CASE a \in TrackStreams /\ b \notin TrackStreams
    <3>1. outs'[a].id = Assigned[TrackAt(a)] /\ TrackAt(a) \in DOMAIN tracks
      BY <1>5, <1>6, <2>2, Zenon
    <3>2. outs'[b] = outs[b] /\ b \in DOMAIN outs \ TrackStreams
      BY <1>8, <2>2, Zenon
    <3> QED
      BY <1>1, <3>1, <3>2, PidsAccepted, Zenon
  <2>3. CASE a \notin TrackStreams /\ b \in TrackStreams
    <3>1. outs'[b].id = Assigned[TrackAt(b)] /\ TrackAt(b) \in DOMAIN tracks
      BY <1>5, <1>6, <2>3, Zenon
    <3>2. outs'[a] = outs[a] /\ a \in DOMAIN outs \ TrackStreams
      BY <1>8, <2>3, Zenon
    <3> QED
      BY <1>1, <3>1, <3>2, PidsAccepted, Zenon
  <2>4. CASE a \notin TrackStreams /\ b \notin TrackStreams
    BY <1>8, <2>4, Zenon DEF SetupInv, DistinctPids
  <2> QED
    BY <2>1, <2>2, <2>3, <2>4, Zenon
<1> QED
  BY <1>9, <1>10, <1>11, <1>12, <1>13, <1>14, Zenon DEF SetupInv

\* The flags of --forced and --hi change neither stream nor language of a track.
LEMMA FlagsStep ==
  ASSUME SetupInv, ApplyFlags
  PROVE  SetupInv'
<1>1. /\ stage = "flags" /\ stage' = "ready" /\ tracks' = Flagged
      /\ UNCHANGED <<input, opt, outs, targets, max_pid>>
  BY Zenon DEF ApplyFlags
<1>2. Len(tracks) \in Nat /\ DOMAIN tracks = 1..Len(tracks)
  BY OwnDomain, Zenon DEF SetupInv, SetupTypes
<1>3. DOMAIN tracks' = DOMAIN tracks /\ tracks' = [t \in 1..Len(tracks) |-> tracks'[t]]
  BY <1>1, <1>2, ZenonT(60) DEF Flagged
<1>4. ASSUME NEW t \in DOMAIN tracks
      PROVE  /\ {"stream", "lang"} \subseteq DOMAIN tracks'[t]
             /\ tracks'[t].stream = tracks[t].stream /\ tracks'[t].lang = tracks[t].lang
  <2>1. {"stream", "lang"} \subseteq DOMAIN tracks[t]
    BY Zenon DEF SetupInv, SetupTypes
  <2>2. PICK fo, hi : tracks'[t] = [tracks[t] EXCEPT !.forced = fo, !.hi = hi]
    BY <1>1, ZenonT(60) DEF Flagged
  <2> QED
    BY <2>1, <2>2, Zenon
<1>5. OverOwn(tracks')
  BY <1>2, <1>3, OwnFunction, Zenon
<1>6. SetupTypes'
  BY <1>1, <1>3, <1>4, <1>5, Zenon DEF SetupInv, SetupTypes, Stages
<1>7. StreamsMirrored' /\ PidsGiven'
  BY <1>1, Zenon DEF SetupInv, StreamsMirrored, PidsGiven
<1>8. TargetsSound' /\ DistinctPids'
  BY <1>1, Zenon DEF SetupInv, TargetsSound, DistinctPids, Mirrors
<1>9. TracksPlaced'
  <2>1. \A t \in DOMAIN tracks' : tracks'[t].stream \in DOMAIN outs'
    BY <1>1, <1>3, <1>4, Zenon DEF SetupInv, TracksPlaced
  <2>2. \A t, u \in DOMAIN tracks' : t # u => tracks'[t].stream # tracks'[u].stream
    BY <1>3, <1>4, SMTT(60) DEF SetupInv, TracksPlaced
  <2>3. ASSUME NEW t \in DOMAIN tracks', Mirrors(tracks'[t].stream)
        PROVE  \E k \in DOMAIN targets' : /\ targets'[k].used /\ targets'[k].out = tracks'[t].stream
                                          /\ targets'[k].lang.code = tracks'[t].lang.code
    <3>1. /\ t \in DOMAIN tracks /\ tracks'[t].stream = tracks[t].stream
          /\ tracks'[t].lang = tracks[t].lang
      BY <1>3, <1>4, Zenon
    <3>2. Mirrors(tracks[t].stream)
      BY <2>3, <3>1, Zenon
    <3> QED
      BY <1>1, <3>1, <3>2 DEF SetupInv, TracksPlaced
  <2>4. \A k \in DOMAIN targets' : targets'[k].used =>
          \E t \in DOMAIN tracks' : tracks'[t].stream = targets'[k].out
    BY <1>1, <1>3, <1>4 DEF SetupInv, TracksPlaced
  <2>5. \A s : Mirrors(s)' <=> Mirrors(s)
    BY <1>1, Zenon DEF Mirrors
  <2> QED
    BY <2>1, <2>2, <2>3, <2>4, <2>5, Zenon DEF TracksPlaced
<1>10. PidsFinal'
  <2> SUFFICES ASSUME NEW t \in DOMAIN tracks
               PROVE  LET s == tracks[t].stream
                      IN  \/ outs[s].id \in {0} \cup MinPid..MaxPid
                          \/ \E k \in DOMAIN targets :
                               /\ targets[k].used /\ targets[k].out = s
                               /\ outs[s].id = targets[k].pid
    BY <1>1, <1>3, <1>4, SMTT(60) DEF PidsFinal
  <2> QED
    BY <1>1, Zenon DEF SetupInv, PidsFinal
<1> QED
  BY <1>6, <1>7, <1>8, <1>9, <1>10, Zenon DEF SetupInv

-----------------------------------------------------------------------------
(* The theorems.                                                           *)

\* Every step of the setup preserves the invariant.
LEMMA SetupStep ==
  ASSUME SetupInv, [SetupNext]_setup
  PROVE  SetupInv'
<1>1. CASE SetupNext
  <2>1. CASE input' \in Inputs /\ opt' \in Settings /\ Begin(input', opt')
    BY <2>1, Emptied, Zenon DEF Begin
  <2>2. CASE Finish
    BY <2>2, Emptied, Zenon DEF Finish, SetupInv, SetupTypes
  <2>3. CASE SetupSteps
    <3>1. CASE OpenFails \/ MirrorFails \/ ListsFail \/ BadTrack \/ TrackFails \/ PidsFail \/ FlagsFail
      BY <3>1, FailStep, ZenonT(60)
      DEF OpenFails, MirrorFails, ListsFail, BadTrack, TrackFails, PidsFail, FlagsFail
    <3>2. CASE ApplyPids
      BY <3>2, StageStep, RepidStep, Zenon
    <3>3. CASE AllMirrored \/ ListsParsed \/ TracksDone
      BY <3>3, StageStep, Zenon
    <3> QED
      BY <2>3, <3>1, <3>2, <3>3, OpenStep, MirrorStep, AddTrackStep, FlagsStep, Zenon DEF SetupSteps
  <2> QED
    BY <1>1, <2>1, <2>2, <2>3, Zenon DEF SetupNext
<1>2. CASE UNCHANGED setup
  <2>1. UNCHANGED <<stage, input, opt, outs, targets, tracks, max_pid>>
    BY <1>2, Zenon DEF setup
  <2>2. SetupTypes'
    BY <2>1, Zenon DEF SetupInv, SetupTypes, OverOwn
  <2>3. StreamsMirrored'
    BY <2>1, Zenon DEF SetupInv, StreamsMirrored, Mirrors
  <2>4. TargetsSound'
    BY <2>1, Zenon DEF SetupInv, TargetsSound, Mirrors
  <2>5. TracksPlaced'
    BY <2>1, Zenon DEF SetupInv, TracksPlaced, Mirrors
  <2>6. PidsGiven'
    BY <2>1, Zenon DEF SetupInv, PidsGiven, Mirrors
  <2>7. PidsFinal' /\ DistinctPids'
    BY <2>1, Zenon DEF SetupInv, PidsFinal, DistinctPids
  <2> QED
    BY <2>2, <2>3, <2>4, <2>5, <2>6, <2>7, Zenon DEF SetupInv
<1> QED
  BY <1>1, <1>2, Zenon

\* Streams, targets and tracks belong together in every state of the setup.
THEOREM SetupInvariant == SetupSpec => []SetupInv
<1>1. SetupInv /\ [SetupNext]_setup => SetupInv'
  BY SetupStep, Zenon
<1> QED
  BY SetupStarts, <1>1, PTL DEF SetupSpec

\* No two output streams get the same PID, whatever ctx_init preserves,
\* ctx_parse_tracks allocates or takes over and apply_custom_pids assigns.
THEOREM SetupDistinctPids == SetupSpec => []DistinctPids
<1>1. SetupInv => DistinctPids
  BY Zenon DEF SetupInv
<1> QED
  BY SetupInvariant, <1>1, PTL

\* A track owns its stream, replaces only a subtitle of its language, and the loop
\* drops the packets of exactly the replaced streams.
THEOREM SetupStreamsOwned == SetupSpec => []StreamsOwned
<1>1. ASSUME SetupInv
      PROVE  StreamsOwned
  <2>1. \A t, u \in DOMAIN tracks : t # u => tracks[t].stream # tracks[u].stream
    BY <1>1, Zenon DEF SetupInv, TracksPlaced
  <2>2. ASSUME NEW t \in DOMAIN tracks, tracks[t].stream \in DOMAIN input.streams, ~opt.preview
        PROVE  LET s == tracks[t].stream
               IN  /\ opt.overwrite /\ input.streams[s].sub
                   /\ input.streams[s].lang.code = tracks[t].lang.code
                   /\ overwrite_lang_allowed(opt.only, input.streams[s].lang)
    <3>1. PICK k \in DOMAIN targets : /\ targets[k].used /\ targets[k].out = tracks[t].stream
                                      /\ targets[k].lang.code = tracks[t].lang.code
      BY <1>1, <2>2, Zenon DEF SetupInv, TracksPlaced, Mirrors
    <3> QED
      BY <1>1, <3>1, Zenon DEF SetupInv, TargetsSound
  <2>3. ASSUME NEW t \in DOMAIN tracks
        PROVE  LET s == tracks[t].stream
               IN  \/ outs[s].id \in {0} \cup MinPid..MaxPid
                   \/ \E k \in DOMAIN targets :
                        /\ targets[k].used /\ targets[k].out = s
                        /\ outs[s].id = targets[k].pid
    <3> DEFINE s == tracks[t].stream
    <3>1. s \in DOMAIN outs
      BY <1>1, Zenon DEF SetupInv, TracksPlaced
    <3>2. CASE stage \in {"flags", "ready"}
      BY <1>1, <3>2, Zenon DEF SetupInv, PidsFinal
    <3>3. CASE stage \in {"tracks", "pids"} /\ Mirrors(s)
      <4>1. PICK k \in DOMAIN targets : targets[k].used /\ targets[k].out = s
        BY <1>1, <3>3, Zenon DEF SetupInv, TracksPlaced
      <4>2. outs[s].id = targets[k].pid
        BY <1>1, <3>3, <4>1, Zenon DEF SetupInv, PidsGiven
      <4> QED
        BY <4>1, <4>2, Zenon
    <3>4. CASE stage \in {"tracks", "pids"} /\ ~Mirrors(s)
      BY <1>1, <3>1, <3>4, Zenon DEF SetupInv, PidsGiven
    <3>5. stage \in {"tracks", "pids", "flags", "ready"}
      BY <1>1, OwnEmpty, Zenon DEF SetupInv, StreamsMirrored
    <3> QED
      BY <3>2, <3>3, <3>4, <3>5, Zenon
  <2>4. ASSUME ~opt.preview, NEW i \in DOMAIN input.streams
        PROVE  is_overwrite_stream(i) <=> \E t \in DOMAIN tracks : tracks[t].stream = i
    <3>1. ASSUME is_overwrite_stream(i)
          PROVE  \E t \in DOMAIN tracks : tracks[t].stream = i
      <4>1. PICK k \in DOMAIN targets : targets[k].used /\ targets[k].in = i
        BY <3>1, Zenon DEF is_overwrite_stream
      <4>2. targets[k].out = i
        BY <1>1, <4>1, Zenon DEF SetupInv, TargetsSound
      <4> QED
        BY <1>1, <4>1, <4>2, SMTT(60) DEF SetupInv, TracksPlaced
    <3>2. ASSUME NEW t \in DOMAIN tracks, tracks[t].stream = i
          PROVE  is_overwrite_stream(i)
      <4>1. PICK k \in DOMAIN targets : targets[k].used /\ targets[k].out = i
        BY <1>1, <2>4, <3>2, Zenon DEF SetupInv, TracksPlaced, Mirrors
      <4>2. targets[k].in = i /\ opt.overwrite
        BY <1>1, <4>1, Zenon DEF SetupInv, TargetsSound
      <4> QED
        BY <4>1, <4>2, Zenon DEF is_overwrite_stream
    <3> QED
      BY <3>1, <3>2, Zenon
  <2> QED
    BY <2>1, <2>2, <2>3, <2>4, Zenon DEF StreamsOwned
<1> QED
  BY SetupInvariant, <1>1, PTL

USE RunAssumption

-----------------------------------------------------------------------------
(* The options of a run have their types.                                  *)

LangPiece == [code : STRING, upper : BOOLEAN]

GlobalsOK(gs) ==
  /\ DOMAIN gs = DOMAIN Globals
  /\ gs.pids \in Seq(Piece) /\ gs.only \in Seq(LangPiece)
  /\ gs.ass \in BOOLEAN /\ gs.overwrite \in BOOLEAN /\ gs.preserve \in BOOLEAN
  /\ gs.png_only \in BOOLEAN

LocalsOK(ls) ==
  /\ DOMAIN ls = DOMAIN Locals
  /\ ls.input \in STRING /\ ls.output \in STRING /\ ls.qc \in BOOLEAN
  /\ ls.srt \in Seq(Piece) /\ ls.lang \in Seq(Piece)
  /\ ls.forced \in Seq(Piece) /\ ls.hi \in Seq(Piece) /\ ls.delay \in Seq(Piece)

\* What cli_parse has so far.
StateOK(s) ==
  /\ DOMAIN s = {"code", "g", "l"}
  /\ s.code \in {-1, 0, 1} /\ GlobalsOK(s.g) /\ LocalsOK(s.l)

\* An option has a name getopt_long knows, and its value is there.
LEMMA OptionParts ==
  ASSUME NEW a \in RunOption
  PROVE  /\ a.opt \in Valued \cup Plain /\ a.val \in Seq(Piece)
         /\ a.opt \in Valued => a.val[1].kind \in STRING /\ a.val[1].val \in Int
<1>1. a.opt \in Valued \cup Plain /\ a.val \in Seq(Piece) /\ (a.opt \in Valued => a.val # <<>>)
  BY Zenon DEF RunOption
<1>2. ASSUME a.opt \in Valued
      PROVE  a.val[1].kind \in STRING /\ a.val[1].val \in Int
  <2>1. Len(a.val) \in Nat /\ Len(a.val) # 0
    BY <1>1, <1>2, EmptySeq, LenProperties, Zenon
  <2>2. a.val[1] \in Piece
    BY <1>1, <2>1, ElementOfSeq
  <2> QED
    BY <2>2, Zenon DEF Piece
<1> QED
  BY <1>1, <1>2, Zenon

\* A refused option only changes the code.
LEMMA Refused1 ==
  ASSUME NEW s, StateOK(s)
  PROVE  StateOK(Refuse(s)) /\ Refuse(s).code = 1 /\ Refuse(s).g = s.g
  BY Zenon DEF Refuse, StateOK

\* Another value in the options of the run, or in the globals, that has its type.
LEMMA LocalSet ==
  ASSUME NEW s, StateOK(s), NEW ls, LocalsOK(ls)
  PROVE  StateOK([s EXCEPT !.l = ls]) /\ [s EXCEPT !.l = ls].code = s.code
  BY Zenon DEF StateOK

\* Setting a global.
LEMMA GlobalSet ==
  ASSUME NEW s, StateOK(s), NEW gs, GlobalsOK(gs)
  PROVE  StateOK([s EXCEPT !.g = gs]) /\ [s EXCEPT !.g = gs].code = s.code
  BY Zenon DEF StateOK

\* --input, --output and --srt, refused when the path is too long.
LEMMA PathRead ==
  ASSUME NEW s, StateOK(s), s.code = -1, NEW a \in RunOption, a.opt \in {"input", "output", "srt"}
  PROVE  StateOK(PathOption(s, a)) /\ PathOption(s, a).code \in {-1, 1}
<1>1. a.val \in Seq(Piece)
  BY OptionParts, Zenon
<1>2. CASE a.opt = "input"
  BY <1>2, OptionParts, Refused1, Zenon DEF PathOption, StateOK, LocalsOK, Locals, Valued
<1>3. CASE a.opt = "output"
  BY <1>3, OptionParts, Refused1, Zenon DEF PathOption, StateOK, LocalsOK, Locals, Valued
<1>4. CASE a.opt = "srt"
  BY <1>1, <1>4, Refused1, Zenon DEF PathOption, StateOK, LocalsOK, Locals
<1> QED
  BY <1>2, <1>3, <1>4, Zenon

\* The lists, and the options that end the run.
LEMMA ListRead ==
  ASSUME NEW s, StateOK(s), s.code = -1, NEW a \in RunOption,
         a.opt \in {"languages", "forced", "hi", "help", "license", "unknown"}
  PROVE  /\ StateOK(ListOption(s, a)) /\ ListOption(s, a).code \in {-1, 0}
         /\ ListOption(s, a).code = 0 => a.opt \in {"help", "license", "unknown"}
<1>1. a.val \in Seq(Piece)
  BY OptionParts, Zenon
<1>2. CASE a.opt = "languages"
  <2>1. ListOption(s, a) = [s EXCEPT !.l.lang = a.val]
    BY <1>2, Zenon DEF ListOption
  <2>2. LocalsOK([s.l EXCEPT !.lang = a.val])
    BY <1>1, Zenon DEF StateOK, LocalsOK, Locals
  <2> QED
    BY <2>1, <2>2, LocalSet DEF StateOK
<1>3. CASE a.opt = "forced"
  <2>1. ListOption(s, a) = [s EXCEPT !.l.forced = a.val]
    BY <1>3, Zenon DEF ListOption
  <2>2. LocalsOK([s.l EXCEPT !.forced = a.val])
    BY <1>1, Zenon DEF StateOK, LocalsOK, Locals
  <2> QED
    BY <2>1, <2>2, LocalSet DEF StateOK
<1>4. CASE a.opt = "hi"
  <2>1. ListOption(s, a) = [s EXCEPT !.l.hi = a.val]
    BY <1>4, Zenon DEF ListOption
  <2>2. LocalsOK([s.l EXCEPT !.hi = a.val])
    BY <1>1, Zenon DEF StateOK, LocalsOK, Locals
  <2> QED
    BY <2>1, <2>2, LocalSet DEF StateOK
<1>5. CASE a.opt \in {"help", "license", "unknown"}
  BY <1>5, Zenon DEF ListOption, StateOK
<1> QED
  BY <1>2, <1>3, <1>4, <1>5, Zenon

\* The switches.
LEMMA SwitchRead ==
  ASSUME NEW s, StateOK(s), s.code = -1, NEW a \in RunOption,
         a.opt \in {"debug", "qc-only", "bench", "palette", "ass"}
  PROVE  StateOK(SwitchOption(s, a)) /\ SwitchOption(s, a).code = -1
<1>1. CASE a.opt = "debug"
  <2>1. SwitchOption(s, a) = [s EXCEPT !.g.debug = (a.val[1].val > 0)]
    BY <1>1, Zenon DEF SwitchOption
  <2>2. GlobalsOK([s.g EXCEPT !.debug = (a.val[1].val > 0)])
    BY ZenonT(60) DEF StateOK, GlobalsOK, Globals
  <2> QED
    BY <2>1, <2>2, GlobalSet, ZenonT(60) DEF StateOK
<1>2. CASE a.opt = "qc-only"
  BY <1>2, Zenon DEF SwitchOption, StateOK, LocalsOK, Locals
<1>3. CASE a.opt = "bench"
  BY <1>3, Zenon DEF SwitchOption, StateOK, LocalsOK, Locals
<1>4. CASE a.opt = "palette"
  BY <1>4, Zenon DEF SwitchOption
<1>5. CASE a.opt = "ass"
  <2>1. SwitchOption(s, a) = [s EXCEPT !.g.ass = TRUE]
    BY <1>5, Zenon DEF SwitchOption
  <2>2. GlobalsOK([s.g EXCEPT !.ass = TRUE])
    BY ZenonT(60) DEF StateOK, GlobalsOK, Globals
  <2> QED
    BY <2>1, <2>2, GlobalSet, ZenonT(60) DEF StateOK
<1> QED
  BY <1>1, <1>2, <1>3, <1>4, <1>5, Zenon

\* Fonts and positions.
LEMMA FontRead ==
  ASSUME NEW s, StateOK(s), s.code = -1, NEW a \in RunOption,
         a.opt \in {"list-fonts", "font", "font-style", "font-size", "sub-position"}
  PROVE  /\ StateOK(FontOption(s, a))
         /\ FontOption(s, a).code = 0 => a.opt = "list-fonts"
<1>1. CASE a.opt = "list-fonts"
  BY <1>1, Zenon DEF FontOption, StateOK
<1>2. CASE a.opt \in {"font", "font-style"}
  <2>1. FontOption(s, a) = s
    BY <1>2, Zenon DEF FontOption
  <2>2. -1 # 0
    OBVIOUS
  <2> QED
    BY <2>1, <2>2, Zenon
<1>3. CASE a.opt = "font-size"
  <2>1. FontOption(s, a) \in {Refuse(s), [s EXCEPT !.l.fontsize = a.val[1].val]}
    BY <1>3, Zenon DEF FontOption
  <2>2. LocalsOK([s.l EXCEPT !.fontsize = a.val[1].val])
    BY ZenonT(60) DEF StateOK, LocalsOK, Locals
  <2>3. /\ StateOK([s EXCEPT !.l.fontsize = a.val[1].val])
        /\ [s EXCEPT !.l.fontsize = a.val[1].val].code = -1
    BY <2>2, LocalSet, ZenonT(60) DEF StateOK
  <2>4. StateOK(Refuse(s)) /\ Refuse(s).code = 1
    BY Refused1, Zenon
  <2>5. -1 # 0 /\ 1 # 0
    OBVIOUS
  <2> QED
    BY <2>1, <2>3, <2>4, <2>5, ZenonT(60)
<1>4. CASE a.opt = "sub-position"
  <2>1. FontOption(s, a) = [s EXCEPT !.g.spec = a.spec]
    BY <1>4, Zenon DEF FontOption
  <2>2. GlobalsOK([s.g EXCEPT !.spec = a.spec])
    BY ZenonT(60) DEF StateOK, GlobalsOK, Globals
  <2> QED
    BY <2>1, <2>2, GlobalSet DEF StateOK
<1> QED
  BY <1>1, <1>2, <1>3, <1>4, Zenon

\* The margins, the colours and the delay.
LEMMA MarginRead ==
  ASSUME NEW s, StateOK(s), s.code = -1, NEW a \in RunOption
  PROVE  /\ StateOK(MarginOption(s, a)) /\ MarginOption(s, a).code # 0
         /\ StateOK(ColorOption(s, a)) /\ ColorOption(s, a).code # 0
         /\ StateOK(DelayOption(s, a)) /\ DelayOption(s, a).code # 0
<1>1. StateOK(MarginOption(s, a)) /\ MarginOption(s, a).code # 0
  <2> DEFINE i == CASE a.opt = "margin-top"    -> 1
                     [] a.opt = "margin-left"   -> 2
                     [] a.opt = "margin-bottom" -> 3
                     [] a.opt = "margin-right"  -> 4
  <2>1. MarginOption(s, a) = Refuse(s) \/ MarginOption(s, a) = [s EXCEPT !.l.over[i] = a.val[1].val]
    BY Zenon DEF MarginOption
  <2> HIDE DEF i
  <2>2. LocalsOK([s.l EXCEPT !.over[i] = a.val[1].val])
    BY Zenon DEF StateOK, LocalsOK, Locals
  <2>3. /\ StateOK([s EXCEPT !.l.over[i] = a.val[1].val])
        /\ [s EXCEPT !.l.over[i] = a.val[1].val].code = -1
    BY <2>2, LocalSet, Zenon DEF StateOK
  <2>4. StateOK(Refuse(s)) /\ Refuse(s).code = 1
    BY Refused1, Zenon
  <2>5. CASE MarginOption(s, a) = Refuse(s)
    BY <2>4, <2>5
  <2>6. CASE MarginOption(s, a) = [s EXCEPT !.l.over[i] = a.val[1].val]
    BY <2>3, <2>6
  <2> QED
    BY <2>1, <2>5, <2>6, Zenon
<1>2. StateOK(ColorOption(s, a)) /\ ColorOption(s, a).code # 0
  BY Refused1 DEF ColorOption
<1>3. StateOK(DelayOption(s, a)) /\ DelayOption(s, a).code # 0
  <2>1. DelayOption(s, a) = Refuse(s) \/ DelayOption(s, a) = [s EXCEPT !.l.delay = a.val]
    BY Zenon DEF DelayOption
  <2>2. LocalsOK([s.l EXCEPT !.delay = a.val])
    BY OptionParts, Zenon DEF StateOK, LocalsOK, Locals
  <2>3. StateOK([s EXCEPT !.l.delay = a.val]) /\ [s EXCEPT !.l.delay = a.val].code = -1
    BY <2>2, LocalSet, Zenon DEF StateOK
  <2>4. StateOK(Refuse(s)) /\ Refuse(s).code = 1
    BY Refused1, Zenon
  <2>5. CASE DelayOption(s, a) = Refuse(s)
    BY <2>4, <2>5
  <2>6. CASE DelayOption(s, a) = [s EXCEPT !.l.delay = a.val]
    BY <2>3, <2>6
  <2> QED
    BY <2>1, <2>5, <2>6, Zenon
<1> QED
  BY <1>1, <1>2, <1>3, Zenon

\* Threads and rendering.
LEMMA RenderRead ==
  ASSUME NEW s, StateOK(s), s.code = -1, NEW a \in RunOption,
         a.opt \in {"enc-threads", "render-threads", "ssaa", "no-unsharp"}
  PROVE  StateOK(RenderOption(s, a)) /\ RenderOption(s, a).code = -1
<1>1. CASE a.opt = "enc-threads"
  <2>1. RenderOption(s, a) = [s EXCEPT !.g.enc = enc_threads_of(a.val[1])]
    BY <1>1, Zenon DEF RenderOption
  <2>2. GlobalsOK([s.g EXCEPT !.enc = enc_threads_of(a.val[1])])
    BY ZenonT(60) DEF StateOK, GlobalsOK, Globals
  <2> QED
    BY <2>1, <2>2, GlobalSet, ZenonT(60) DEF StateOK
<1>2. CASE a.opt = "render-threads"
  <2>1. RenderOption(s, a) = [s EXCEPT !.g.render = render_threads_of(a.val[1])]
    BY <1>2, Zenon DEF RenderOption
  <2>2. GlobalsOK([s.g EXCEPT !.render = render_threads_of(a.val[1])])
    BY ZenonT(60) DEF StateOK, GlobalsOK, Globals
  <2> QED
    BY <2>1, <2>2, GlobalSet, ZenonT(60) DEF StateOK
<1>3. CASE a.opt = "ssaa"
  <2>1. RenderOption(s, a) = [s EXCEPT !.g.ssaa = a.val[1].val]
    BY <1>3, Zenon DEF RenderOption
  <2>2. GlobalsOK([s.g EXCEPT !.ssaa = a.val[1].val])
    BY ZenonT(60) DEF StateOK, GlobalsOK, Globals
  <2> QED
    BY <2>1, <2>2, GlobalSet, ZenonT(60) DEF StateOK
<1>4. CASE a.opt = "no-unsharp"
  <2>1. RenderOption(s, a) = [s EXCEPT !.g.unsharp = FALSE]
    BY <1>4, Zenon DEF RenderOption
  <2>2. GlobalsOK([s.g EXCEPT !.unsharp = FALSE])
    BY ZenonT(60) DEF StateOK, GlobalsOK, Globals
  <2> QED
    BY <2>1, <2>2, GlobalSet, ZenonT(60) DEF StateOK
<1> QED
  BY <1>1, <1>2, <1>3, <1>4, Zenon

\* PNGs, PIDs and the muxrate.
LEMMA OutputRead ==
  ASSUME NEW s, StateOK(s), s.code = -1, NEW a \in RunOption,
         a.opt \in {"png-dir", "pid", "ts-bitrate", "png-only"}
  PROVE  StateOK(OutputOption(s, a)) /\ OutputOption(s, a).code # 0
<1>0. StateOK(Refuse(s)) /\ Refuse(s).code = 1 /\ -1 # 0 /\ 1 # 0
  BY Refused1
<1>1. CASE a.opt = "png-dir"
  <2> DEFINE p == init_png_path(s.g.png, a.val[1].kind).png
  <2>1. OutputOption(s, a) \in {Refuse(s), [s EXCEPT !.g.png = p]}
    BY <1>1, Zenon DEF OutputOption
  <2> HIDE DEF p
  <2>2. GlobalsOK([s.g EXCEPT !.png = p])
    BY ZenonT(60) DEF StateOK, GlobalsOK, Globals
  <2>3. StateOK([s EXCEPT !.g.png = p]) /\ [s EXCEPT !.g.png = p].code = -1
    BY <2>2, GlobalSet, ZenonT(60) DEF StateOK
  <2> QED
    BY <1>0, <2>1, <2>3, ZenonT(60)
<1>2. CASE a.opt = "pid"
  <2>1. OutputOption(s, a) = [s EXCEPT !.g.pids = a.val]
    BY <1>2, Zenon DEF OutputOption
  <2>2. GlobalsOK([s.g EXCEPT !.pids = a.val])
    BY OptionParts, ZenonT(60) DEF StateOK, GlobalsOK, Globals
  <2>3. StateOK([s EXCEPT !.g.pids = a.val]) /\ [s EXCEPT !.g.pids = a.val].code = -1
    BY <2>2, GlobalSet, ZenonT(60) DEF StateOK
  <2> QED
    BY <1>0, <2>1, <2>3, ZenonT(60)
<1>3. CASE a.opt = "ts-bitrate"
  <2> DEFINE v == a.val[1].val
             auto == [s EXCEPT !.g.mode = "auto"]
             fixed == [s EXCEPT !.g.mode = "fixed", !.g.rate = v]
  <2>1. OutputOption(s, a) \in {Refuse(s), auto, fixed}
    BY <1>3, Zenon DEF OutputOption
  <2> HIDE DEF v
  <2>2. GlobalsOK([s.g EXCEPT !.mode = "auto"])
    BY ZenonT(60) DEF StateOK, GlobalsOK, Globals
  <2>3. StateOK(auto) /\ auto.code = -1
    BY <2>2, GlobalSet, ZenonT(60) DEF StateOK
  <2>4. GlobalsOK([s.g EXCEPT !.mode = "fixed", !.rate = v])
    BY ZenonT(60) DEF StateOK, GlobalsOK, Globals
  <2>5. StateOK(fixed) /\ fixed.code = -1
    BY <2>4, GlobalSet, ZenonT(60) DEF StateOK
  <2> HIDE DEF auto, fixed
  <2> QED
    BY <1>0, <2>1, <2>3, <2>5, ZenonT(60)
<1>4. CASE a.opt = "png-only"
  <2>1. OutputOption(s, a) = [s EXCEPT !.g.png_only = TRUE]
    BY <1>4, Zenon DEF OutputOption
  <2>2. GlobalsOK([s.g EXCEPT !.png_only = TRUE])
    BY Zenon DEF StateOK, GlobalsOK, Globals
  <2> QED
    BY <2>1, <2>2, GlobalSet DEF StateOK
<1> QED
  BY <1>1, <1>2, <1>3, <1>4, Zenon

\* A list of pieces read as languages.
LEMMA LangsTyped ==
  ASSUME NEW s \in Seq(Piece)
  PROVE  LangsOf(s) \in Seq(LangPiece)
<1>1. Len(s) \in Nat /\ DOMAIN s = 1..Len(s)
  BY LenProperties, Zenon
<1>2. ASSUME NEW i \in 1..Len(s)
      PROVE  LangsOf(s)[i] \in LangPiece
  <2>1. s[i] \in Piece
    BY <1>1, <1>2, ElementOfSeq, Zenon
  <2>2. s[i].kind \in STRING
    BY <2>1, Zenon DEF Piece
  <2>3. LangsOf(s)[i] = [code |-> IF s[i].kind = "empty" THEN "" ELSE s[i].kind,
                         upper |-> s[i].val = 1]
    BY <1>1, Zenon DEF LangsOf
  <2> DEFINE c == IF s[i].kind = "empty" THEN "" ELSE s[i].kind
             up == s[i].val = 1
  <2>4. c \in STRING
    <3>1. "" \in STRING
      BY NoName, Zenon
    <3> QED
      BY <2>2, <3>1, ZenonT(30)
  <2>5. up \in BOOLEAN
    BY Zenon
  <2>6. LangsOf(s)[i] = [code |-> c, upper |-> up]
    BY <2>3, Zenon
  <2> HIDE DEF c, up
  <2> QED
    BY <2>4, <2>5, <2>6 DEF LangPiece
<1>3. LangsOf(s) = [i \in 1..Len(s) |-> LangsOf(s)[i]]
  BY <1>1, Zenon DEF LangsOf
<1>4. LangsOf(s) \in [1..Len(s) -> LangPiece]
  BY <1>2, <1>3, Zenon
<1> QED
  BY <1>1, <1>4, SeqDef, Zenon

\* --overwrite with its filter, and --no-preserve-pids.
LEMMA OverwriteRead ==
  ASSUME NEW s, StateOK(s), s.code = -1, NEW a \in RunOption,
         a.opt \in {"overwrite", "no-preserve-pids"}
  PROVE  StateOK(OverwriteOption(s, a)) /\ OverwriteOption(s, a).code # 0
<1>1. CASE a.opt = "no-preserve-pids"
  <2>1. OverwriteOption(s, a) = [s EXCEPT !.g.preserve = FALSE]
    BY <1>1, Zenon DEF OverwriteOption
  <2>2. GlobalsOK([s.g EXCEPT !.preserve = FALSE])
    BY Zenon DEF StateOK, GlobalsOK, Globals
  <2> QED
    BY <2>1, <2>2, GlobalSet DEF StateOK
<1>2. CASE a.opt = "overwrite"
  <2> DEFINE t == [s EXCEPT !.g.overwrite = TRUE]
  <2>1. StateOK(t) /\ t.code = -1
    BY ZenonT(60) DEF StateOK, GlobalsOK, Globals
  <2>2. LangsOf(a.val) \in Seq(LangPiece) /\ <<>> \in Seq(LangPiece)
    BY LangsTyped, OptionParts, EmptySeq, Zenon
  <2>3. OverwriteOption(s, a) \in {Refuse(t), [t EXCEPT !.g.only = <<>>],
                                   [t EXCEPT !.g.only = LangsOf(a.val)]}
    BY <1>2, Zenon DEF OverwriteOption
  <2> HIDE DEF t
  <2>4. StateOK([t EXCEPT !.g.only = <<>>]) /\ [t EXCEPT !.g.only = <<>>].code = -1
    BY <2>1, <2>2, ZenonT(60) DEF StateOK, GlobalsOK, Globals
  <2>5. /\ StateOK([t EXCEPT !.g.only = LangsOf(a.val)])
        /\ [t EXCEPT !.g.only = LangsOf(a.val)].code = -1
    BY <2>1, <2>2, ZenonT(60) DEF StateOK, GlobalsOK, Globals
  <2>6. StateOK(Refuse(t)) /\ Refuse(t).code = 1
    BY <2>1, Refused1, Zenon
  <2>7. CASE OverwriteOption(s, a) = Refuse(t)
    BY <2>6, <2>7
  <2>8. CASE OverwriteOption(s, a) = [t EXCEPT !.g.only = <<>>]
    BY <2>4, <2>8
  <2>9. CASE OverwriteOption(s, a) = [t EXCEPT !.g.only = LangsOf(a.val)]
    BY <2>5, <2>9
  <2> QED
    BY <2>3, <2>7, <2>8, <2>9, Zenon
<1> QED
  BY <1>1, <1>2, Zenon

\* An option leaves globals and options with their types, and only an option that
\* prints something ends the run with 0.
LEMMA OptionRead ==
  ASSUME NEW s, StateOK(s), s.code = -1, NEW a \in RunOption
  PROVE  /\ StateOK(ParseOption(s, a))
         /\ ParseOption(s, a).code = 0 => a.opt \in {"help", "license", "list-fonts", "unknown"}
<1>1. CASE a.opt \in {"input", "output", "srt"}
  BY <1>1, PathRead DEF ParseOption
<1>2. CASE a.opt \in {"languages", "forced", "hi", "help", "license", "unknown"}
  BY <1>2, ListRead, Zenon DEF ParseOption
<1>3. CASE a.opt \in {"debug", "qc-only", "bench", "palette", "ass"}
  BY <1>3, SwitchRead DEF ParseOption
<1>4. CASE a.opt \in {"list-fonts", "font", "font-style", "font-size", "sub-position"}
  BY <1>4, FontRead, Zenon DEF ParseOption
<1>5. CASE a.opt \in {"margin-top", "margin-left", "margin-bottom", "margin-right"}
  BY <1>5, MarginRead, Zenon DEF ParseOption
<1>6. CASE a.opt \in {"color", "delay"}
  BY <1>6, MarginRead, Zenon DEF ParseOption
<1>7. CASE a.opt \in {"enc-threads", "render-threads", "ssaa", "no-unsharp"}
  BY <1>7, RenderRead DEF ParseOption
<1>8. CASE a.opt \in {"png-dir", "pid", "ts-bitrate", "png-only"}
  BY <1>8, OutputRead, Zenon DEF ParseOption
<1>9. CASE a.opt \in {"overwrite", "no-preserve-pids"}
  BY <1>9, OverwriteRead, Zenon DEF ParseOption
<1>10. CASE a.opt = "argument"
  BY <1>10 DEF ParseOption
<1>11. a.opt \in Valued \cup Plain
  BY OptionParts, Zenon
<1> QED
  BY <1>1, <1>2, <1>3, <1>4, <1>5, <1>6, <1>7, <1>8, <1>9, <1>10, <1>11 DEF Valued, Plain

-----------------------------------------------------------------------------
(* The invariant of a run.                                                 *)

\* The options of the run have their types.
OptionsInv ==
  /\ GlobalsOK(g) /\ LocalsOK(l)
  /\ args \in Seq(RunOption) /\ optind \in Nat \ {0}

\* The phases with an empty context, and those with one that is set up.
Empty == {"none", "cli", "parsed", "font", "pool", "hung", "arm", "qc", "preview", "setup", "over"}
Ready == {"render", "output", "header", "loop", "trailer"}

\* The stages of a context that is being set up.
Building == {"open", "mirror", "lists", "tracks", "pids", "flags"}

HeldBy(h, n) == \A r \in h : r[1] \in 0..n

\* The run and the context agree where they are; what is held belongs to the context or
\* to a track that ctx_cleanup counts.
LinkInv ==
  /\ phase \in Empty \cup {"building"} \cup Ready
  /\ phase \in Empty => stage \in {"idle", "failed"} /\ held = {}
  /\ phase = "building" => stage \in Building
  /\ phase \in Ready => stage = "ready"
  /\ pool \in BOOLEAN
  /\ phase \in {"none", "cli", "parsed", "font", "pool", "over"} => ~pool
  /\ counted = Len(tracks)
  /\ HeldBy(held, counted)

\* What each phase needs of the options.
ModeInv ==
  /\ phase \notin {"none", "cli", "over"} =>
       l.qc \/ g.png_only \/ (l.input # "" /\ l.output # "")
  /\ phase = "qc" => l.qc
  /\ phase = "preview" => g.png_only
  /\ phase \in {"preview", "setup", "building"} \cup Ready => ~l.qc
  /\ phase = "building" /\ opt.preview => g.png_only
  /\ phase = "render" => g.png_only

\* How far the output file is.
FileInv ==
  /\ DOMAIN file = {"state", "rate"}
  /\ phase \notin {"header", "loop", "trailer", "over"} => file.state = "none"
  /\ phase = "header" => file.state = IF g.png_only THEN "none" ELSE "created"
  /\ phase = "loop" => file.state = IF g.png_only THEN "none" ELSE "headed"
  /\ phase = "trailer" => IF g.png_only THEN file.state = "none"
                          ELSE file.state \in {"written", "cut"}
  /\ file.state = "cut" => stop

\* What --qc-only has counted, and the calls that failed.
CountInv ==
  /\ DOMAIN qc = {"checked", "bad", "errors"}
  /\ qc.checked \in Nat /\ qc.bad \in Nat /\ qc.errors \in Nat /\ qc.errors >= qc.bad
  /\ phase \notin {"qc", "over"} => qc.checked = 0
  /\ faults \in Nat /\ mishaps \in Nat

WorkInv == ModeInv /\ FileInv /\ CountInv /\ StatusTruthful


-----------------------------------------------------------------------------
(* The options keep their types.                                           *)

\* First picks a member of a nonempty set of natural numbers.
LEMMA FirstIn ==
  ASSUME NEW S, S \subseteq Nat, S # {}
  PROVE  First(S) \in S
  BY Smallest, Zenon DEF First

\* "-srt x" is corrected to a path, or refused.
LEMMA Corrected ==
  ASSUME NEW s, StateOK(s), s.code = -1, NEW line \in Seq(RunOption)
  PROVE  StateOK(Autocorrected(s, line)) /\ Autocorrected(s, line).code \in {-1, 1}
<1> DEFINE rest == {i \in DOMAIN line : line[i].opt = "argument"}
<1>1. CASE ~(s.l.srt = <<Word("rt")>> /\ rest # {})
  <2>1. Autocorrected(s, line) = s
    BY <1>1, Zenon DEF Autocorrected
  <2> QED
    BY <2>1, Zenon
<1>2. CASE s.l.srt = <<Word("rt")>> /\ rest # {}
  <2>1. Len(line) \in Nat /\ DOMAIN line = 1..Len(line)
    BY LenProperties, Zenon
  <2>2. rest \subseteq 1..Len(line) /\ rest \subseteq Nat
    BY <2>1
  <2>3. First(rest) \in rest
    BY <1>2, <2>2, FirstIn, Zenon
  <2> DEFINE a == line[First(rest)]
             b == [a EXCEPT !.opt = "srt"]
  <2>4. a \in RunOption
    BY <2>1, <2>2, <2>3, ElementOfSeq, Zenon
  <2> HIDE DEF a
  <2>5. b \in RunOption /\ b.opt = "srt"
    BY <2>4, Zenon DEF RunOption, Valued, Plain
  <2>6. Autocorrected(s, line) = PathOption(s, b)
    BY <1>2, Zenon DEF Autocorrected, a
  <2> HIDE DEF b
  <2> QED
    BY <2>5, <2>6, PathRead, Zenon
<1> QED
  BY <1>1, <1>2, Zenon

\* The options that are checked keep their types; those that pass are complete.
LEMMA CheckedRead ==
  ASSUME NEW s, StateOK(s), s.code = -1, NEW line \in Seq(RunOption)
  PROVE  /\ StateOK(Checked(s, line)) /\ Checked(s, line).code \in {-1, 1}
         /\ Checked(s, line).code = -1 => Required(Checked(s, line))
<1> DEFINE r == Autocorrected(s, line)
<1>1. StateOK(r) /\ r.code \in {-1, 1}
  BY Corrected, Zenon
<1>2. Checked(s, line) = IF r.code = -1 /\ ~Required(r) THEN Refuse(r) ELSE r
  BY Zenon DEF Checked
<1> HIDE DEF r
<1>3. StateOK(Refuse(r)) /\ Refuse(r).code = 1
  BY <1>1, Refused1, Zenon
<1>4. CASE r.code = -1 /\ ~Required(r)
  <2>1. Checked(s, line) = Refuse(r)
    BY <1>2, <1>4, Zenon
  <2> QED
    BY <1>3, <2>1
<1>5. CASE ~(r.code = -1 /\ ~Required(r))
  <2>1. Checked(s, line) = r
    BY <1>2, <1>5, Zenon
  <2> QED
    BY <1>1, <1>5, <2>1, Zenon
<1> QED
  BY <1>4, <1>5, Zenon

\* What cli_parse has so far.
LEMMA SofarOK ==
  ASSUME OptionsInv
  PROVE  StateOK(Sofar) /\ Sofar.code = -1 /\ Sofar.g = g /\ Sofar.l = l
  BY Zenon DEF OptionsInv, StateOK, Sofar

\* Cleaning up frees the list of --overwrite and leaves the other globals.
LEMMA FreedOK ==
  ASSUME NEW gs, GlobalsOK(gs)
  PROVE  GlobalsOK(Freed(gs)) /\ Freed(gs).png_only = gs.png_only
<1>1. <<>> \in Seq(LangPiece)
  BY EmptySeq, Zenon
<1> QED
  BY <1>1, Zenon DEF Freed, GlobalsOK, Globals

\* The size of the video.
LEMMA SizedOK ==
  ASSUME NEW gs, GlobalsOK(gs), NEW in
  PROVE  GlobalsOK(Sized(gs, in)) /\ Sized(gs, in).png_only = gs.png_only
<1>1. GlobalsOK([gs EXCEPT !.video = in.height]) /\ [gs EXCEPT !.video = in.height].png_only = gs.png_only
  BY Zenon DEF GlobalsOK, Globals
<1>2. CASE in.height > 0
  BY <1>1, <1>2, Zenon DEF Sized
<1>3. CASE ~(in.height > 0)
  BY <1>3, Zenon DEF Sized
<1> QED
  BY <1>2, <1>3, Zenon

\* The globals after a step of the setup.
LEMMA AfterSetupOK ==
  ASSUME GlobalsOK(g)
  PROVE  GlobalsOK(AfterSetup) /\ AfterSetup.png_only = g.png_only
<1>1. GlobalsOK(Sized(g, input)) /\ Sized(g, input).png_only = g.png_only
  BY SizedOK, Zenon
<1>2. GlobalsOK(AssKept(g)) /\ AssKept(g).png_only = g.png_only
  <2> DEFINE used == g.ass /\ \E t \in DOMAIN tracks : tracks[t].ass
  <2>1. used \in BOOLEAN
    BY Zenon
  <2>2. AssKept(g) = [g EXCEPT !.ass = used]
    BY Zenon DEF AssKept
  <2> HIDE DEF used
  <2> QED
    BY <2>1, <2>2, Zenon DEF GlobalsOK, Globals
<1>3. AfterSetup = Sized(g, input) \/ AfterSetup = AssKept(g) \/ AfterSetup = g
  BY Zenon DEF AfterSetup
<1> QED
  BY <1>1, <1>2, <1>3, Zenon

\* The globals that no type above is about.
LEMMA OthersOK ==
  ASSUME NEW gs, GlobalsOK(gs), NEW v
  PROVE  /\ GlobalsOK([gs EXCEPT !.configs = v]) /\ [gs EXCEPT !.configs = v].png_only = gs.png_only
         /\ GlobalsOK([gs EXCEPT !.render = v]) /\ [gs EXCEPT !.render = v].png_only = gs.png_only
         /\ GlobalsOK([gs EXCEPT !.png = v]) /\ [gs EXCEPT !.png = v].png_only = gs.png_only
<1>1. GlobalsOK([gs EXCEPT !.configs = v]) /\ [gs EXCEPT !.configs = v].png_only = gs.png_only
  BY Zenon DEF GlobalsOK, Globals
<1>2. GlobalsOK([gs EXCEPT !.render = v]) /\ [gs EXCEPT !.render = v].png_only = gs.png_only
  BY Zenon DEF GlobalsOK, Globals
<1>3. GlobalsOK([gs EXCEPT !.png = v]) /\ [gs EXCEPT !.png = v].png_only = gs.png_only
  BY DEF GlobalsOK, Globals
<1> QED
  BY <1>1, <1>2, <1>3, Zenon

\* After cli_parse a run keeps its options; the globals keep their types and --png-only.
LEMMA Later ==
  ASSUME GlobalsOK(g), NEW in, RunSteps(in), phase # "cli"
  PROVE  /\ GlobalsOK(g') /\ g'.png_only = g.png_only
         /\ UNCHANGED <<args, optind, l, disk, stop>>
<1> DEFINE Goal == /\ GlobalsOK(g') /\ g'.png_only = g.png_only
                   /\ UNCHANGED <<args, optind, l, disk, stop>>
           Same == g' = g /\ UNCHANGED <<args, optind, l, disk, stop>>
           Ended == g' = Freed(g) /\ UNCHANGED <<args, optind, l, disk, stop>>
<1>0. Same \/ Ended => Goal
  BY FreedOK, Zenon
<1>1. ~ParseArg /\ ~CheckArgs /\ ~CliFails
  BY Zenon DEF ParseArg, CheckArgs, CliFails
<1>2. CASE Position
  <2>1. UNCHANGED <<args, optind, l, disk, stop>>
    BY <1>2, Zenon DEF Position, Unfed
  <2> DEFINE v == Overridden(parse_subtitle_positions(g.spec).configs, l.over)
  <2>2. g' = Freed(g) \/ g' = [g EXCEPT !.configs = v]
    BY <1>2, Zenon DEF Position, Over
  <2> HIDE DEF v
  <2>3. GlobalsOK([g EXCEPT !.configs = v]) /\ [g EXCEPT !.configs = v].png_only = g.png_only
    BY OthersOK, Zenon
  <2>4. GlobalsOK(Freed(g)) /\ Freed(g).png_only = g.png_only
    BY FreedOK, Zenon
  <2> QED
    BY <2>1, <2>2, <2>3, <2>4, Zenon
<1>3. CASE ResolveFont
  BY <1>0, <1>3, Zenon DEF ResolveFont, Unfed, Over
<1>4. CASE StartPool
  <2>1. UNCHANGED <<args, optind, l, disk, stop>>
    BY <1>4, Zenon DEF StartPool, Unfed
  <2>2. g' = g \/ g' = [g EXCEPT !.render = 0]
    BY <1>4, Zenon DEF StartPool
  <2>3. GlobalsOK([g EXCEPT !.render = 0]) /\ [g EXCEPT !.render = 0].png_only = g.png_only
    BY OthersOK, Zenon
  <2> QED
    BY <2>1, <2>2, <2>3, Zenon
<1>5. CASE Arm
  <2>1. UNCHANGED <<args, optind, l, disk, stop>>
    BY <1>5, Zenon DEF Arm, Unfed
  <2> DEFINE v == init_png_path(g.png, "").png
  <2>2. g' = g \/ g' = [g EXCEPT !.png = v]
    BY <1>5, Zenon DEF Arm
  <2> HIDE DEF v
  <2>3. GlobalsOK([g EXCEPT !.png = v]) /\ [g EXCEPT !.png = v].png_only = g.png_only
    BY OthersOK, Zenon
  <2> QED
    BY <2>1, <2>2, <2>3, Zenon
<1>6. CASE QcFails \/ QcFile \/ QcDone
  BY <1>0, <1>6, Zenon DEF QcFails, QcFile, QcDone, Unfed, Over
<1>7. CASE BeginPreview(in)
  <2>1. UNCHANGED <<args, optind, l, disk, stop>>
    BY <1>7, Zenon DEF BeginPreview, Unfed
  <2>2. g' = Sized([g EXCEPT !.png = PngReady.png], in)
    BY <1>7, Zenon DEF BeginPreview
  <2>3. GlobalsOK([g EXCEPT !.png = PngReady.png]) /\ [g EXCEPT !.png = PngReady.png].png_only = g.png_only
    BY OthersOK, Zenon
  <2> QED
    BY <2>1, <2>2, <2>3, SizedOK, Zenon
<1>8. CASE PreviewFails(in) \/ BeginSetup(in)
  BY <1>0, <1>8, Zenon DEF PreviewFails, BeginSetup, Unfed, Over
<1>9. CASE Build
  <2>1. UNCHANGED <<args, optind, l, disk, stop>>
    BY <1>9, Zenon DEF Build, Unfed
  <2>2. g' = Freed(AfterSetup) \/ g' = AfterSetup
    BY <1>9, Zenon DEF Build, Over
  <2>3. GlobalsOK(AfterSetup) /\ AfterSetup.png_only = g.png_only
    BY AfterSetupOK, Zenon
  <2>4. GlobalsOK(Freed(AfterSetup)) /\ Freed(AfterSetup).png_only = g.png_only
    BY <2>3, FreedOK, Zenon
  <2> QED
    BY <2>1, <2>2, <2>3, <2>4, Zenon
<1>10. CASE RenderPngs \/ OpenOutput \/ WriteHeader \/ Loop \/ WriteTrailer
  <2>1. UNCHANGED <<args, optind, l, disk, stop>>
    BY <1>10, Zenon DEF RenderPngs, OpenOutput, WriteHeader, Loop, WriteTrailer, Unfed
  <2>2. g' = g \/ g' = Freed(g)
    BY <1>10, Zenon
    DEF RenderPngs, OpenOutput, WriteHeader, HeaderFails, Loop, WriteTrailer, End, Over
  <2>3. GlobalsOK(Freed(g)) /\ Freed(g).png_only = g.png_only
    BY FreedOK, Zenon
  <2> QED
    BY <2>1, <2>2, <2>3, Zenon
<1> QED
  BY <1>1, <1>2, <1>3, <1>4, <1>5, <1>6, <1>7, <1>8, <1>9, <1>10, Zenon DEF RunSteps

\* A step of cli_parse gives the options their types, and tells in the code of the run
\* how it ended.
LEMMA CliStep ==
  ASSUME OptionsInv, ParseArg \/ CheckArgs \/ CliFails
  PROVE  /\ OptionsInv' /\ phase = "cli" /\ UNCHANGED <<setup, args, armed, stop, file, qc>>
         /\ mishaps' = mishaps \/ Mishap
         /\ \/ phase' = "cli" /\ UNCHANGED <<pool, status>>
            \/ /\ phase' = "parsed" /\ UNCHANGED <<pool, status>>
               /\ l'.qc \/ g'.png_only \/ (l'.input # "" /\ l'.output # "")
            \/ /\ phase' = "over" /\ pool' = FALSE
               /\ status' = 0 => Informs'
<1>1. StateOK(Sofar) /\ Sofar.code = -1 /\ Sofar.g = g /\ Sofar.l = l
  BY SofarOK, Zenon
<1>2. args \in Seq(RunOption) /\ optind \in Nat \ {0} /\ Len(args) \in Nat /\ DOMAIN args = 1..Len(args)
  BY LenProperties, Zenon DEF OptionsInv
<1>3. CASE ParseArg
  <2> DEFINE r == ParseOption(Sofar, args[optind])
  <2>1. phase = "cli" /\ optind <= Len(args) /\ Parsed(r, "cli") /\ optind' = optind + 1
        /\ UNCHANGED <<setup, args, disk, armed, stop, file, qc, mishaps>>
    BY <1>3, Zenon DEF ParseArg
  <2>2. optind \in 1..Len(args) /\ args[optind] \in RunOption
    BY <1>2, <2>1, ElementOfSeq
  <2>3. StateOK(r) /\ (r.code = 0 => args[optind].opt \in {"help", "license", "list-fonts", "unknown"})
    BY <1>1, <2>2, OptionRead, Zenon
  <2> HIDE DEF r
  <2>4. l' = r.l /\ (g' = r.g \/ g' = Freed(r.g))
    BY <2>1, Zenon DEF Parsed, Over
  <2>5. OptionsInv'
    <3>1. GlobalsOK(r.g) /\ LocalsOK(r.l)
      BY <2>3, Zenon DEF StateOK
    <3>2. GlobalsOK(g') /\ LocalsOK(l')
      BY <2>4, <3>1, FreedOK, Zenon
    <3>3. optind' \in Nat \ {0}
      BY <1>2, <2>1
    <3> QED
      BY <1>2, <2>1, <3>2, <3>3, Zenon DEF OptionsInv
  <2>6. r.code \in {-1, 0, 1}
    BY <2>3, Zenon DEF StateOK
  <2>7. CASE r.code = -1
    <3>1. phase' = "cli" /\ UNCHANGED <<pool, status>>
      BY <2>1, <2>7 DEF Parsed
    <3> QED
      BY <2>1, <2>5, <3>1, Zenon
  <2>8. CASE r.code \in {0, 1}
    <3>1. phase' = "over" /\ pool' = FALSE /\ status' = r.code
      BY <2>1, <2>8 DEF Parsed, Over
    <3>2. r.code = 0 => Informs'
      BY <1>2, <2>1, <2>2, <2>3, Zenon DEF Informs
    <3> QED
      BY <2>1, <2>5, <3>1, <3>2, Zenon
  <2> QED
    BY <2>6, <2>7, <2>8, Zenon
<1>4. CASE CheckArgs
  <2> DEFINE r == Checked(Sofar, args)
  <2>1. phase = "cli" /\ Parsed(r, "parsed")
        /\ UNCHANGED <<setup, args, optind, disk, armed, stop, file, qc, mishaps>>
    BY <1>4, Zenon DEF CheckArgs
  <2>2. StateOK(r) /\ r.code \in {-1, 1} /\ (r.code = -1 => Required(r))
    BY <1>1, <1>2, CheckedRead, Zenon
  <2> HIDE DEF r
  <2>3. l' = r.l /\ (g' = r.g \/ g' = Freed(r.g))
    BY <2>1, Zenon DEF Parsed, Over
  <2>4. OptionsInv'
    <3>1. GlobalsOK(r.g) /\ LocalsOK(r.l)
      BY <2>2, Zenon DEF StateOK
    <3>2. GlobalsOK(g') /\ LocalsOK(l')
      BY <2>3, <3>1, FreedOK, Zenon
    <3> QED
      BY <1>2, <2>1, <3>2, Zenon DEF OptionsInv
  <2>5. CASE r.code = -1
    <3>1. phase' = "parsed" /\ g' = r.g /\ UNCHANGED <<pool, status>>
      BY <2>1, <2>5 DEF Parsed
    <3>2. l'.qc \/ g'.png_only \/ (l'.input # "" /\ l'.output # "")
      BY <2>2, <2>3, <2>5, <3>1, Zenon DEF Required
    <3> QED
      BY <2>1, <2>4, <3>1, <3>2, Zenon
  <2>6. CASE r.code = 1
    <3>1. phase' = "over" /\ pool' = FALSE /\ status' = 1
      BY <2>1, <2>6 DEF Parsed, Over
    <3> QED
      BY <2>1, <2>4, <3>1
  <2> QED
    BY <2>2, <2>5, <2>6, Zenon
<1>5. CASE CliFails
  <2>1. /\ phase = "cli" /\ phase' = "over" /\ pool' = FALSE /\ status' = 1 /\ g' = Freed(g) /\ Mishap
        /\ UNCHANGED <<setup, args, optind, l, armed, stop, file, qc>>
    BY <1>5, Zenon DEF CliFails, Over, Unfed
  <2>2. OptionsInv'
    BY <2>1, FreedOK, Zenon DEF OptionsInv
  <2>3. status' # 0
    BY <2>1
  <2> QED
    BY <2>1, <2>2, <2>3, Zenon
<1> QED
  BY <1>3, <1>4, <1>5, Zenon

\* Every step of a run keeps the types of the options.
LEMMA RunOptionsStep ==
  ASSUME OptionsInv, NEW in, RunSteps(in)
  PROVE  OptionsInv'
<1>1. CASE phase # "cli"
  BY <1>1, Later, Zenon DEF OptionsInv
<1>2. CASE phase = "cli"
  <2>1. ParseArg \/ CheckArgs \/ CliFails
    BY <1>2, Zenon
    DEF RunSteps, Position, ResolveFont, StartPool, Arm, QcFails, QcFile, QcDone, BeginPreview,
                PreviewFails, BeginSetup, Build, RenderPngs, OpenOutput, WriteHeader, Loop, WriteTrailer
  <2> QED
    BY <2>1, CliStep, Zenon
<1> QED
  BY <1>1, <1>2, Zenon

\* A run begins with the options of its command line and none of the last.
LEMMA BeginOptions ==
  ASSUME OptionsInv, NEW line \in Seq(RunOption), RunCli(line)
  PROVE  OptionsInv'
<1>1. LocalsOK(Locals)
  <2>1. "" \in STRING
    BY NoName, Zenon
  <2>2. <<>> \in Seq(Piece)
    BY EmptySeq, Zenon
  <2> QED
    BY <2>1, <2>2, Zenon DEF LocalsOK, Locals
<1> QED
  BY <1>1 DEF OptionsInv, RunCli, FirstOption

\* The options at the start.
LEMMA OptionsStart ==
  ASSUME RunInit
  PROVE  OptionsInv
<1>1. GlobalsOK(Globals)
  <2>1. <<>> \in Seq(Piece) /\ <<>> \in Seq(LangPiece)
    BY EmptySeq, Zenon
  <2> QED
    BY <2>1, Zenon DEF GlobalsOK, Globals
<1>2. LocalsOK(Locals)
  <2>1. "" \in STRING
    BY NoName, Zenon
  <2>2. <<>> \in Seq(Piece)
    BY EmptySeq, Zenon
  <2> QED
    BY <2>1, <2>2, Zenon DEF LocalsOK, Locals
<1>3. <<>> \in Seq(RunOption)
  BY EmptySeq, Zenon
<1> QED
  BY <1>1, <1>2, <1>3 DEF OptionsInv, RunInit

\* Files named by a list of pieces.
LEMMA FilesTyped ==
  ASSUME NEW s \in Seq(Piece)
  PROVE  FilesOf(s) \in Seq(File)
<1>1. Len(s) \in Nat /\ DOMAIN s = 1..Len(s)
  BY LenProperties, Zenon
<1>2. ASSUME NEW i \in 1..Len(s)
      PROVE  FilesOf(s)[i] \in File
  <2>1. s[i] \in Piece
    BY <1>1, <1>2, ElementOfSeq, Zenon
  <2>2. s[i].kind \in STRING
    BY <2>1, Zenon DEF Piece
  <2> DEFINE n == IF s[i].kind = "empty" THEN "" ELSE s[i].kind
             good == s[i].kind \in GoodFiles
             ass == s[i].kind \in AssFiles
  <2>3. n \in STRING
    <3>1. "" \in STRING
      BY NoName, Zenon
    <3> QED
      BY <2>2, <3>1, ZenonT(30)
  <2>4. good \in BOOLEAN /\ ass \in BOOLEAN
    OBVIOUS
  <2>5. FilesOf(s)[i] = [name |-> n, good |-> good, ass |-> ass]
    BY <1>1, Zenon DEF FilesOf
  <2> HIDE DEF n, good, ass
  <2> QED
    BY <2>3, <2>4, <2>5 DEF File
<1>3. FilesOf(s) = [i \in 1..Len(s) |-> FilesOf(s)[i]]
  BY <1>1, Zenon DEF FilesOf
<1>4. FilesOf(s) \in [1..Len(s) -> File]
  BY <1>2, <1>3, Zenon
<1> QED
  BY <1>1, <1>4, SeqDef, Zenon

\* What the run hands to the setup is what TrackSetup takes.
LEMMA OptionsTyped ==
  ASSUME OptionsInv
  PROVE  Options \in Settings
<1>1. FilesOf(l.srt) \in Seq(File) /\ LangsOf(l.lang) \in Seq(LangPiece)
  BY FilesTyped, LangsTyped, Zenon DEF OptionsInv, LocalsOK
<1>2. (phase = "preview") \in BOOLEAN
  BY Zenon
<1>3. /\ g.pids \in Seq(Piece) /\ l.forced \in Seq(Piece) /\ l.hi \in Seq(Piece) /\ l.delay \in Seq(Piece)
      /\ g.preserve \in BOOLEAN /\ g.overwrite \in BOOLEAN /\ g.only \in Seq(LangPiece) /\ g.ass \in BOOLEAN
  BY Zenon DEF OptionsInv, GlobalsOK, LocalsOK
<1> DEFINE srt == FilesOf(l.srt)
           lang == LangsOf(l.lang)
           pre == phase = "preview"
<1>4. Options = [srt |-> srt, lang |-> lang, pids |-> g.pids, forced |-> l.forced,
                 hi |-> l.hi, delay |-> l.delay, preserve |-> g.preserve, overwrite |-> g.overwrite,
                 only |-> g.only, ass |-> g.ass, preview |-> pre]
  BY Zenon DEF Options
<1>5. srt \in Seq(File) /\ lang \in Seq(LangPiece) /\ pre \in BOOLEAN
  BY <1>1, <1>2, Zenon
<1> HIDE DEF srt, lang, pre
<1> QED
  BY <1>3, <1>4, <1>5, Zenon DEF Settings, LangPiece

\* A step of a run is a step of the setup, or leaves it alone.
LEMMA RunSetupStep ==
  ASSUME OptionsInv, NEW in \in Inputs, RunSteps(in)
  PROVE  SetupNext \/ UNCHANGED setup
<1>1. CASE ParseArg \/ CheckArgs \/ CliFails \/ Position \/ ResolveFont \/ StartPool \/ Arm
  BY <1>1, Zenon DEF ParseArg, CheckArgs, CliFails, Position, ResolveFont, StartPool, Arm
<1>2. CASE QcFails \/ QcFile \/ QcDone \/ PreviewFails(in) \/ Loop
  BY <1>2, Zenon DEF QcFails, QcFile, QcDone, PreviewFails, Loop
<1>3. CASE BeginPreview(in) \/ BeginSetup(in)
  <2>1. Begin(in, Options)
    BY <1>3, Zenon DEF BeginPreview, BeginSetup
  <2>2. input' = in /\ opt' = Options
    BY <2>1, Zenon DEF Begin
  <2>3. input' \in Inputs /\ opt' \in Settings
    BY <2>2, OptionsTyped, Zenon
  <2>4. Begin(input', opt')
    BY <2>1, <2>2, Zenon
  <2> QED
    BY <2>3, <2>4, Zenon DEF SetupNext
<1>4. CASE Build
  BY <1>4, Zenon DEF Build, SetupNext
<1>5. CASE RenderPngs \/ WriteTrailer
  BY <1>5, Zenon DEF RenderPngs, WriteTrailer, End, SetupNext
<1>6. CASE OpenOutput \/ WriteHeader
  BY <1>6, Zenon DEF OpenOutput, WriteHeader, HeaderFails, End, SetupNext
<1> QED
  BY <1>1, <1>2, <1>3, <1>4, <1>5, <1>6, Zenon DEF RunSteps

-----------------------------------------------------------------------------
(* The run and its context.                                                *)

\* A failing setup releases all that is held and reports the failure.
LEMMA FailReleases ==
  ASSUME NEW h, NEW n \in Nat, NEW c, c # 0, HeldBy(h, n), Fail(h, n, c)
  PROVE  stage' = "failed" /\ held' = {} /\ ret' # 0 /\ tracks' = <<>> /\ counted' = 0
  BY DEF Fail, Cleaned, HeldBy

\* The parts of a track belong to it or to the context.
LEMMA PartsHeld ==
  ASSUME NEW f, NEW n, counted = Len(tracks), counted \in Nat
  PROVE  HeldBy(HeldParts(f, n), cur)
<1>1. \A p : Owned(p)[1] \in {0, cur}
  BY Zenon DEF Owned
<1>2. cur \in Nat
  BY DEF cur
<1> QED
  BY <1>1, <1>2 DEF HeldBy, HeldParts

\* A step of the setup counts the tracks it parses, and a failing one leaves nothing.
LEMMA SetupHeld ==
  ASSUME OverOwn(tracks), counted = Len(tracks), HeldBy(held, counted), SetupSteps
  PROVE  /\ stage \in Building
         /\ counted' = Len(tracks') /\ HeldBy(held', counted')
         /\ \/ stage' \in Building \cup {"ready"} /\ UNCHANGED <<opt, ret>>
            \/ stage' = "failed" /\ held' = {} /\ ret' # 0
<1> DEFINE Failed == stage' = "failed" /\ held' = {} /\ ret' # 0 /\ tracks' = <<>> /\ counted' = 0
           Done == /\ counted' = Len(tracks') /\ HeldBy(held', counted')
                   /\ \/ stage' \in Building \cup {"ready"} /\ UNCHANGED <<opt, ret>>
                      \/ stage' = "failed" /\ held' = {} /\ ret' # 0
           Kept == UNCHANGED <<tracks, counted, held, opt, ret>>
<1>1. Len(tracks) \in Nat /\ counted \in Nat
  BY OwnDomain, Zenon
<1>2. Failed => Done
  BY OwnEmpty, Zenon DEF HeldBy
<1>3. Kept /\ stage' \in Building => Done
  BY Zenon
<1>4. HeldBy(held \cup {InInput, InOutput}, counted) /\ HeldBy(held \cup {InInput}, counted)
  BY <1>1 DEF HeldBy, InInput, InOutput
<1> HIDE DEF Failed, Done, Kept
<1>5. CASE OpenInput
  <2>1. /\ stage = "open" /\ stage' = "mirror" /\ held' = held \cup {InInput, InOutput}
        /\ UNCHANGED <<tracks, counted, opt, ret>>
    BY <1>5, Zenon DEF OpenInput
  <2>2. HeldBy(held', counted')
    BY <1>4, <2>1, Zenon
  <2> QED
    BY <2>1, <2>2, Zenon DEF Building, Done
<1>6. CASE OpenFails
  <2>1. stage = "open" /\ Fail(IF input.opens THEN held \cup {InInput} ELSE held, counted, -1)
    BY <1>6, Zenon DEF OpenFails
  <2>2. HeldBy(IF input.opens THEN held \cup {InInput} ELSE held, counted)
    BY <1>4, Zenon
  <2>3. Failed
    BY <1>1, <2>1, <2>2, FailReleases DEF Failed
  <2> QED
    BY <1>2, <2>1, <2>3, Zenon DEF Building, Done
<1>7. CASE MirrorStream \/ AllMirrored \/ TracksDone \/ ApplyPids
  <2>1. Kept /\ stage' \in Building /\ stage \in Building
    BY <1>7, Zenon DEF MirrorStream, AllMirrored, TracksDone, ApplyPids, Kept, Building
  <2> QED
    BY <1>3, <2>1, Zenon DEF Done
<1>8. CASE MirrorFails
  <2>1. stage = "mirror" /\ Fail(held, counted, -1)
    BY <1>8, Zenon DEF MirrorFails
  <2>2. Failed
    BY <1>1, <2>1, FailReleases DEF Failed
  <2> QED
    BY <1>2, <2>1, <2>2, Zenon DEF Building, Done
<1>9. CASE ListsParsed
  <2>1. stage = "lists" /\ stage' = "tracks" /\ UNCHANGED <<tracks, counted, opt, ret>>
    BY <1>9, Zenon DEF ListsParsed
  <2>2. PICK services \in (IF opt.preview THEN {{}} ELSE SUBSET {<<0, "service_name">>, <<0, "provider">>}) :
          held' = held \cup services \cup (IF Delays.vals = <<>> THEN {} ELSE {<<0, "delay_vals">>})
    BY <1>9, Zenon DEF ListsParsed
  <2>3. services \subseteq {<<0, "service_name">>, <<0, "provider">>}
    BY Zenon
  <2>4. \A r \in services : r[1] = 0
    BY <2>3
  <2>5. \A r \in (IF Delays.vals = <<>> THEN {} ELSE {<<0, "delay_vals">>}) : r[1] = 0
    OBVIOUS
  <2>6. HeldBy(held', counted)
    BY <1>1, <2>2, <2>4, <2>5 DEF HeldBy
  <2> QED
    BY <2>1, <2>6, Zenon DEF Building, Done
<1>10. CASE ListsFail
  <2>1. stage = "lists" /\ Fail(held, counted, IF opt.preview THEN 1 ELSE -1)
    BY <1>10, Zenon DEF ListsFail
  <2>2. Failed
    BY <1>1, <2>1, FailReleases DEF Failed
  <2> QED
    BY <1>2, <2>1, <2>2, Zenon DEF Building, Done
<1>11. cur \in Nat /\ cur = counted + 1 /\ HeldBy(held, cur)
  BY <1>1 DEF cur, HeldBy
<1>12. CASE AddTrack
  <2>1. /\ stage = "tracks" /\ stage' = "tracks" /\ counted' = cur /\ UNCHANGED <<opt, ret>>
        /\ held' = held \cup HeldParts(Files[cur], Len(Parts(Files[cur])))
        /\ \E track : tracks' = Append(tracks, track)
    BY <1>12, Zenon DEF AddTrack
  <2>2. HeldBy(held', cur)
    BY <1>1, <1>11, <2>1, PartsHeld, Zenon DEF HeldBy
  <2>3. Len(tracks') = cur
    BY <2>1, OwnAppend, Zenon DEF cur
  <2> QED
    BY <2>1, <2>2, <2>3, Zenon DEF Building, Done
<1>13. CASE BadTrack
  <2> DEFINE f == Files[cur]
             bad == ~UseAss(f) /\ ~f.good
             n == IF bad THEN 2 ELSE Len(Parts(f)) - 1
             c == IF bad THEN 1 ELSE -1
  <2>1. stage = "tracks" /\ Fail(held \cup HeldParts(f, n), cur, c)
    BY <1>13, Zenon DEF BadTrack
  <2>2. c # 0
    OBVIOUS
  <2> HIDE DEF n, c
  <2>3. HeldBy(held \cup HeldParts(f, n), cur)
    BY <1>1, <1>11, PartsHeld, Zenon DEF HeldBy
  <2>4. Failed
    BY <1>11, <2>1, <2>2, <2>3, FailReleases, Zenon DEF Failed
  <2> QED
    BY <1>2, <2>1, <2>4, Zenon DEF Building, Done
<1>14. CASE TrackFails
  <2> DEFINE f == Files[cur]
  <2>1. stage = "tracks" /\ \E n \in DOMAIN Parts(f) :
           Fail(held \cup HeldParts(f, n - 1), CountedAt(n),
                IF Parts(f)[n] \in {"lang", "filename", "entries"} THEN 1 ELSE -1)
    BY <1>14, Zenon DEF TrackFails
  <2>2. PICK n \in DOMAIN Parts(f) :
           Fail(held \cup HeldParts(f, n - 1), CountedAt(n),
                IF Parts(f)[n] \in {"lang", "filename", "entries"} THEN 1 ELSE -1)
    BY <2>1, Zenon
  <2> DEFINE c == IF Parts(f)[n] \in {"lang", "filename", "entries"} THEN 1 ELSE -1
  <2>3. c # 0 /\ Fail(held \cup HeldParts(f, n - 1), CountedAt(n), c)
    BY <2>2
  <2> HIDE DEF c
  <2>4. HeldBy(held \cup HeldParts(f, n - 1), CountedAt(n)) /\ CountedAt(n) \in Nat
    <3>1. CASE n = 1
      <4>1. HeldParts(f, n - 1) = {} /\ CountedAt(n) = counted
        BY <3>1 DEF HeldParts, CountedAt
      <4> QED
        BY <1>1, <4>1, Zenon
    <3>2. CASE n # 1
      <4>1. CountedAt(n) = cur
        BY <3>2, Zenon DEF CountedAt
      <4>2. HeldBy(HeldParts(f, n - 1), cur)
        BY <1>1, PartsHeld, Zenon
      <4> QED
        BY <1>11, <4>1, <4>2, Zenon DEF HeldBy
    <3> QED
      BY <3>1, <3>2, Zenon
  <2>5. Failed
    BY <2>3, <2>4, FailReleases, Zenon DEF Failed
  <2> QED
    BY <1>2, <2>1, <2>5, Zenon DEF Building, Done
<1>15. CASE PidsFail
  <2>1. stage = "pids" /\ \E c : c # 0 /\ Fail(held, counted, c)
    BY <1>15 DEF PidsFail
  <2>2. PICK c : c # 0 /\ Fail(held, counted, c)
    BY <2>1, Zenon
  <2>3. Failed
    BY <1>1, <2>2, FailReleases, Zenon DEF Failed
  <2> QED
    BY <1>2, <2>1, <2>3, Zenon DEF Building, Done
<1>16. CASE ApplyFlags
  <2>1. /\ stage = "flags" /\ stage' = "ready" /\ tracks' = Flagged
        /\ UNCHANGED <<opt, counted, held, ret>>
    BY <1>16, Zenon DEF ApplyFlags
  <2>2. DOMAIN Flagged = 1..Len(tracks) /\ Flagged = [t \in 1..Len(tracks) |-> Flagged[t]]
    BY OwnDomain, Zenon DEF Flagged
  <2>3. Len(Flagged) = Len(tracks)
    BY <1>1, <2>2, OwnFunction, Zenon
  <2> QED
    BY <2>1, <2>3, Zenon DEF Building, Done
<1>17. CASE FlagsFail
  <2>1. stage = "flags" /\ Fail(held, counted, 1)
    BY <1>17, Zenon DEF FlagsFail
  <2>2. Failed
    BY <1>1, <2>1, FailReleases DEF Failed
  <2> QED
    BY <1>2, <2>1, <2>2, Zenon DEF Building, Done
<1> QED
  BY <1>5, <1>6, <1>7, <1>8, <1>9, <1>10, <1>12, <1>13, <1>14, <1>15, <1>16, <1>17, Zenon
  DEF SetupSteps

\* ctx_cleanup of a finished run releases all.
LEMMA FinishReleases ==
  ASSUME counted \in Nat, HeldBy(held, counted), Finish
  PROVE  stage' = "idle" /\ held' = {} /\ counted' = 0 /\ tracks' = <<>> /\ UNCHANGED <<opt, faults>>
  BY DEF Finish, Cleaned, HeldBy

\* While a run reads its options and checks files, the context is empty; the pool comes
\* up when the options are read.
LEMMA EarlyLink ==
  ASSUME LinkInv, UNCHANGED setup, phase \in Empty, phase' \in Empty, pool' \in BOOLEAN,
         phase' \in {"none", "cli", "parsed", "font", "pool", "over"} => ~pool'
  PROVE  LinkInv'
<1>1. UNCHANGED <<stage, held, counted, tracks>>
  BY Zenon DEF setup
<1> QED
  BY <1>1, Zenon DEF LinkInv, HeldBy, Empty, Ready

\* What a run does with a context that is set up.
LEMMA ReadyLink ==
  ASSUME LinkInv, UNCHANGED <<setup, pool>>, phase \in Ready, phase' \in Ready
  PROVE  LinkInv'
<1>1. UNCHANGED <<stage, held, counted, tracks>>
  BY Zenon DEF setup
<1> QED
  BY <1>1, Zenon DEF LinkInv, HeldBy, Empty, Ready

\* ctx_cleanup leaves an empty context, and the pool is shut down.
LEMMA EndLink ==
  ASSUME LinkInv, OverOwn(tracks), NEW c, End(c)
  PROVE  LinkInv'
<1>1. Finish /\ phase' = "over" /\ pool' = FALSE
  BY Zenon DEF End, Over
<1>2. counted \in Nat /\ HeldBy(held, counted)
  BY OwnDomain, Zenon DEF LinkInv
<1>3. stage' = "idle" /\ held' = {} /\ counted' = 0 /\ tracks' = <<>>
  BY <1>1, <1>2, FinishReleases, Zenon
<1> QED
  BY <1>1, <1>3, OwnEmpty, Zenon DEF LinkInv, HeldBy, Empty, Ready

\* Each step of a run keeps run and context together.
LEMMA RunLink ==
  ASSUME LinkInv, OverOwn(tracks), OptionsInv, NEW in, RunSteps(in)
  PROVE  LinkInv'
<1>0. pool \in BOOLEAN
  BY Zenon DEF LinkInv
<1>1. CASE ParseArg \/ CheckArgs \/ CliFails
  <2>1. /\ phase = "cli" /\ UNCHANGED setup
        /\ phase' \in {"cli", "parsed", "over"} /\ (pool' = pool \/ pool' = FALSE)
    BY <1>1, CliStep, Zenon
  <2>2. ~pool
    BY <2>1, Zenon DEF LinkInv
  <2>3. pool' \in BOOLEAN /\ ~pool'
    <3>1. CASE pool' = pool
      BY <1>0, <2>2, <3>1, Zenon
    <3>2. CASE pool' = FALSE
      BY <3>2, Zenon
    <3> QED
      BY <2>1, <3>1, <3>2, Zenon
  <2>4. phase \in Empty /\ phase' \in Empty
    BY <2>1, Zenon DEF Empty
  <2> QED
    BY <2>1, <2>3, <2>4, EarlyLink, Zenon
<1>2. CASE Position \/ ResolveFont
  <2>1. /\ phase \in {"parsed", "font"} /\ phase' \in {"font", "pool", "over"} /\ UNCHANGED setup
        /\ (pool' = pool \/ pool' = FALSE)
    BY <1>2, Zenon DEF Position, ResolveFont, Over
  <2>2. ~pool
    BY <2>1, Zenon DEF LinkInv
  <2>3. pool' \in BOOLEAN /\ ~pool'
    <3>1. CASE pool' = pool
      BY <1>0, <2>2, <3>1, Zenon
    <3>2. CASE pool' = FALSE
      BY <3>2, Zenon
    <3> QED
      BY <2>1, <3>1, <3>2, Zenon
  <2>4. phase \in Empty /\ phase' \in Empty
    BY <2>1, Zenon DEF Empty
  <2> QED
    BY <2>1, <2>3, <2>4, EarlyLink, Zenon
<1>3. CASE StartPool
  <2>1. phase = "pool" /\ phase' \in {"arm", "hung"} /\ UNCHANGED setup /\ (pool' = pool \/ pool' = TRUE)
    BY <1>3, Zenon DEF StartPool
  <2> QED
    BY <1>0, <2>1, EarlyLink, Zenon DEF Empty
<1>4. CASE Arm
  <2>1. phase = "arm" /\ phase' \in {"qc", "preview", "setup"} /\ UNCHANGED <<setup, pool>>
    BY <1>4, Zenon DEF Arm
  <2> QED
    BY <1>0, <2>1, EarlyLink, Zenon DEF Empty
<1>5. CASE QcFails \/ QcDone \/ PreviewFails(in)
  <2>1. phase \in {"qc", "preview"} /\ phase' = "over" /\ pool' = FALSE /\ UNCHANGED setup
    BY <1>5, Zenon DEF QcFails, QcDone, PreviewFails, Over
  <2> QED
    BY <2>1, EarlyLink, Zenon DEF Empty
<1>6. CASE QcFile
  <2>1. phase = "qc" /\ phase' = "qc" /\ UNCHANGED <<setup, pool>>
    BY <1>6, Zenon DEF QcFile
  <2> QED
    BY <1>0, <2>1, EarlyLink, Zenon DEF Empty
<1>7. CASE BeginPreview(in) \/ BeginSetup(in)
  <2>1. Begin(in, Options) /\ phase' = "building" /\ UNCHANGED pool
    BY <1>7, Zenon DEF BeginPreview, BeginSetup
  <2>2. /\ stage' \in {"lists", "open"} /\ tracks' = <<>> /\ counted' = 0
        /\ held' \in {{InOutput}, {}}
    BY <2>1, Zenon DEF Begin
  <2>3. HeldBy(held', counted')
    BY <2>2 DEF HeldBy, InOutput
  <2> QED
    BY <1>0, <2>1, <2>2, <2>3, OwnEmpty, Zenon DEF LinkInv, Empty, Ready, Building
<1>8. CASE Build
  <2>1. phase = "building" /\ SetupSteps
    BY <1>8, Zenon DEF Build
  <2>2. /\ counted' = Len(tracks') /\ HeldBy(held', counted')
        /\ \/ stage' \in Building \cup {"ready"}
           \/ stage' = "failed" /\ held' = {}
    BY <2>1, SetupHeld, Zenon DEF LinkInv
  <2>3. CASE stage' = "failed"
    <3>1. phase' = "over" /\ pool' = FALSE
      BY <1>8, <2>3, Zenon DEF Build, Over
    <3>2. held' = {}
      BY <2>2, <2>3, Zenon DEF Building
    <3> QED
      BY <2>2, <2>3, <3>1, <3>2, Zenon DEF LinkInv, Empty, Ready, Building
  <2>4. CASE stage' # "failed"
    <3>1. /\ phase' = IF stage' # "ready" THEN "building" ELSE IF opt.preview THEN "render" ELSE "output"
          /\ pool' = pool
      BY <1>8, <2>4, Zenon DEF Build
    <3>2. CASE stage' = "ready"
      BY <1>0, <2>2, <3>1, <3>2, Zenon DEF LinkInv, Empty, Ready, Building
    <3>3. CASE stage' # "ready"
      BY <1>0, <2>2, <2>4, <3>1, <3>3, Zenon DEF LinkInv, Empty, Ready, Building
    <3> QED
      BY <3>2, <3>3, Zenon
  <2> QED
    BY <2>3, <2>4, Zenon
<1>9. CASE RenderPngs \/ WriteTrailer
  BY <1>9, EndLink, Zenon DEF RenderPngs, WriteTrailer
<1>10. CASE OpenOutput
  <2>1. phase = "output" /\ ((phase' = "header" /\ UNCHANGED <<setup, pool>>) \/ End(-1))
    BY <1>10, Zenon DEF OpenOutput
  <2> QED
    BY <2>1, EndLink, ReadyLink, Zenon DEF Ready
<1>11. CASE WriteHeader
  <2>1. phase = "header" /\ ((phase' = "loop" /\ UNCHANGED <<setup, pool>>) \/ End(-1))
    BY <1>11, Zenon DEF WriteHeader, HeaderFails
  <2> QED
    BY <2>1, EndLink, ReadyLink, Zenon DEF Ready
<1>12. CASE Loop
  <2>1. phase = "loop" /\ phase' = "trailer" /\ UNCHANGED <<setup, pool>>
    BY <1>12, Zenon DEF Loop
  <2> QED
    BY <2>1, ReadyLink, Zenon DEF Ready
<1> QED
  BY <1>1, <1>2, <1>3, <1>4, <1>5, <1>6, <1>7, <1>8, <1>9, <1>10, <1>11, <1>12 DEF RunSteps


-----------------------------------------------------------------------------
(* What a run returns.                                                     *)

\* Steps before there is an output file that do not end the run.
LEMMA GoesOn ==
  ASSUME WorkInv, ModeInv', UNCHANGED <<file, qc>>, mishaps' \in Nat, faults' \in Nat,
         phase \notin {"qc", "header", "loop", "trailer", "over"},
         phase' \notin {"header", "loop", "trailer", "over"}
  PROVE  WorkInv'
<1>1. file.state = "none" /\ qc.checked = 0
  BY Zenon DEF WorkInv, FileInv, CountInv
<1>2. FileInv'
  BY <1>1, Zenon DEF WorkInv, FileInv
<1>3. CountInv'
  BY <1>1, Zenon DEF WorkInv, CountInv
<1>4. StatusTruthful'
  BY <1>1, Zenon DEF WorkInv, StatusTruthful
<1> QED
  BY <1>2, <1>3, <1>4, Zenon DEF WorkInv

\* Steps that end it before there is one.
LEMMA EndsEarly ==
  ASSUME WorkInv, UNCHANGED <<file, qc>>, mishaps' \in Nat, faults' \in Nat,
         phase \notin {"header", "loop", "trailer", "over"}, phase' = "over",
         status' = 0 => Informs' \/ l'.qc \/ g'.png_only,
         l'.qc /\ ~Informs' /\ status' = 0 => qc.checked = Len(QcFiles')
  PROVE  WorkInv'
<1>1. file.state = "none"
  BY Zenon DEF WorkInv, FileInv
<1>2. ModeInv'
  BY Zenon DEF ModeInv, Ready
<1>3. FileInv'
  BY <1>1, Zenon DEF WorkInv, FileInv
<1>4. CountInv'
  BY Zenon DEF WorkInv, CountInv
<1>5. qc.errors >= qc.bad
  BY Zenon DEF WorkInv, CountInv
<1>6. StatusTruthful'
  BY <1>1, <1>5, Zenon DEF StatusTruthful, Encodes
<1> QED
  BY <1>2, <1>3, <1>4, <1>6, Zenon DEF WorkInv

\* Calls that failed are counted.
LEMMA MishapCounted ==
  ASSUME mishaps \in Nat, NoMishap \/ Mishap
  PROVE  mishaps' \in Nat /\ mishaps' >= mishaps /\ (Mishap => mishaps' > 0)
  BY DEF Mishap, NoMishap

\* A step of the setup counts at most one failing call.
LEMMA FaultCounted ==
  ASSUME faults \in Nat, SetupSteps
  PROVE  faults' \in Nat
<1>1. faults' = faults \/ faults' = faults + 1
  BY Zenon
  DEF SetupSteps, OpenInput, OpenFails, MirrorStream, MirrorFails, AllMirrored, ListsParsed,
      ListsFail,
         AddTrack, BadTrack, TrackFails, TracksDone, ApplyPids, PidsFail, ApplyFlags, FlagsFail, Fault
<1> QED
  BY <1>1

\* From the command line to the first work.
LEMMA EarlyWork ==
  ASSUME WorkInv, OptionsInv,
         ParseArg \/ CheckArgs \/ CliFails \/ Position \/ ResolveFont \/ StartPool \/ Arm
  PROVE  WorkInv'
<1>0. mishaps \in Nat /\ faults \in Nat
  BY Zenon DEF WorkInv, CountInv
<1>1. CASE ParseArg \/ CheckArgs \/ CliFails
  <2>1. /\ phase = "cli" /\ UNCHANGED <<setup, args, armed, stop, file, qc>>
        /\ mishaps' = mishaps \/ Mishap
        /\ \/ phase' = "cli"
           \/ phase' = "parsed" /\ (l'.qc \/ g'.png_only \/ (l'.input # "" /\ l'.output # ""))
           \/ phase' = "over" /\ (status' = 0 => Informs')
    BY <1>1, CliStep, Zenon
  <2>2. mishaps' \in Nat /\ faults' \in Nat
    <3>1. mishaps' = mishaps \/ mishaps' = mishaps + 1
      BY <2>1, Zenon DEF Mishap
    <3>2. faults' = faults
      BY <2>1, Zenon DEF setup
    <3> QED
      BY <1>0, <3>1, <3>2
  <2>3. qc.checked = 0
    BY <2>1, Zenon DEF WorkInv, CountInv
  <2>4. CASE phase' = "over"
    BY <2>1, <2>2, <2>3, <2>4, EndsEarly, Zenon
  <2>5. CASE phase' # "over"
    <3>1. ModeInv'
      BY <2>1, <2>5, Zenon DEF ModeInv, Ready
    <3> QED
      BY <2>1, <2>2, <2>5, <3>1, GoesOn, Zenon
  <2> QED
    BY <2>4, <2>5, Zenon
<1>2. CASE Position \/ ResolveFont \/ StartPool \/ Arm
  <2>1. PICK in : RunSteps(in)
    BY <1>2, Zenon DEF RunSteps
  <2>2. phase \in {"parsed", "font", "pool", "arm"}
    BY <1>2, Zenon DEF Position, ResolveFont, StartPool, Arm
  <2>3. g'.png_only = g.png_only /\ l' = l
    BY <2>1, <2>2, Later, Zenon DEF OptionsInv
  <2>4. UNCHANGED <<file, qc, setup>> /\ (NoMishap \/ Mishap)
    BY <1>2, Zenon DEF Position, ResolveFont, StartPool, Arm, Unfed
  <2>5. mishaps' \in Nat /\ faults' \in Nat
    BY <1>0, <2>4 DEF Mishap, NoMishap, setup
  <2>6. qc.checked = 0
    BY <2>2, Zenon DEF WorkInv, CountInv
  <2>7. CASE phase' = "over"
    <3>1. status' = 1
      BY <1>2, <2>7, Zenon DEF Position, ResolveFont, StartPool, Arm, Over
    <3> QED
      BY <2>2, <2>4, <2>5, <2>6, <2>7, <3>1, EndsEarly
  <2>8. CASE phase' # "over"
    <3>1. l.qc \/ g.png_only \/ (l.input # "" /\ l.output # "")
      BY <2>2, Zenon DEF WorkInv, ModeInv
    <3>2. CASE Arm
      <4>1. phase' = IF l.qc THEN "qc"
                     ELSE IF g.png_only /\ (l.input = "" \/ l.output = "") THEN "preview" ELSE "setup"
        BY <3>2, Zenon DEF Arm
      <4>2. ModeInv'
        BY <2>3, <3>1, <4>1, Zenon DEF ModeInv, Ready
      <4> QED
        BY <2>2, <2>4, <2>5, <4>1, <4>2, GoesOn, Zenon
    <3>3. CASE ~Arm
      <4>1. phase' \in {"font", "pool", "arm", "hung"}
        BY <1>2, <2>8, <3>3, Zenon DEF Position, ResolveFont, StartPool, Over
      <4>2. ModeInv'
        BY <2>3, <3>1, <4>1, Zenon DEF ModeInv, Ready
      <4> QED
        BY <2>2, <2>4, <2>5, <4>1, <4>2, GoesOn, Zenon
    <3> QED
      BY <3>2, <3>3, Zenon
  <2> QED
    BY <2>7, <2>8, Zenon
<1> QED
  BY <1>1, <1>2, Zenon

\* --qc-only: what does not parse is an error, and 0 means all files were looked at.
LEMMA QcWork ==
  ASSUME WorkInv, QcFails \/ QcFile \/ QcDone
  PROVE  WorkInv'
<1>1. phase = "qc" /\ mishaps \in Nat /\ faults \in Nat
  BY Zenon DEF WorkInv, CountInv, QcFails, QcFile, QcDone
<1>2. l.qc
  BY <1>1, Zenon DEF WorkInv, ModeInv
<1>3. CASE QcFails \/ QcDone
  <2>1. /\ UNCHANGED <<file, qc, l>> /\ phase' = "over" /\ mishaps' \in Nat /\ faults' \in Nat
        /\ status' = 0 => qc.checked = Len(QcFiles)
    BY <1>1, <1>3 DEF QcFails, QcDone, Over, Unfed, Mishap, NoMishap, setup
  <2>2. QcFiles' = QcFiles
    BY <2>1, Zenon DEF QcFiles, FilesOf
  <2> QED
    BY <1>1, <1>2, <2>1, <2>2, EndsEarly, Zenon
<1>4. CASE QcFile
  <2> DEFINE f == QcFiles[qc.checked + 1]
  <2>1. UNCHANGED <<setup, phase, g, l, file, mishaps>>
    BY <1>4, Zenon DEF QcFile
  <2>2. PICK e \in FileErrors(f) :
          qc' = [checked |-> qc.checked + 1, bad |-> qc.bad + (IF f.good THEN 0 ELSE 1),
                 errors |-> qc.errors + e]
    BY <1>4, Zenon DEF QcFile
  <2> HIDE DEF f
  <2>3. e \in Nat /\ e >= (IF f.good THEN 0 ELSE 1)
    BY DEF FileErrors
  <2>4. /\ DOMAIN qc' = {"checked", "bad", "errors"} /\ qc'.checked \in Nat /\ qc'.bad \in Nat
        /\ qc'.errors \in Nat /\ qc'.errors >= qc'.bad
    BY <2>2, <2>3 DEF WorkInv, CountInv
  <2>5. CountInv'
    BY <1>1, <2>1, <2>4, Zenon DEF CountInv, setup
  <2>6. file.state = "none"
    BY <1>1, Zenon DEF WorkInv, FileInv
  <2>7. StatusTruthful'
    BY <1>1, <2>1, <2>4, <2>6, Zenon DEF StatusTruthful
  <2>8. ModeInv'
    BY <1>1, <1>2, <2>1, Zenon DEF ModeInv, Ready
  <2>9. FileInv'
    BY <1>1, <2>1, Zenon DEF WorkInv, FileInv
  <2> QED
    BY <2>5, <2>7, <2>8, <2>9, Zenon DEF WorkInv
<1> QED
  BY <1>3, <1>4, Zenon

\* A sum of naturals is 0 when both are.
LEMMA ZeroSum ==
  ASSUME NEW x \in Nat, NEW y \in Nat
  PROVE  x + y = 0 <=> x = 0 /\ y = 0
  OBVIOUS

\* Previews and the setup of the tracks: no output file yet, and a failure has its code.
LEMMA SetupWork ==
  ASSUME WorkInv, LinkInv, OptionsInv, OverOwn(tracks), NEW in,
         BeginPreview(in) \/ PreviewFails(in) \/ BeginSetup(in) \/ Build \/ RenderPngs
  PROVE  WorkInv'
<1>1. phase \in {"preview", "setup", "building", "render"} /\ mishaps \in Nat /\ faults \in Nat
  BY Zenon DEF WorkInv, CountInv, BeginPreview, PreviewFails, BeginSetup, Build, RenderPngs
<1>2. ~l.qc /\ (g.png_only \/ (l.input # "" /\ l.output # ""))
  BY <1>1, Zenon DEF WorkInv, ModeInv, Ready
<1>3. g'.png_only = g.png_only /\ l' = l
  <2>1. RunSteps(in)
    BY Zenon DEF RunSteps
  <2> QED
    BY <1>1, <2>1, Later, Zenon DEF OptionsInv
<1>4. UNCHANGED <<file, qc, mishaps>>
  BY Zenon DEF BeginPreview, PreviewFails, BeginSetup, Build, RenderPngs, Unfed, NoMishap
<1>5. CASE BeginPreview(in) \/ BeginSetup(in)
  <2>1. Begin(in, Options) /\ phase' = "building" /\ phase \in {"preview", "setup"}
    BY <1>5, Zenon DEF BeginPreview, BeginSetup
  <2>2. opt' = Options /\ faults' = faults
    BY <2>1, Zenon DEF Begin
  <2>3. opt'.preview => g.png_only
    <3>1. opt'.preview = (phase = "preview")
      BY <2>2, Zenon DEF Options
    <3> QED
      BY <3>1, Zenon DEF WorkInv, ModeInv
  <2>4. ModeInv'
    BY <1>2, <1>3, <2>1, <2>3, Zenon DEF ModeInv, Ready
  <2> QED
    BY <1>1, <1>4, <2>1, <2>2, <2>4, GoesOn, Zenon
<1>6. CASE PreviewFails(in)
  <2>1. phase' = "over" /\ status' = 1 /\ faults' = faults
    BY <1>6, Zenon DEF PreviewFails, Over, setup
  <2>2. mishaps' \in Nat /\ faults' \in Nat
    BY <1>1, <1>4, <2>1, Zenon
  <2>3. status' # 0
    BY <2>1
  <2> QED
    BY <1>1, <1>4, <2>1, <2>2, <2>3, EndsEarly, Zenon
<1>7. CASE Build
  <2>1. phase = "building" /\ SetupSteps
    BY <1>7, Zenon DEF Build
  <2>2. faults' \in Nat
    BY <1>1, <2>1, FaultCounted, Zenon
  <2>3. \/ stage' \in Building \cup {"ready"} /\ UNCHANGED <<opt, ret>>
        \/ stage' = "failed" /\ ret' # 0
    BY <2>1, SetupHeld, Zenon DEF LinkInv
  <2>4. CASE stage' = "failed"
    <3>1. phase' = "over" /\ status' = ret'
      BY <1>7, <2>4, Zenon DEF Build, Over
    <3>2. ret' # 0
      BY <2>3, <2>4, Zenon DEF Building
    <3> QED
      BY <1>1, <1>2, <1>3, <1>4, <2>2, <3>1, <3>2, EndsEarly, ZenonT(60)
  <2>5. CASE stage' # "failed"
    <3>1. phase' = IF stage' # "ready" THEN "building" ELSE IF opt.preview THEN "render" ELSE "output"
      BY <1>7, <2>5, Zenon DEF Build
    <3>2. opt' = opt /\ (opt.preview => g.png_only)
      BY <2>1, <2>3, <2>5, Zenon DEF WorkInv, ModeInv
    <3>3. phase' \in {"building", "render", "output"} /\ (phase' = "render" => g.png_only)
      BY <3>1, <3>2, Zenon
    <3>4. ModeInv'
      BY <1>2, <1>3, <3>2, <3>3, Zenon DEF ModeInv, Ready
    <3> QED
      BY <1>1, <1>4, <2>1, <2>2, <3>3, <3>4, GoesOn, Zenon
  <2> QED
    BY <2>4, <2>5, Zenon
<1>8. CASE RenderPngs
  <2>1. phase = "render" /\ phase' = "over" /\ faults' = faults
    BY <1>8, Zenon DEF RenderPngs, End, Over, Finish
  <2>2. g'.png_only
    BY <1>3, <2>1, Zenon DEF WorkInv, ModeInv
  <2> QED
    BY <1>1, <1>2, <1>3, <1>4, <2>1, <2>2, EndsEarly
<1> QED
  BY <1>5, <1>6, <1>7, <1>8, Zenon

\* From the output file to the trailer: the file is as far as the code says.
LEMMA OutputWork ==
  ASSUME WorkInv, OptionsInv, NEW in, RunSteps(in),
         OpenOutput \/ WriteHeader \/ Loop \/ WriteTrailer
  PROVE  WorkInv'
<1>1. phase \in {"output", "header", "loop", "trailer"} /\ mishaps \in Nat /\ faults \in Nat
  BY Zenon DEF WorkInv, CountInv, OpenOutput, WriteHeader, Loop, WriteTrailer
<1>2. ~l.qc /\ (g.png_only \/ (l.input # "" /\ l.output # "")) /\ qc.checked = 0
  BY <1>1, Zenon DEF WorkInv, ModeInv, CountInv, Ready
<1>3. g'.png_only = g.png_only /\ UNCHANGED <<args, l, stop>>
  BY <1>1, Later, Zenon DEF OptionsInv
<1>4. UNCHANGED <<qc, faults>> /\ (NoMishap \/ Mishap)
  BY Zenon DEF OpenOutput, WriteHeader, Loop, WriteTrailer, HeaderFails, End, Finish, setup
<1>5. mishaps' \in Nat /\ (Mishap => mishaps' > 0)
  BY <1>1, <1>4, MishapCounted, Zenon
<1>6. DOMAIN file = {"state", "rate"} /\ qc.errors >= qc.bad
  BY Zenon DEF WorkInv, FileInv, CountInv
<1>7. ASSUME phase' \in {"header", "loop", "trailer", "over"} PROVE CountInv' /\ ModeInv'
  <2>1. CountInv'
    BY <1>1, <1>2, <1>4, <1>5, Zenon DEF WorkInv, CountInv
  <2>2. ModeInv'
    BY <1>2, <1>3, <1>7, Zenon DEF ModeInv, Ready
  <2> QED
    BY <2>1, <2>2, Zenon
<1>8. ASSUME phase' \in {"header", "loop", "trailer"}, FileInv', file'.state # "none" => ~g.png_only
      PROVE  WorkInv'
  <2>1. StatusTruthful'
    BY <1>2, <1>3, <1>4, <1>6, <1>8, Zenon DEF StatusTruthful, Encodes
  <2> QED
    BY <1>7, <1>8, <2>1, Zenon DEF WorkInv
<1>9. ASSUME phase' = "over", status' # 0, file' = file, file.state \in {"none", "created"},
             file.state # "none" => ~g.png_only /\ Mishap
      PROVE  WorkInv'
  <2>1. FileInv'
    BY <1>6, <1>9, Zenon DEF FileInv
  <2>2. file'.state = "none" \/ mishaps' > 0
    BY <1>5, <1>9, Zenon
  <2>3. faults' + mishaps' = 0 => file'.state = "none"
    <3>1. faults' \in Nat /\ mishaps' \in Nat
      BY <1>1, <1>4, <1>5, Zenon
    <3>2. faults' + mishaps' = 0 => mishaps' = 0
      BY <3>1, ZeroSum, Zenon
    <3> QED
      BY <2>2, <3>2
  <2>4. StatusTruthful'
    BY <1>2, <1>3, <1>4, <1>6, <1>9, <2>3, Zenon DEF StatusTruthful, Encodes
  <2> QED
    BY <1>7, <1>9, <2>1, <2>4, Zenon DEF WorkInv
<1>10. CASE OpenOutput
  <2>1. phase = "output" /\ file.state = "none"
    BY <1>10, Zenon DEF OpenOutput, WorkInv, FileInv
  <2>2. \/ phase' = "header" /\ file' = IF Creates THEN [state |-> "created", rate |-> FinalRate] ELSE file
        \/ phase' = "over" /\ status' = -1 /\ file' = file
    BY <1>10, Zenon DEF OpenOutput, End, Over
  <2>3. CASE phase' = "header"
    <3>1. file' = IF ~g.png_only THEN [state |-> "created", rate |-> FinalRate] ELSE file
      BY <2>2, <2>3, Zenon DEF Creates
    <3> DEFINE r == FinalRate
    <3> HIDE DEF r
    <3>2. /\ DOMAIN file' = {"state", "rate"}
          /\ file'.state = IF g.png_only THEN "none" ELSE "created"
      BY <1>6, <2>1, <3>1, Zenon DEF r
    <3>3. FileInv'
      BY <1>3, <2>3, <3>2, Zenon DEF FileInv
    <3> QED
      BY <1>8, <2>3, <3>2, <3>3, Zenon
  <2>4. CASE phase' # "header"
    BY <1>9, <2>1, <2>2, <2>4
  <2> QED
    BY <2>3, <2>4, Zenon
<1>11. CASE WriteHeader
  <2>1. phase = "header" /\ file.state = IF g.png_only THEN "none" ELSE "created"
    BY <1>11, Zenon DEF WriteHeader, WorkInv, FileInv
  <2>2. \/ phase' = "loop" /\ file' = IF g.png_only THEN file ELSE [file EXCEPT !.state = "headed"]
        \/ phase' = "over" /\ status' = -1 /\ file' = file /\ ~g.png_only /\ Mishap
    BY <1>11, Zenon DEF WriteHeader, HeaderFails, End, Over
  <2>3. CASE phase' = "loop"
    <3>1. /\ DOMAIN file' = {"state", "rate"}
          /\ file'.state = IF g.png_only THEN "none" ELSE "headed"
      BY <1>6, <2>1, <2>2, <2>3
    <3>2. FileInv'
      BY <1>3, <2>3, <3>1, Zenon DEF FileInv
    <3> QED
      BY <1>8, <2>3, <3>1, <3>2
  <2>4. CASE phase' # "loop"
    BY <1>9, <2>1, <2>2, <2>4
  <2> QED
    BY <2>3, <2>4, Zenon
<1>12. CASE Loop
  <2>1. /\ phase = "loop" /\ phase' = "trailer"
        /\ file' = IF g.png_only THEN file ELSE [file EXCEPT !.state = IF stop THEN "cut" ELSE "written"]
        /\ file.state = IF g.png_only THEN "none" ELSE "headed"
    BY <1>12, Zenon DEF Loop, WorkInv, FileInv
  <2>2. /\ DOMAIN file' = {"state", "rate"}
        /\ file'.state = IF g.png_only THEN "none" ELSE IF stop THEN "cut" ELSE "written"
    BY <1>6, <2>1, Zenon
  <2>3. FileInv'
    BY <1>3, <2>1, <2>2, Zenon DEF FileInv
  <2> QED
    BY <1>8, <2>1, <2>2, <2>3
<1>13. CASE WriteTrailer
  <2>1. /\ phase = "trailer" /\ phase' = "over" /\ status' = 0
        /\ \/ file' = [file EXCEPT !.state = CASE @ = "written" -> "complete"
                                               [] @ = "cut"     -> "truncated"
                                               [] OTHER         -> @]
           \/ ~g.png_only /\ Mishap /\ file' = [file EXCEPT !.state = "damaged"]
    BY <1>13, Zenon DEF WriteTrailer, End, Over
  <2>2. /\ IF g.png_only THEN file.state = "none" ELSE file.state \in {"written", "cut"}
        /\ file.state = "cut" => stop
    BY <2>1, Zenon DEF WorkInv, FileInv
  <2>3. /\ DOMAIN file' = {"state", "rate"}
        /\ \/ g.png_only /\ file'.state = "none"
           \/ ~g.png_only /\ file'.state = "complete"
           \/ ~g.png_only /\ file'.state = "truncated" /\ stop
           \/ ~g.png_only /\ file'.state = "damaged" /\ mishaps' > 0
    BY <1>5, <1>6, <2>1, <2>2, Zenon
  <2>4. FileInv'
    BY <2>1, <2>3, Zenon DEF FileInv
  <2>5. StatusTruthful'
    BY <1>2, <1>3, <1>4, <1>6, <2>1, <2>3, Zenon DEF StatusTruthful, Encodes
  <2> QED
    BY <1>7, <2>1, <2>4, <2>5, Zenon DEF WorkInv
<1> QED
  BY <1>10, <1>11, <1>12, <1>13, Zenon

\* Between runs, and when a signal arrives, what a run returned stays true.
LEMMA WorkKept ==
  ASSUME WorkInv, UNCHANGED <<setup, phase, args, g, l, armed, file, qc, status>>,
         mishaps' \in Nat, mishaps' >= mishaps, stop => stop'
  PROVE  WorkInv'
<1>1. opt' = opt /\ faults' = faults /\ faults \in Nat /\ mishaps \in Nat
  BY Zenon DEF setup, WorkInv, CountInv
<1>2. QcFiles' = QcFiles /\ Encodes' = Encodes /\ Informs' = Informs
  BY Zenon DEF QcFiles, FilesOf, Encodes, Informs
<1>3. ModeInv'
  BY <1>1, Zenon DEF WorkInv, ModeInv
<1>4. FileInv'
  BY Zenon DEF WorkInv, FileInv
<1>5. CountInv'
  BY <1>1, Zenon DEF WorkInv, CountInv
<1>6. faults' + mishaps' = 0 => faults + mishaps = 0
  <2>1. faults \in Nat /\ mishaps \in Nat /\ mishaps' \in Nat /\ mishaps' >= mishaps
    BY <1>1, Zenon
  <2>2. faults + mishaps' = 0 => faults = 0 /\ mishaps' = 0
    BY <2>1, ZeroSum, Zenon
  <2>3. mishaps' = 0 => mishaps = 0
    BY <2>1
  <2>4. faults = 0 /\ mishaps = 0 => faults + mishaps = 0
    OBVIOUS
  <2> QED
    BY <1>1, <2>2, <2>3, <2>4, Zenon
<1>7. mishaps > 0 => mishaps' > 0
  BY <1>1
<1>8. StatusTruthful'
  BY <1>2, <1>6, <1>7, Zenon DEF WorkInv, StatusTruthful
<1> QED
  BY <1>3, <1>4, <1>5, <1>8, Zenon DEF WorkInv

==================================================================================
