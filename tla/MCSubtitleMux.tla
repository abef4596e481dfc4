----------------------------- MODULE MCSubtitleMux -----------------------------
(***************************************************************************)
(* Instances of SubtitleMux for TLC: cue lists as the parser returns them, *)
(* times in milliseconds, with two ticks per millisecond.                  *)
(***************************************************************************)
EXTENDS SubtitleMux, TLC

Cue(s, e) == [start |-> s, end |-> e]

\* All lists of n cues within 0..last that the overlap repair can produce.
Lists(n, last) ==
  {l \in [1..n -> [start : 0..last, end : 0..last]] :
     /\ \A i \in 1..n : l[i].start <= l[i].end
     /\ \A i, j \in 1..n : i < j => l[i].end <= l[j].start
     /\ l[1].start < l[1].end}

\* Touching, zero-length and separate cues.
PairLists == Lists(2, 2)
LongLists == {l \in Lists(3, 8) : \A i \in 1..3 : l[i].end >= l[i].start + 2}
BothDelays == {-1, 1}
OneList == {<<Cue(0, 1), Cue(1, 1), Cue(2, 3)>>}

TwoStreams == (1 :> 2 @@ 2 :> 3)
OneStream == (1 :> 2)
OneStreamNew == (1 :> 3)
==============================================================================
