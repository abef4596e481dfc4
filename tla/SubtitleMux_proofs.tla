-------------------------- MODULE SubtitleMux_proofs --------------------------
(***************************************************************************)
(* MuxInv is an inductive invariant of SubtitleMux for any number of       *)
(* tracks, any cue lists the parser can return, any delays, input start,   *)
(* packet times and failing calls; the properties of the loop follow.      *)
(* First the lemmas: times of cues, what a call of                         *)
(* encode_and_write_subtitle does to the events of a track, and how each   *)
(* step of the loop or the pool keeps the parts of MuxInv: time stamps,    *)
(* order and drift of the events, types, jobs, position, pictures in hand. *)
(***************************************************************************)
EXTENDS SubtitleMux, TLAPS

-----------------------------------------------------------------------------
(* Times of cues.                                                          *)

\* The arithmetic part of the assumptions.
LEMMA Constants ==
  /\ NTracks \in Nat /\ NTracks > 0
  /\ MS \in Nat /\ MS > 0
  /\ NOPTS \notin Int
  /\ Delays \subseteq Int /\ InputStarts \subseteq Int /\ PacketTimes \subseteq Int
<1> QED
  BY MuxAssumption

\* An element of a sequence.
LEMMA SeqElement ==
  ASSUME NEW S, NEW s \in Seq(S), NEW i \in 1..Len(s)
  PROVE  s[i] \in S
<1> QED
  OBVIOUS

\* Scaling to ticks keeps the order of times.
LEMMA TickMonotone ==
  ASSUME NEW a \in Int, NEW b \in Int, a <= b
  PROVE  a * MS <= b * MS
<1>1. MS \in Nat /\ b - a \in Nat
  BY MuxAssumption
<1>2. (b - a) * MS \in Nat
  BY <1>1
<1>3. (b - a) * MS = b * MS - a * MS
  BY <1>1
<1> QED
  BY <1>1, <1>2, <1>3

\* What the order of the parser's cues means in ticks.
LEMMA CueTicks ==
  ASSUME TypeOK, NEW t \in Tracks, NEW k \in 1..Count(t)
  PROVE  /\ StartTick(t, k) \in Int
         /\ EndTick(t, k) \in Int
         /\ StartTick(t, k) <= EndTick(t, k)
         /\ \A j \in 1..Count(t) : k < j => EndTick(t, k) <= StartTick(t, j)
         /\ Roomy(t) => StartTick(t, k) + MS + MS <= EndTick(t, k)
<1> DEFINE l == entries[t]
<1>a. l \in CueLists /\ delay[t] \in Delays
  BY Zenon DEF TypeOK
<1>1. /\ l \in Seq([start : Int, end : Int])
      /\ \A i \in 1..Len(l) : l[i].start <= l[i].end
      /\ \A i, j \in 1..Len(l) : i < j => l[i].end <= l[j].start
  BY <1>a, CueAssumption, Zenon
<1>2. delay[t] \in Int /\ MS \in Nat /\ MS > 0
  BY <1>a, Constants, Zenon
<1>3. \A i \in 1..Len(l) : l[i].start \in Int /\ l[i].end \in Int
  <2>1. \A i \in 1..Len(l) : l[i] \in [start : Int, end : Int]
    BY <1>1, SeqElement, Zenon
  <2> QED
    BY <2>1, Zenon
<1> HIDE DEF l
<1>4. \A i \in 1..Len(l) :
        /\ StartTick(t, i) = (l[i].start + delay[t]) * MS
        /\ EndTick(t, i) = (l[i].end + delay[t]) * MS
        /\ StartTick(t, i) \in Int /\ EndTick(t, i) \in Int
  BY <1>2, <1>3, SMTT(60) DEF StartTick, EndTick, l
<1>k. k \in 1..Len(l) /\ Count(t) = Len(l)
  BY Zenon DEF Count, l
<1>5. StartTick(t, k) <= EndTick(t, k)
  <2>1. l[k].start + delay[t] <= l[k].end + delay[t]
    BY <1>1, <1>2, <1>3, <1>k, SMTT(60)
  <2> QED
    BY <2>1, <1>2, <1>3, <1>4, <1>k, TickMonotone, SMTT(60)
<1>6. ASSUME NEW j \in 1..Count(t), k < j
      PROVE  EndTick(t, k) <= StartTick(t, j)
  <2>0. j \in 1..Len(l)
    BY <1>k, Zenon
  <2>1. l[k].end <= l[j].start
    BY <1>1, <1>6, <1>k, <2>0, Zenon
  <2>2. l[k].end + delay[t] <= l[j].start + delay[t]
    BY <1>2, <1>3, <1>k, <2>0, <2>1
  <2> QED
    BY <2>0, <2>2, <1>2, <1>3, <1>4, <1>k, TickMonotone, SMTT(60)
<1>7. ASSUME Roomy(t) PROVE StartTick(t, k) + MS + MS <= EndTick(t, k)
  <2> DEFINE a == l[k].start + delay[t]
             b == l[k].end + delay[t]
  <2>0. l[k].end >= l[k].start + 2
    BY <1>7, <1>k, Zenon DEF Roomy, l
  <2>1. a \in Int /\ b \in Int /\ a + 2 <= b
    BY <2>0, <1>2, <1>3, <1>k, SMTT(60)
  <2>4. StartTick(t, k) = a * MS /\ EndTick(t, k) = b * MS
    BY <1>4, <1>k, Zenon
  <2> HIDE DEF a, b
  <2>2. (a + 2) * MS <= b * MS
    BY <2>1, TickMonotone
  <2>3. (a + 2) * MS = a * MS + MS + MS
    BY <2>1, <1>2
  <2> QED
    BY <2>1, <2>2, <2>3, <2>4, <1>2, Zenon
<1> QED
  BY <1>4, <1>5, <1>6, <1>7, <1>k, Zenon

-----------------------------------------------------------------------------
(* encode_and_write_subtitle.                                              *)

\* The event as it is written: with the bumped time stamp, its bytes intact or not.
Sent(t, ev, data) ==
  [kind |-> ev.kind, cue |-> ev.cue, pts |-> Bump(t, ev.pts), data |-> data]

\* A call writes nothing, or moves last_pts, or moves it and writes one event.
LEMMA WriteOutcome ==
  ASSUME NEW t, NEW ev, EncodeAndWrite(t, ev)
  PROVE  \/ last_pts' = last_pts /\ out' = out
         \/ \E data \in {ev.data, Garbage} :
              /\ last_pts' = [last_pts EXCEPT ![t] = Bump(t, ev.pts)]
              /\ \/ out' = out
                 \/ out' = [out EXCEPT ![t] = Append(@, Sent(t, ev, data))]
<1>1. CASE UNCHANGED <<last_pts, out>>
  BY <1>1, Zenon
<1>2. ASSUME NEW n, Packetise(t, ev, n)
      PROVE  \/ last_pts' = last_pts /\ out' = out
             \/ \E data \in {ev.data, Garbage} :
                  /\ last_pts' = [last_pts EXCEPT ![t] = Bump(t, ev.pts)]
                  /\ \/ out' = out
                     \/ out' = [out EXCEPT ![t] = Append(@, Sent(t, ev, data))]
  <2>1. PICK ok, moved :
          LET grown == Grows(t, n) /\ ok
              sent == [kind |-> ev.kind, cue |-> ev.cue, pts |-> Bump(t, ev.pts),
                       data |-> IF grown /\ moved THEN Garbage ELSE ev.data] IN
          \/ /\ last_pts' = [last_pts EXCEPT ![t] = sent.pts]
             /\ \/ out' = [out EXCEPT ![t] = Append(@, sent)]
                \/ "write" \in Faults /\ out' = out
          \/ "packet" \in Faults /\ UNCHANGED <<last_pts, out>>
    BY <1>2, Zenon DEF Packetise
  <2> DEFINE data == IF (Grows(t, n) /\ ok) /\ moved THEN Garbage ELSE ev.data
  <2>2. data \in {ev.data, Garbage}
    BY Zenon
  <2>3. Sent(t, ev, data).pts = Bump(t, ev.pts)
    BY Zenon DEF Sent
  <2> QED
    BY <2>1, <2>2, <2>3, Zenon DEF Sent
<1> QED
  BY <1>1, <1>2, Zenon DEF EncodeAndWrite, writeVars

\* The buffer keeps its type; only a write touches it.
LEMMA BufferType ==
  ASSUME TypeOK, NEW t \in Tracks, NEW ev, EncodeAndWrite(t, ev)
  PROVE  enc' \in [Tracks -> [size : 0..MAX_SUB_BUF_SIZE, full : Nat]]
<1> DEFINE B == [size : 0..MAX_SUB_BUF_SIZE, full : Nat]
<1>1. enc \in [Tracks -> B] /\ enc[t] \in B
  BY Zenon DEF TypeOK
<1>2. /\ SUB_BUF_SIZE \in Nat /\ MAX_SUB_BUF_SIZE \in Nat
      /\ SUB_BUF_SIZE <= MAX_SUB_BUF_SIZE /\ EncodedSizes \subseteq 0..SUB_BUF_SIZE
  BY MuxAssumption, Zenon
<1>3. BufSize(t) \in 0..MAX_SUB_BUF_SIZE /\ GrownSize(t) \in 0..MAX_SUB_BUF_SIZE
  BY <1>1, <1>2 DEF BufSize, GrownSize
<1>4. \A n : FullCount(t, n) \in Nat
  BY <1>1 DEF FullCount
<1>5. CASE enc' = enc
  BY <1>1, <1>5, Zenon
<1>6. CASE enc' = [enc EXCEPT ![t].size = BufSize(t)]
  BY <1>1, <1>3, <1>6, Zenon
<1>7. ASSUME NEW n, Packetise(t, ev, n)
      PROVE  enc' \in [Tracks -> B]
  <2>1. PICK ok :
          enc' = [enc EXCEPT ![t] =
                   [size |-> IF Grows(t, n) /\ ok THEN GrownSize(t) ELSE BufSize(t),
                    full |-> IF Grows(t, n) THEN 0 ELSE FullCount(t, n)]]
    BY <1>7, Zenon DEF Packetise
  <2>2. [size |-> IF Grows(t, n) /\ ok THEN GrownSize(t) ELSE BufSize(t),
         full |-> IF Grows(t, n) THEN 0 ELSE FullCount(t, n)] \in B
    BY <1>3, <1>4, Zenon
  <2> QED
    BY <1>1, <2>1, <2>2, Zenon
<1> QED
  BY <1>5, <1>6, <1>7, Zenon DEF EncodeAndWrite, writeVars

\* The bump: never before the time asked for, always after last_pts.
LEMMA BumpFacts ==
  ASSUME TypeOK, NEW t \in Tracks, NEW p \in Int
  PROVE  /\ Bump(t, p) \in Int
         /\ p <= Bump(t, p)
         /\ last_pts[t] # NOPTS => last_pts[t] < Bump(t, p)
         /\ Bump(t, p) = p \/ (last_pts[t] # NOPTS /\ p <= last_pts[t]
                                /\ Bump(t, p) = last_pts[t] + MS)
<1>1. last_pts[t] \in Int \cup {NOPTS}
  BY Zenon DEF TypeOK
<1> QED
  BY <1>1, Constants DEF Bump

\* A sequence after Append.
LEMMA AppendFacts ==
  ASSUME NEW S, NEW s \in Seq(S), NEW e \in S
  PROVE  /\ Append(s, e) \in Seq(S)
         /\ Len(Append(s, e)) = Len(s) + 1
         /\ \A i \in 1..Len(s) : Append(s, e)[i] = s[i]
         /\ Append(s, e)[Len(s) + 1] = e
         /\ \A i \in 1..Len(Append(s, e)) : i \in 1..Len(s) \/ i = Len(s) + 1
<1> QED
  OBVIOUS

\* What a call leaves behind on the track and on the others.
LEMMA WriteEffect ==
  ASSUME MuxInv, NEW ev \in Event, EncodeAndWrite(trk, ev)
  PROVE  /\ out' \in [Tracks -> Seq(Event)]
         /\ last_pts' \in [Tracks -> Int \cup {NOPTS}]
         /\ \A t \in Tracks : t # trk => out'[t] = out[t] /\ last_pts'[t] = last_pts[t]
         /\ \/ last_pts'[trk] = last_pts[trk] /\ out'[trk] = out[trk]
            \/ /\ last_pts'[trk] = Bump(trk, ev.pts)
               /\ \/ out'[trk] = out[trk]
                  \/ \E data \in {ev.data, Garbage} :
                       /\ out'[trk] = Append(out[trk], Sent(trk, ev, data))
                       /\ Sent(trk, ev, data) \in Event
<1>1. /\ trk \in Tracks
      /\ out \in [Tracks -> Seq(Event)]
      /\ last_pts \in [Tracks -> Int \cup {NOPTS}]
      /\ TypeOK
  BY Zenon DEF MuxInv, TypeOK
<1>2. ev.pts \in Int /\ ev.kind \in {"cue", "clear"} /\ ev.cue \in Nat /\ ev.data \in Pictures
  BY Zenon DEF Event
<1>3. Bump(trk, ev.pts) \in Int
  BY <1>1, <1>2, BumpFacts, Zenon
<1>4. Garbage \in Pictures
  BY Zenon DEF Garbage, Pictures
<1>5. ASSUME NEW data \in {ev.data, Garbage} PROVE Sent(trk, ev, data) \in Event
  BY <1>2, <1>3, <1>4, <1>5, Zenon DEF Sent, Event
<1>6. CASE last_pts' = last_pts /\ out' = out
  BY <1>1, <1>6, Zenon
<1>7. ASSUME NEW data \in {ev.data, Garbage},
             last_pts' = [last_pts EXCEPT ![trk] = Bump(trk, ev.pts)],
             out' = out \/ out' = [out EXCEPT ![trk] = Append(@, Sent(trk, ev, data))]
      PROVE  /\ out' \in [Tracks -> Seq(Event)]
             /\ last_pts' \in [Tracks -> Int \cup {NOPTS}]
             /\ \A t \in Tracks : t # trk => out'[t] = out[t] /\ last_pts'[t] = last_pts[t]
             /\ last_pts'[trk] = Bump(trk, ev.pts)
             /\ \/ out'[trk] = out[trk]
                \/ /\ out'[trk] = Append(out[trk], Sent(trk, ev, data))
                   /\ Sent(trk, ev, data) \in Event
  <2>1. Sent(trk, ev, data) \in Event
    BY <1>5, Zenon
  <2>2. out[trk] \in Seq(Event)
    BY <1>1, Zenon
  <2>3. Append(out[trk], Sent(trk, ev, data)) \in Seq(Event)
    BY <2>1, <2>2, AppendFacts, Zenon
  <2>4. out' \in [Tracks -> Seq(Event)]
    BY <1>1, <1>7, <2>3, Zenon
  <2>5. last_pts' \in [Tracks -> Int \cup {NOPTS}] /\ last_pts'[trk] = Bump(trk, ev.pts)
    BY <1>1, <1>3, <1>7, Zenon
  <2>6. \A t \in Tracks : t # trk => out'[t] = out[t] /\ last_pts'[t] = last_pts[t]
    BY <1>1, <1>7, Zenon
  <2>7. out'[trk] = out[trk] \/ out'[trk] = Append(out[trk], Sent(trk, ev, data))
    BY <1>1, <1>7, Zenon
  <2> QED
    BY <2>1, <2>4, <2>5, <2>6, <2>7, Zenon
<1> QED
  BY <1>6, <1>7, WriteOutcome, Zenon

\* Time stamps and places keep increasing when an event of a later place is written.
LEMMA WriteOrder ==
  ASSUME MuxInv, NEW ev \in Event, EncodeAndWrite(trk, ev),
         UNCHANGED <<entries, delay, start0>>,
         ev.cue \in 1..Count(trk),
         \A i \in 1..Len(out[trk]) : Place(out[trk][i]) < Place(ev)
  PROVE  /\ PtsIncreasing' /\ EventOrder'
         /\ \A t \in Tracks :
              /\ last_pts'[t] = NOPTS => out'[t] = <<>>
              /\ \A i \in 1..Len(out'[t]) :
                   /\ out'[t][i].pts <= last_pts'[t]
                   /\ out'[t][i].cue \in 1..Count(t)
         /\ \A i \in 1..Len(out'[trk]) : Place(out'[trk][i]) <= Place(ev)
<1>1. /\ trk \in Tracks
      /\ out \in [Tracks -> Seq(Event)]
      /\ last_pts \in [Tracks -> Int \cup {NOPTS}]
      /\ TypeOK
  BY Zenon DEF MuxInv, TypeOK
<1>2. PtsIncreasing /\ EventOrder /\ WriteInv
  BY Zenon DEF MuxInv
<1>3. ev.pts \in Int /\ ev.cue \in Nat /\ Place(ev) \in Int
  BY DEF Event, Place
<1>b. /\ Bump(trk, ev.pts) \in Int
      /\ last_pts[trk] # NOPTS => last_pts[trk] < Bump(trk, ev.pts)
  BY <1>1, <1>3, BumpFacts, Zenon
<1>e. \A t \in Tracks : \A i \in 1..Len(out[t]) :
        out[t][i] \in Event /\ out[t][i].pts \in Int /\ Place(out[t][i]) \in Int
  <2>1. \A t \in Tracks : \A i \in 1..Len(out[t]) : out[t][i] \in Event
    BY <1>1, SeqElement, Zenon
  <2> QED
    BY <2>1 DEF Event, Place
<1>n. NOPTS \notin Int
  BY Constants, Zenon
<1> DEFINE Goal(t) ==
      /\ \A i, j \in 1..Len(out'[t]) : i < j => out'[t][i].pts < out'[t][j].pts
      /\ \A i, j \in 1..Len(out'[t]) : i < j => Place(out'[t][i]) < Place(out'[t][j])
      /\ last_pts'[t] = NOPTS => out'[t] = <<>>
      /\ \A i \in 1..Len(out'[t]) :
           /\ out'[t][i].pts <= last_pts'[t]
           /\ out'[t][i].cue \in 1..Count(t)
<1>4. ASSUME NEW t \in Tracks, out'[t] = out[t], last_pts'[t] = last_pts[t]
      PROVE  Goal(t)
  BY <1>2, <1>4, Zenon DEF PtsIncreasing, EventOrder, WriteInv
<1>5. ASSUME out'[trk] = out[trk], last_pts'[trk] = Bump(trk, ev.pts)
      PROVE  Goal(trk)
  <2>1. \A i \in 1..Len(out[trk]) : last_pts[trk] # NOPTS
    BY <1>1, <1>2 DEF WriteInv
  <2>2. \A i \in 1..Len(out[trk]) : out[trk][i].pts <= Bump(trk, ev.pts)
    BY <1>1, <1>2, <1>b, <1>e, <2>1 DEF WriteInv
  <2> QED
    BY <1>1, <1>2, <1>5, <1>b, <1>n, <2>2, Zenon DEF PtsIncreasing, EventOrder, WriteInv
<1>6. ASSUME NEW data, Sent(trk, ev, data) \in Event,
             out'[trk] = Append(out[trk], Sent(trk, ev, data)),
             last_pts'[trk] = Bump(trk, ev.pts)
      PROVE  Goal(trk) /\ \A i \in 1..Len(out'[trk]) : Place(out'[trk][i]) <= Place(ev)
  <2> DEFINE o == out[trk]
             e == Sent(trk, ev, data)
             q == Append(o, e)
  <2>1. e \in Event /\ e.pts = Bump(trk, ev.pts) /\ e.cue = ev.cue /\ Place(e) = Place(ev)
    BY <1>6, Zenon DEF Sent, Place
  <2>2. o \in Seq(Event)
    BY <1>1, Zenon
  <2>3. /\ Len(q) = Len(o) + 1
        /\ \A i \in 1..Len(o) : q[i] = o[i]
        /\ q[Len(o) + 1] = e
        /\ \A i \in 1..Len(q) : i \in 1..Len(o) \/ i = Len(o) + 1
    <3> HIDE DEF o, e
    <3> QED
      BY <2>1, <2>2, AppendFacts
  <2>4. \A i \in 1..Len(o) : o[i].pts < Bump(trk, ev.pts) /\ o[i].cue \in 1..Count(trk)
    <3>1. \A i \in 1..Len(o) : last_pts[trk] # NOPTS
      BY <1>1, <1>2 DEF WriteInv
    <3> QED
      BY <1>1, <1>2, <1>b, <1>e, <3>1 DEF WriteInv
  <2>5. \A i \in 1..Len(o) : Place(o[i]) < Place(ev) /\ Place(o[i]) \in Int /\ o[i].pts \in Int
    BY <1>1, <1>e, Zenon
  <2>6. \A i, j \in 1..Len(o) : i < j => o[i].pts < o[j].pts /\ Place(o[i]) < Place(o[j])
    BY <1>1, <1>2, Zenon DEF PtsIncreasing, EventOrder
  <2>7. out'[trk] = q /\ Len(o) \in Nat
    BY <1>6, <2>2
  <2> HIDE DEF o, e, q
  <2>8. \A i \in 1..Len(q) : /\ q[i].pts <= Bump(trk, ev.pts)
                             /\ q[i].cue \in 1..Count(trk)
                             /\ Place(q[i]) <= Place(ev)
    BY <2>1, <2>3, <2>4, <2>5, <1>3, <1>b, SMTT(60)
  <2>9. \A i, j \in 1..Len(q) : i < j => q[i].pts < q[j].pts /\ Place(q[i]) < Place(q[j])
    <3> SUFFICES ASSUME NEW i \in 1..Len(q), NEW j \in 1..Len(q), i < j
                 PROVE  q[i].pts < q[j].pts /\ Place(q[i]) < Place(q[j])
      BY Zenon
    <3>1. i \in 1..Len(o)
      BY <2>3, <2>7
    <3>2. CASE j \in 1..Len(o)
      BY <3>1, <3>2, <2>3, <2>6, Zenon
    <3>3. CASE j = Len(o) + 1
      BY <3>1, <3>3, <2>1, <2>3, <2>4, <2>5, Zenon
    <3> QED
      BY <3>2, <3>3, <2>3, Zenon
  <2> QED
    BY <1>6, <1>b, <1>n, <2>7, <2>8, <2>9, Zenon
<1>7. \A i \in 1..Len(out[trk]) : Place(out[trk][i]) <= Place(ev)
  BY <1>1, <1>3, <1>e
<1>8. \A t \in Tracks : Goal(t)
  BY <1>1, <1>4, <1>5, <1>6, WriteEffect, Zenon
<1>9. \A i \in 1..Len(out'[trk]) : Place(out'[trk][i]) <= Place(ev)
  BY <1>6, <1>7, WriteEffect, Zenon
<1>10. PtsIncreasing' /\ EventOrder'
  BY <1>8, Zenon DEF PtsIncreasing, EventOrder, Place
<1> QED
  BY <1>8, <1>9, <1>10, Zenon

\* A call keeps DriftBounded if the bump stays within what the event is allowed.
LEMMA WriteDrift ==
  ASSUME MuxInv, NEW ev \in Event, EncodeAndWrite(trk, ev),
         UNCHANGED <<entries, delay, start0>>,
         ev.cue \in 1..Count(trk),
         ev.pts = Nominal(trk, ev),
         Roomy(trk) =>
           Bump(trk, ev.pts) <= ev.pts + IF ev.kind = "cue" THEN MS ELSE 0
  PROVE  DriftBounded'
<1> DEFINE Good(t, e) ==
      LET drift == e.pts - Nominal(t, e) IN
      0 <= drift /\ drift <= IF e.kind = "cue" THEN MS ELSE 0
<1>1. trk \in Tracks /\ TypeOK /\ out \in [Tracks -> Seq(Event)]
  BY Zenon DEF MuxInv, TypeOK
<1>2. \A t \in Tracks : Roomy(t) => \A i \in 1..Len(out[t]) : Good(t, out[t][i])
  BY Zenon DEF MuxInv, DriftBounded
<1>3. ev.pts \in Int
  BY Zenon DEF Event
<1>4. Bump(trk, ev.pts) \in Int /\ ev.pts <= Bump(trk, ev.pts)
  BY <1>1, <1>3, BumpFacts, Zenon
<1>5. ASSUME NEW data, Roomy(trk) PROVE Good(trk, Sent(trk, ev, data))
  <2>1. Nominal(trk, Sent(trk, ev, data)) = ev.pts
    BY Zenon DEF Nominal, Sent
  <2>2. Sent(trk, ev, data).pts = Bump(trk, ev.pts) /\ Sent(trk, ev, data).kind = ev.kind
    BY Zenon DEF Sent
  <2>3. MS \in Nat
    BY Constants, Zenon
  <2> QED
    BY <2>1, <2>2, <2>3, <1>3, <1>4, <1>5
<1> HIDE DEF Good
<1>6. \A t \in Tracks : Roomy(t) => \A i \in 1..Len(out'[t]) : Good(t, out'[t][i])
  <2> SUFFICES ASSUME NEW t \in Tracks, Roomy(t), NEW i \in 1..Len(out'[t])
               PROVE  Good(t, out'[t][i])
    BY Zenon
  <2>1. CASE out'[t] = out[t]
    BY <1>2, <2>1, Zenon
  <2>2. ASSUME NEW data, t = trk, Sent(trk, ev, data) \in Event,
               out'[trk] = Append(out[trk], Sent(trk, ev, data))
        PROVE  Good(t, out'[t][i])
    <3>1. out[trk] \in Seq(Event)
      BY <1>1, Zenon
    <3>2. i \in 1..Len(out[trk]) \/ i = Len(out[trk]) + 1
      BY <2>2, <3>1, AppendFacts
    <3>3. CASE i \in 1..Len(out[trk])
      BY <1>2, <2>2, <3>1, <3>3, AppendFacts
    <3>4. CASE i = Len(out[trk]) + 1
      BY <1>5, <2>2, <3>1, <3>4, AppendFacts
    <3> QED
      BY <3>2, <3>3, <3>4, Zenon
  <2> QED
    BY <2>1, <2>2, WriteEffect, Zenon
<1> QED
  BY <1>6, Zenon DEF DriftBounded, Roomy, Nominal, StartTick, EndTick, Good, Count

-----------------------------------------------------------------------------
(* Events: time stamps, order and drift.                                   *)

Events == WriteInv /\ PtsIncreasing /\ EventOrder /\ DriftInv /\ DriftBounded

\* The drift of the events written so far depends on the cues and these events only.
LEMMA DriftFrame ==
  ASSUME DriftBounded, UNCHANGED <<entries, delay, start0, out>>
  PROVE  DriftBounded'
  BY ZenonT(60) DEF DriftBounded, Roomy, Count, Nominal, StartTick, EndTick

\* Steps that neither write nor move from cue to CLEAR to the next cue.
LEMMA QuietEvents ==
  ASSUME MuxInv, UNCHANGED <<entries, delay, start0, out, last_pts, cur_sub>>,
         (pc # "clear" /\ pc' # "clear") \/ UNCHANGED <<pc, trk>>
  PROVE  Events'
<1>1. \A t \in Tracks : Clearing(t)' = Clearing(t)
  BY Zenon DEF Clearing
<1>2. WriteInv /\ PtsIncreasing /\ EventOrder /\ DriftInv /\ DriftBounded
  BY Zenon DEF MuxInv
<1>3. WriteInv'
  BY <1>1, <1>2, Zenon DEF WriteInv, Count, Place
<1>4. PtsIncreasing' /\ EventOrder'
  BY <1>2 DEF PtsIncreasing, EventOrder, Place
<1>5. DriftInv'
  BY <1>1, <1>2, Zenon DEF DriftInv, Roomy, Count, StartTick, EndTick
<1>6. DriftBounded'
  BY <1>2, DriftFrame, Zenon
<1> QED
  BY <1>3, <1>4, <1>5, <1>6, Zenon DEF Events

\* While a cue is worked on, cur_sub points to it, and what was written on the
\* track is at most at the end of the cue before.
LEMMA CurrentCue ==
  ASSUME MuxInv, pc \in Busy
  PROVE  /\ trk \in Tracks
         /\ cur_sub[trk] \in 1..Count(trk)
         /\ start0 \in Int
         /\ StartTick(trk, cur_sub[trk]) \in Int
         /\ EndTick(trk, cur_sub[trk]) \in Int
         /\ StartTick(trk, cur_sub[trk]) <= EndTick(trk, cur_sub[trk])
         /\ (pc # "clear" /\ Roomy(trk) /\ last_pts[trk] # NOPTS) =>
              last_pts[trk] <= start0 + StartTick(trk, cur_sub[trk])
<1>1. /\ TypeOK /\ trk \in Tracks /\ cur_sub[trk] \in Nat \ {0}
      /\ entries[trk] \in CueLists /\ start0 \in InputStarts
      /\ last_pts[trk] \in Int \cup {NOPTS}
  BY Zenon DEF MuxInv, TypeOK
<1>2. Due(trk)
  BY Zenon DEF MuxInv, LoopInv
<1>3. Count(trk) \in Nat
  BY <1>1, CueAssumption DEF Count
<1>4. cur_sub[trk] \in 1..Count(trk)
  BY <1>1, <1>2, <1>3 DEF Due
<1>5. start0 \in Int
  BY <1>1, Constants, Zenon
<1>6. ASSUME pc # "clear", Roomy(trk), last_pts[trk] # NOPTS
      PROVE  last_pts[trk] <= start0 + StartTick(trk, cur_sub[trk])
  <2>1. /\ cur_sub[trk] - 1 \in 1..Count(trk)
        /\ last_pts[trk] <= start0 + EndTick(trk, cur_sub[trk] - 1)
    BY <1>1, <1>6, Zenon DEF MuxInv, DriftInv, Clearing
  <2>2. EndTick(trk, cur_sub[trk] - 1) <= StartTick(trk, cur_sub[trk])
    BY <1>1, <1>4, <2>1, CueTicks
  <2>3. EndTick(trk, cur_sub[trk] - 1) \in Int /\ StartTick(trk, cur_sub[trk]) \in Int
    BY <1>1, <1>4, <2>1, CueTicks, Zenon
  <2> QED
    BY <1>1, <1>5, <1>6, <2>1, <2>2, <2>3
<1> QED
  BY <1>1, <1>4, <1>5, <1>6, CueTicks, Zenon

\* The cue event.
LEMMA EmitEvents ==
  ASSUME MuxInv, EmitCue
  PROVE  Events'
<1> DEFINE k == cur_sub[trk]
           ev == [kind |-> "cue", cue |-> k, pts |-> start0 + StartTick(trk, k), data |-> bm]
<1>1. /\ pc = "encode" /\ pc' = "clear"
      /\ UNCHANGED <<entries, delay, start0, trk, cur_sub>>
      /\ (last_pts' = last_pts /\ out' = out) \/ EncodeAndWrite(trk, ev)
  BY Zenon DEF EmitCue, inputVars, writeVars
<1>2. /\ trk \in Tracks /\ k \in 1..Count(trk) /\ start0 \in Int
      /\ StartTick(trk, k) \in Int /\ EndTick(trk, k) \in Int
      /\ (Roomy(trk) /\ last_pts[trk] # NOPTS) => last_pts[trk] <= start0 + StartTick(trk, k)
  BY <1>1, CurrentCue, Zenon DEF Busy
<1>3. /\ TypeOK /\ bm \in Pictures /\ last_pts \in [Tracks -> Int \cup {NOPTS}]
      /\ cur_sub \in [Tracks -> Nat \ {0}] /\ out \in [Tracks -> Seq(Event)]
  BY Zenon DEF MuxInv, TypeOK
<1>4. ev \in Event
  BY <1>2, <1>3 DEF Event
<1>5. /\ WriteInv /\ DriftInv
      /\ \A t \in Tracks : ~Clearing(t)
      /\ \A t \in Tracks : Clearing(t)' = (t = trk)
  BY <1>1, Zenon DEF MuxInv, Clearing
<1>6. CASE last_pts' = last_pts /\ out' = out
  <2>1. \A t \in Tracks : \A i \in 1..Len(out[t]) : Place(out[t][i]) \in Int
    <3>1. \A t \in Tracks : \A i \in 1..Len(out[t]) : out[t][i] \in Event
      BY <1>3, SeqElement, Zenon
    <3> QED
      BY <3>1, SMTT(60) DEF Event, Place
  <2>2. WriteInv'
    BY <1>1, <1>3, <1>5, <1>6, <2>1 DEF WriteInv, Count, Place
  <2>3. DriftInv'
    <3>1. MS \in Nat
      BY Constants, Zenon
    <3>2. (Roomy(trk) /\ last_pts[trk] # NOPTS) =>
             last_pts[trk] <= start0 + StartTick(trk, k) + MS
      BY <1>2, <1>3, <3>1
    <3> QED
      BY <1>1, <1>3, <1>5, <1>6, <3>2, Zenon DEF DriftInv, Roomy, Count, StartTick, EndTick
  <2>4. PtsIncreasing' /\ EventOrder'
    BY <1>6, SMTT(60) DEF MuxInv, PtsIncreasing, EventOrder, Place
  <2>5. DriftBounded'
    BY <1>1, <1>6, DriftFrame, Zenon DEF MuxInv
  <2> QED
    BY <2>2, <2>3, <2>4, <2>5, Zenon DEF Events
<1>7. CASE EncodeAndWrite(trk, ev)
  <2>1. Place(ev) = 2 * k /\ ev.cue = k /\ ev.kind = "cue" /\ ev.pts = start0 + StartTick(trk, k)
    BY <1>2, <1>3 DEF Place
  <2>2. \A i \in 1..Len(out[trk]) : Place(out[trk][i]) < Place(ev)
    BY <1>2, <1>3, <1>5, <2>1 DEF WriteInv
  <2>3. ev.pts = Nominal(trk, ev)
    BY <2>1, Zenon DEF Nominal
  <2>4. Roomy(trk) => Bump(trk, ev.pts) <= ev.pts + MS
    <3>1. MS \in Nat /\ ev.pts \in Int /\ last_pts[trk] \in Int \cup {NOPTS} /\ NOPTS \notin Int
      BY <1>2, <1>3, <2>1, Constants
    <3>2. Bump(trk, ev.pts) = ev.pts \/ (last_pts[trk] # NOPTS /\ ev.pts <= last_pts[trk]
                                           /\ Bump(trk, ev.pts) = last_pts[trk] + MS)
      BY <1>2, <1>3, <3>1, BumpFacts, Zenon
    <3> QED
      BY <1>2, <2>1, <3>1, <3>2
  <2> HIDE DEF ev
  <2>5. /\ PtsIncreasing' /\ EventOrder'
        /\ \A t \in Tracks :
             /\ last_pts'[t] = NOPTS => out'[t] = <<>>
             /\ \A i \in 1..Len(out'[t]) :
                  /\ out'[t][i].pts <= last_pts'[t]
                  /\ out'[t][i].cue \in 1..Count(t)
        /\ \A i \in 1..Len(out'[trk]) : Place(out'[trk][i]) <= 2 * k
    BY <1>1, <1>2, <1>4, <1>7, <2>1, <2>2, WriteOrder, Zenon
  <2>6. DriftBounded'
    BY <1>1, <1>2, <1>4, <1>7, <2>1, <2>3, <2>4, WriteDrift, Zenon
  <2>7. \A t \in Tracks : t # trk => out'[t] = out[t] /\ last_pts'[t] = last_pts[t]
    BY <1>4, <1>7, WriteEffect, Zenon
  <2>8. out' \in [Tracks -> Seq(Event)]
    BY <1>4, <1>7, WriteEffect, Zenon
  <2>9. WriteInv'
    <3>1. ASSUME NEW t \in Tracks, NEW i \in 1..Len(out'[t])
          PROVE  Place(out'[t][i]) < 2 * cur_sub[t] + IF t = trk THEN 1 ELSE 0
      <4>1. out'[t][i] \in Event
        BY <2>8, SeqElement, Zenon
      <4>2. Place(out'[t][i]) \in Int
        BY <4>1 DEF Event, Place
      <4>3. CASE t = trk
        BY <1>2, <2>5, <4>2, <4>3
      <4>4. CASE t # trk
        BY <1>3, <1>5, <2>7, <4>4, Zenon DEF WriteInv
      <4> QED
        BY <4>3, <4>4, Zenon
    <3> QED
      BY <1>1, <1>5, <2>5, <3>1, Zenon DEF WriteInv, Count, Place
  <2>10. DriftInv'
    <3>1. (Roomy(trk) /\ last_pts'[trk] # NOPTS) =>
             last_pts'[trk] <= start0 + StartTick(trk, k) + MS
      <4>1. last_pts'[trk] = last_pts[trk] \/ last_pts'[trk] = Bump(trk, ev.pts)
        BY <1>4, <1>7, WriteEffect, Zenon
      <4> QED
        BY <1>2, <1>3, <2>1, <2>4, <4>1, Constants
    <3> QED
      BY <1>1, <1>3, <1>5, <2>7, <3>1, Zenon DEF DriftInv, Roomy, Count, StartTick, EndTick
  <2> QED
    BY <2>5, <2>6, <2>9, <2>10, Zenon DEF Events
<1> QED
  BY <1>1, <1>6, <1>7, Zenon

\* Moving on to the next cue without writing.
LEMMA AdvanceEvents ==
  ASSUME MuxInv, pc \in {"encode", "clear"}, pc' = "cues",
         UNCHANGED <<entries, delay, start0, trk, out, last_pts>>,
         cur_sub' = [cur_sub EXCEPT ![trk] = @ + 1]
  PROVE  Events'
<1> DEFINE k == cur_sub[trk]
<1>1. /\ trk \in Tracks /\ k \in 1..Count(trk) /\ start0 \in Int
      /\ StartTick(trk, k) \in Int /\ EndTick(trk, k) \in Int
      /\ StartTick(trk, k) <= EndTick(trk, k)
      /\ (pc # "clear" /\ Roomy(trk) /\ last_pts[trk] # NOPTS) =>
           last_pts[trk] <= start0 + StartTick(trk, k)
  BY CurrentCue, Zenon DEF Busy
<1>2. /\ TypeOK /\ last_pts \in [Tracks -> Int \cup {NOPTS}]
      /\ cur_sub \in [Tracks -> Nat \ {0}] /\ out \in [Tracks -> Seq(Event)]
  BY Zenon DEF MuxInv, TypeOK
<1>3. /\ WriteInv /\ DriftInv
      /\ \A t \in Tracks : t # trk => ~Clearing(t)
      /\ \A t \in Tracks : ~Clearing(t)'
  BY Zenon DEF MuxInv, Clearing
<1>4. cur_sub'[trk] = k + 1 /\ \A t \in Tracks : t # trk => cur_sub'[t] = cur_sub[t]
  BY <1>1, <1>2, Zenon
<1>5. \A t \in Tracks : \A i \in 1..Len(out[t]) : Place(out[t][i]) \in Int
  <2>1. \A t \in Tracks : \A i \in 1..Len(out[t]) : out[t][i] \in Event
    BY <1>2, SeqElement, Zenon
  <2> QED
    <3>1. \A e \in Event : Place(e) \in Int
      BY DEF Event, Place
    <3> QED
      BY <2>1, <3>1, ZenonT(60)
<1>6. WriteInv'
  <2>1. ASSUME NEW t \in Tracks, NEW i \in 1..Len(out[t])
        PROVE  Place(out[t][i]) < 2 * cur_sub'[t]
    <3>1. CASE t = trk
      <4>1. Place(out[trk][i]) < 2 * k + IF Clearing(trk) THEN 1 ELSE 0
        BY <1>1, <1>3, <3>1, Zenon DEF WriteInv
      <4>2. k \in Nat /\ Place(out[trk][i]) \in Int
        BY <1>1, <1>2, <1>5, <3>1, Zenon
      <4> HIDE DEF k
      <4> QED
        BY <1>4, <3>1, <4>1, <4>2
    <3>2. CASE t # trk
      BY <1>2, <1>3, <1>4, <3>2 DEF WriteInv
    <3> QED
      BY <3>1, <3>2, ZenonT(60)
  <2>2. \A t \in Tracks : 2 * cur_sub'[t] + 0 = 2 * cur_sub'[t]
    BY <1>1, <1>2, <1>4
  <2> QED
    BY <1>3, <2>1, <2>2, Zenon DEF WriteInv, Count, Place
<1>7. DriftInv'
  <2>1. ASSUME Roomy(trk), last_pts[trk] # NOPTS
        PROVE  last_pts[trk] <= start0 + EndTick(trk, k)
    <3>0. MS \in Nat /\ last_pts[trk] \in Int
      BY <1>1, <1>2, <2>1, Constants, Zenon
    <3>1. CASE pc = "clear"
      <4>1. last_pts[trk] <= start0 + StartTick(trk, k) + MS
        BY <1>1, <1>3, <2>1, <3>1, Zenon DEF DriftInv, Clearing
      <4>2. StartTick(trk, k) + MS + MS <= EndTick(trk, k)
        BY <1>1, <1>2, <2>1, CueTicks, Zenon
      <4> QED
        BY <1>1, <3>0, <4>1, <4>2
    <3>2. CASE pc # "clear"
      BY <1>1, <2>1, <3>0, <3>2
    <3> QED
      BY <3>1, <3>2, Zenon
  <2>2. cur_sub'[trk] - 1 = k
    BY <1>1, <1>2, <1>4
  <2> QED
    BY <1>1, <1>3, <1>4, <2>1, <2>2, Zenon DEF DriftInv, Roomy, Count, StartTick, EndTick
<1>8. PtsIncreasing' /\ EventOrder'
  BY SMTT(60) DEF MuxInv, PtsIncreasing, EventOrder, Place
<1>9. DriftBounded'
  BY DEF MuxInv, DriftBounded, Roomy, Count, Nominal, StartTick, EndTick
<1> QED
  BY <1>6, <1>7, <1>8, <1>9, Zenon DEF Events

\* The CLEAR event.
LEMMA ClearEvents ==
  ASSUME MuxInv, ClearCue
  PROVE  Events'
<1> DEFINE k == cur_sub[trk]
           ev == [kind |-> "clear", cue |-> k, pts |-> start0 + EndTick(trk, k),
                  data |-> Cleared]
<1>1. /\ pc = "clear" /\ pc' = "cues"
      /\ UNCHANGED <<entries, delay, start0, trk>>
      /\ cur_sub' = [cur_sub EXCEPT ![trk] = @ + 1]
      /\ (last_pts' = last_pts /\ out' = out) \/ EncodeAndWrite(trk, ev)
  BY Zenon DEF ClearCue, inputVars, writeVars
<1>2. /\ trk \in Tracks /\ k \in 1..Count(trk) /\ start0 \in Int
      /\ StartTick(trk, k) \in Int /\ EndTick(trk, k) \in Int
  BY <1>1, CurrentCue, Zenon DEF Busy
<1>3. /\ TypeOK /\ last_pts \in [Tracks -> Int \cup {NOPTS}]
      /\ cur_sub \in [Tracks -> Nat \ {0}] /\ out \in [Tracks -> Seq(Event)]
      /\ Cleared \in Pictures
  BY Zenon DEF MuxInv, TypeOK, Cleared, Pictures
<1>4. ev \in Event
  BY <1>2, <1>3 DEF Event
<1>5. /\ WriteInv /\ DriftInv
      /\ \A t \in Tracks : Clearing(t) = (t = trk)
      /\ \A t \in Tracks : ~Clearing(t)'
  BY <1>1, Zenon DEF MuxInv, Clearing
<1>6. cur_sub'[trk] = k + 1 /\ \A t \in Tracks : t # trk => cur_sub'[t] = cur_sub[t]
  BY <1>1, <1>2, <1>3, Zenon
<1>7. CASE EncodeAndWrite(trk, ev)
  <2>1. /\ Place(ev) = 2 * k + 1 /\ ev.cue = k /\ ev.kind = "clear"
        /\ ev.pts = start0 + EndTick(trk, k)
    BY <1>2, <1>3, Zenon DEF Place
  <2>2. \A i \in 1..Len(out[trk]) : Place(out[trk][i]) < Place(ev)
    BY <1>2, <1>3, <1>5, <2>1, Zenon DEF WriteInv
  <2>3. ev.pts = Nominal(trk, ev)
    BY <2>1, Zenon DEF Nominal
  <2>4. Roomy(trk) =>
          /\ Bump(trk, ev.pts) <= ev.pts + 0
          /\ last_pts[trk] # NOPTS => last_pts[trk] <= ev.pts
    <3> SUFFICES ASSUME Roomy(trk)
                 PROVE  /\ Bump(trk, ev.pts) <= ev.pts + 0
                        /\ last_pts[trk] # NOPTS => last_pts[trk] <= ev.pts
      BY ZenonT(60)
    <3>1. /\ MS \in Nat /\ MS > 0 /\ ev.pts \in Int
          /\ last_pts[trk] \in Int \cup {NOPTS} /\ NOPTS \notin Int
      BY <1>2, <1>3, <2>1, Constants
    <3>2. Bump(trk, ev.pts) = ev.pts \/ (last_pts[trk] # NOPTS /\ ev.pts <= last_pts[trk])
      BY <1>2, <1>3, <3>1, BumpFacts, Zenon
    <3>3. StartTick(trk, k) + MS + MS <= EndTick(trk, k)
      BY <1>2, <1>3, CueTicks, Zenon
    <3>4. last_pts[trk] # NOPTS => last_pts[trk] <= start0 + StartTick(trk, k) + MS
      BY <1>2, <1>5, Zenon DEF DriftInv
    <3> QED
      BY <1>2, <2>1, <3>1, <3>2, <3>3, <3>4, SMTT(60)
  <2> HIDE DEF ev
  <2>5. /\ PtsIncreasing' /\ EventOrder'
        /\ \A t \in Tracks :
             /\ last_pts'[t] = NOPTS => out'[t] = <<>>
             /\ \A i \in 1..Len(out'[t]) :
                  /\ out'[t][i].pts <= last_pts'[t]
                  /\ out'[t][i].cue \in 1..Count(t)
        /\ \A i \in 1..Len(out'[trk]) : Place(out'[trk][i]) <= 2 * k + 1
    BY <1>1, <1>2, <1>4, <1>7, <2>1, <2>2, WriteOrder, Zenon
  <2>6. DriftBounded'
    BY <1>1, <1>2, <1>4, <1>7, <2>1, <2>3, <2>4, WriteDrift, Zenon
  <2>7. \A t \in Tracks : t # trk => out'[t] = out[t] /\ last_pts'[t] = last_pts[t]
    BY <1>4, <1>7, WriteEffect, Zenon
  <2>8. out' \in [Tracks -> Seq(Event)]
    BY <1>4, <1>7, WriteEffect, Zenon
  <2>9. WriteInv'
    <3>1. ASSUME NEW t \in Tracks, NEW i \in 1..Len(out'[t])
          PROVE  Place(out'[t][i]) < 2 * cur_sub'[t] + 0
      <4>1. out'[t][i] \in Event
        BY <2>8, SeqElement, Zenon
      <4>2. Place(out'[t][i]) \in Int
        BY <4>1 DEF Event, Place
      <4>3. CASE t = trk
        BY <1>2, <1>3, <1>6, <2>5, <4>2, <4>3, SMTT(60)
      <4>4. CASE t # trk
        BY <1>3, <1>5, <1>6, <2>7, <4>4, Zenon DEF WriteInv
      <4> QED
        BY <4>3, <4>4, Zenon
    <3> QED
      BY <1>1, <1>5, <2>5, <3>1, Zenon DEF WriteInv, Count, Place
  <2>10. DriftInv'
    <3>1. (Roomy(trk) /\ last_pts'[trk] # NOPTS) =>
             last_pts'[trk] <= start0 + EndTick(trk, k)
      <4>1. last_pts'[trk] = last_pts[trk] \/ last_pts'[trk] = Bump(trk, ev.pts)
        BY <1>4, <1>7, WriteEffect, Zenon
      <4> QED
        BY <1>2, <2>1, <2>4, <4>1
    <3>2. cur_sub'[trk] - 1 = k
      BY <1>2, <1>3, <1>6
    <3> QED
      BY <1>1, <1>2, <1>3, <1>5, <1>6, <2>7, <3>1, <3>2, Zenon
      DEF DriftInv, Roomy, Count, StartTick, EndTick
  <2> QED
    BY <2>5, <2>6, <2>9, <2>10, Zenon DEF Events
<1>8. CASE last_pts' = last_pts /\ out' = out
  BY <1>1, <1>8, AdvanceEvents, Zenon
<1> QED
  BY <1>1, <1>7, <1>8, Zenon

-----------------------------------------------------------------------------
(* Jobs of the pool.                                                       *)

JobsTyped ==
  /\ jobs = [t \in Tracks |-> [k \in 1..Count(t) |-> jobs[t][k]]]
  /\ \A t \in Tracks : \A k \in 1..Count(t) : jobs[t][k] \in Seq(Job)

\* Jobs render the cue of their key.
JobsMatch ==
  \A t \in Tracks : \A k \in 1..Count(t) : \A i \in 1..Len(jobs[t][k]) :
    jobs[t][k][i].data \in {Picture(t, k), Empty}

\* Replacing the jobs of one key by matching ones.
LEMMA JobsUpdate ==
  ASSUME JobsTyped, JobsMatch, NEW t \in Tracks, NEW k \in 1..Count(t),
         NEW q \in Seq(Job),
         \A i \in 1..Len(q) : q[i].data \in {Picture(t, k), Empty},
         jobs' = [jobs EXCEPT ![t][k] = q], entries' = entries
  PROVE  JobsTyped' /\ JobsMatch'
<1>1. /\ jobs'[t][k] = q
      /\ \A u \in Tracks : \A j \in 1..Count(u) :
           u # t \/ j # k => jobs'[u][j] = jobs[u][j]
  BY SMTT(60) DEF JobsTyped
<1>2. jobs' = [u \in Tracks |-> [j \in 1..Count(u) |-> jobs'[u][j]]]
  BY Zenon DEF JobsTyped
<1>3. \A u \in Tracks : \A j \in 1..Count(u) : jobs'[u][j] \in Seq(Job)
  BY <1>1, Zenon DEF JobsTyped
<1>4. JobsTyped'
  BY <1>2, <1>3, Zenon DEF JobsTyped, Count
<1>5. \A u \in Tracks : \A j \in 1..Count(u) : \A i \in 1..Len(jobs'[u][j]) :
        jobs'[u][j][i].data \in {Picture(u, j), Empty}
  BY <1>1, SMTT(60) DEF JobsMatch
<1>6. JobsMatch'
  BY <1>5, Zenon DEF JobsMatch, Count, Picture, Empty
<1> QED
  BY <1>4, <1>6, Zenon

\* Taking the newest job of a key away.
LEMMA CollectJobs ==
  ASSUME MuxInv, Collect, trk \in Tracks, cur_sub[trk] \in 1..Count(trk)
  PROVE  JobsTyped' /\ JobsMatch' /\ bm' \in {Picture(trk, cur_sub[trk]), Empty}
<1> DEFINE k == cur_sub[trk]
           q == jobs[trk][k]
<1>1. JobsTyped /\ JobsMatch
  BY Zenon DEF MuxInv, TypeOK, PictureInv, JobsTyped, JobsMatch
<1>2. /\ q # <<>> /\ bm' = q[1].data /\ entries' = entries
      /\ jobs' = [jobs EXCEPT ![trk][k] = Tail(@)]
  BY Zenon DEF Collect, Ready, Known, Keyed, inputVars
<1>3. jobs' = [jobs EXCEPT ![trk][k] = Tail(q)]
  BY <1>1, <1>2, Zenon DEF JobsTyped
<1>4. q \in Seq(Job) /\ \A i \in 1..Len(q) : q[i].data \in {Picture(trk, k), Empty}
  BY <1>1, Zenon DEF JobsTyped, JobsMatch
<1> HIDE DEF q
<1>5. /\ Tail(q) \in Seq(Job) /\ 1 \in 1..Len(q)
      /\ \A i \in 1..Len(Tail(q)) : i + 1 \in 1..Len(q) /\ Tail(q)[i] = q[i + 1]
  BY <1>2, <1>4
<1>6. \A i \in 1..Len(Tail(q)) : Tail(q)[i].data \in {Picture(trk, k), Empty}
  BY <1>4, <1>5, Zenon
<1>7. JobsTyped' /\ JobsMatch'
  BY <1>1, <1>2, <1>3, <1>5, <1>6, JobsUpdate, Zenon
<1> QED
  BY <1>2, <1>4, <1>5, <1>7, Zenon

\* A new job in front.
LEMMA PrefetchJobs ==
  ASSUME MuxInv, Prefetch, trk \in Tracks, cur_sub[trk] \in 1..Count(trk)
  PROVE  JobsTyped' /\ JobsMatch'
<1> DEFINE k == cur_sub[trk] + pi
           q == jobs[trk][k]
           job == [done |-> FALSE, data |-> Picture(trk, k)]
<1>1. JobsTyped /\ JobsMatch /\ pi \in Nat /\ cur_sub[trk] \in Nat /\ trk \in Nat
  BY MuxAssumption DEF MuxInv, TypeOK, PictureInv, JobsTyped, JobsMatch, Tracks
<1>2. /\ k <= Count(trk) /\ entries' = entries
      /\ jobs' = [jobs EXCEPT ![trk][k] = <<job>> \o @] \/ jobs' = jobs
  BY Zenon DEF Prefetch, Prefetched, inputVars
<1>3. k \in 1..Count(trk)
  BY <1>1, <1>2
<1>4. CASE jobs' = jobs
  BY <1>1, <1>2, <1>4, Zenon DEF JobsTyped, JobsMatch, Count
<1>5. CASE jobs' = [jobs EXCEPT ![trk][k] = <<job>> \o @]
  <2>1. jobs' = [jobs EXCEPT ![trk][k] = <<job>> \o q]
    BY <1>1, <1>3, <1>5, Zenon DEF JobsTyped
  <2>2. q \in Seq(Job) /\ \A i \in 1..Len(q) : q[i].data \in {Picture(trk, k), Empty}
    BY <1>1, <1>3, Zenon DEF JobsTyped, JobsMatch
  <2>3. job \in Job /\ job.data = Picture(trk, k)
    BY <1>1 DEF Job, Picture, Pictures
  <2> HIDE DEF q, job, k
  <2>4. /\ <<job>> \o q \in Seq(Job)
        /\ \A i \in 1..Len(<<job>> \o q) :
             \/ (<<job>> \o q)[i] = job
             \/ i - 1 \in 1..Len(q) /\ (<<job>> \o q)[i] = q[i - 1]
    BY <2>2, <2>3
  <2>5. \A i \in 1..Len(<<job>> \o q) : (<<job>> \o q)[i].data \in {Picture(trk, k), Empty}
    BY <2>2, <2>3, <2>4, Zenon
  <2> QED
    BY <1>1, <1>2, <1>3, <2>1, <2>4, <2>5, JobsUpdate, Zenon
<1> QED
  BY <1>2, <1>4, <1>5, Zenon

\* A job finishes.
LEMMA RenderJobs ==
  ASSUME MuxInv, NEW t \in Tracks, NEW k \in 1..Count(t),
         NEW i \in 1..Len(jobs[t][k]), PoolRender(t, k, i)
  PROVE  JobsTyped' /\ JobsMatch'
<1> DEFINE q == jobs[t][k]
<1>1. JobsTyped /\ JobsMatch
  BY Zenon DEF MuxInv, TypeOK, PictureInv, JobsTyped, JobsMatch
<1>2. q \in Seq(Job) /\ \A n \in 1..Len(q) : q[n].data \in {Picture(t, k), Empty}
  BY <1>1, Zenon DEF JobsTyped, JobsMatch
<1>3. PICK data \in {q[i].data, Empty} :
        jobs' = [jobs EXCEPT ![t][k][i] = [done |-> TRUE, data |-> data]]
  BY Zenon DEF PoolRender
<1>4. entries' = entries
  BY Zenon DEF PoolRender, inputVars
<1> DEFINE job == [done |-> TRUE, data |-> data]
           r == [q EXCEPT ![i] = job]
<1>5. jobs' = [jobs EXCEPT ![t][k] = r]
  BY <1>1, <1>3, Zenon DEF JobsTyped
<1>6. data \in {Picture(t, k), Empty} /\ job \in Job /\ job.data = data
  <2>1. q[i] \in Job
    BY <1>2, SeqElement, Zenon
  <2>2. data \in Pictures
    BY <2>1 DEF Job, Empty, Pictures
  <2>3. data \in {Picture(t, k), Empty}
    BY <1>2, Zenon
  <2> QED
    BY <2>2, <2>3, Zenon DEF Job
<1> HIDE DEF q, job
<1>7. /\ r \in Seq(Job) /\ Len(r) = Len(q)
      /\ \A n \in 1..Len(q) : r[n] = IF n = i THEN job ELSE q[n]
  BY <1>2, <1>6 DEF q
<1>8. \A n \in 1..Len(r) : r[n].data \in {Picture(t, k), Empty}
  BY <1>2, <1>6, <1>7, Zenon
<1> HIDE DEF r
<1> QED
  BY <1>1, <1>4, <1>5, <1>7, <1>8, JobsUpdate, Zenon

-----------------------------------------------------------------------------
(* Types, and the position of the loop.                                    *)

\* Everything TypeOK says of a variable other than jobs and the written events.
PlainTypes ==
  /\ entries \in [Tracks -> CueLists]
  /\ delay \in [Tracks -> Delays]
  /\ start0 \in InputStarts
  /\ stop \in BOOLEAN
  /\ pc \in PCs
  /\ pkt \in [stream : InputStreams \cup LateStreams \cup {NOPTS},
              time : PacketTimes \cup {NOPTS}]
  /\ last_valid \in PacketTimes \cup {NOPTS}
  /\ trk \in Tracks
  /\ cur_sub \in [Tracks -> Nat \ {0}]
  /\ pi \in 0..PREFETCH_WINDOW
  /\ bm \in Pictures
  /\ saved \in [Tracks -> Seq(Pictures)]
  /\ leaked \subseteq Pictures
  /\ fed \subseteq InputStreams \cup LateStreams
  /\ peak \in PacketTimes \cup {NOPTS}

WriteTypes ==
  /\ last_pts \in [Tracks -> Int \cup {NOPTS}]
  /\ enc \in [Tracks -> [size : 0..MAX_SUB_BUF_SIZE, full : Nat]]
  /\ out \in [Tracks -> Seq(Event)]

LEMMA TypeParts == TypeOK <=> PlainTypes /\ WriteTypes /\ JobsTyped
<1> QED
  BY Zenon DEF TypeOK, PlainTypes, WriteTypes, JobsTyped

LEMMA TypePartsPrime == TypeOK' <=> PlainTypes' /\ WriteTypes' /\ JobsTyped'
<1> QED
  BY Zenon DEF TypeOK, PlainTypes, WriteTypes, JobsTyped

\* Appending to the pictures saved on the current track.
LEMMA SavedType ==
  ASSUME PlainTypes, NEW pic \in {bm, Empty}, saved' = [saved EXCEPT ![trk] = Append(@, pic)]
  PROVE  /\ saved' \in [Tracks -> Seq(Pictures)]
         /\ pic \in Pictures
         /\ saved'[trk] = Append(saved[trk], pic)
         /\ \A t \in Tracks : t # trk => saved'[t] = saved[t]
<1>1. saved \in [Tracks -> Seq(Pictures)] /\ trk \in Tracks /\ pic \in Pictures
  BY SMTT(60) DEF PlainTypes, Empty, Pictures
<1>2. Append(saved[trk], pic) \in Seq(Pictures)
  BY <1>1, AppendFacts, Zenon
<1> QED
  BY <1>1, <1>2, Zenon

\* Each step of the loop keeps the plain types.
LEMMA PlainStep ==
  ASSUME MuxInv, PlainTypes, Next
  PROVE  PlainTypes'
<1>0. NTracks \in Nat /\ NTracks > 0 /\ PREFETCH_WINDOW \in Nat
  BY MuxAssumption
<1> USE DEF PlainTypes, PCs, inputVars, loopVars, cueVars, writeVars, copyVars
<1>1. CASE Signal
  BY <1>1, Zenon DEF Signal
<1>2. CASE EndLoop
  BY <1>2, Zenon DEF EndLoop
<1>3. CASE SkipPacket \/ Returned
  BY <1>3, Zenon DEF SkipPacket, Returned, vars
<1>4. ASSUME NEW s \in InputStreams \cup LateStreams, NEW time \in PacketTimes \cup {NOPTS},
             ReadPacket(s, time)
      PROVE  PlainTypes'
  BY <1>0, <1>4 DEF ReadPacket, Tracks
<1>5. CASE NextTrack
  BY <1>0, <1>5 DEF NextTrack, Tracks
<1>6. CASE Collect
  <2>1. Due(trk) /\ cur_sub[trk] \in Nat \ {0} /\ trk \in Tracks
    BY <1>6, Zenon DEF Collect, MuxInv, LoopInv, Busy
  <2>2. Count(trk) \in Nat
    BY CueAssumption DEF Count
  <2>3. cur_sub[trk] \in 1..Count(trk)
    BY <2>1, <2>2 DEF Due
  <2>4. bm' \in {Picture(trk, cur_sub[trk]), Empty}
    BY <1>6, <2>1, <2>3, CollectJobs, Zenon
  <2>5. bm' \in Pictures
    BY <1>0, <2>1, <2>4 DEF Picture, Empty, Pictures, Tracks
  <2> QED
    BY <1>6, <2>5, Zenon DEF Collect
<1>7. CASE GoSync
  BY <1>7, Zenon DEF GoSync
<1>8. CASE GoPrefetch
  BY <1>0, <1>8, SMTT(60) DEF GoPrefetch
<1>9. CASE Prefetch
  BY <1>0, <1>9 DEF Prefetch
<1>10. CASE PrefetchDone
  BY <1>0, <1>10 DEF PrefetchDone
<1>11. CASE Render
  <2>1. bm' \in Pictures
    BY <1>0, <1>11 DEF Render, Picture, Empty, Pictures, Tracks
  <2> QED
    BY <1>11, <2>1, Zenon DEF Render
<1>12. CASE EmitCue
  <2>1. bm' \in Pictures /\ leaked' \subseteq Pictures
    BY <1>12, Zenon DEF EmitCue, NoBitmap, Pictures
  <2>2. saved' \in [Tracks -> Seq(Pictures)]
    BY <1>12, SavedType, Zenon DEF EmitCue, SaveBitmap
  <2>3. /\ UNCHANGED <<entries, delay, start0, stop, pkt, last_valid, trk, cur_sub, pi,
                       fed, peak>>
        /\ pc' = "clear"
    BY <1>12, Zenon DEF EmitCue
  <2> QED
    BY <2>1, <2>2, <2>3, Zenon
<1>13. CASE ClearCue
  <2>1. /\ UNCHANGED <<entries, delay, start0, stop, pkt, last_valid, trk, pi, bm, leaked,
                       saved, fed, peak>>
        /\ pc' = "cues" /\ cur_sub' = [cur_sub EXCEPT ![trk] = @ + 1]
    BY <1>13, Zenon DEF ClearCue
  <2> QED
    BY <2>1
<1>14. CASE SavePng
  <2>1. saved' \in [Tracks -> Seq(Pictures)]
    BY <1>14, SavedType, Zenon DEF SavePng, SaveBitmap
  <2>2. bm' \in Pictures
    BY <1>14, Zenon DEF SavePng, NoBitmap, Pictures
  <2>3. /\ UNCHANGED <<entries, delay, start0, stop, pkt, last_valid, trk, pi, leaked, fed, peak>>
        /\ pc' = "cues" /\ cur_sub' = [cur_sub EXCEPT ![trk] = @ + 1]
    BY <1>14, Zenon DEF SavePng
  <2> QED
    BY <2>1, <2>2, <2>3
<1>15. CASE CopyPacket
  <2>1. pc = "copy"
    BY <1>15, Zenon DEF CopyPacket
  <2>2. fed' \subseteq InputStreams \cup LateStreams
    BY <1>15, <2>1, Zenon DEF CopyPacket, MuxInv, LoopInv
  <2> QED
    BY <1>15, <2>2, Zenon DEF CopyPacket
<1>16. CASE PoolStep
  BY <1>16 DEF PoolStep, PoolRender
<1> HIDE DEF PlainTypes
<1> QED
  BY <1>1, <1>2, <1>3, <1>4, <1>5, <1>6, <1>7, <1>8, <1>9, <1>10, <1>11, <1>12, <1>13,
     <1>14, <1>15, <1>16, ZenonT(60) DEF Next, MainStep

\* Due looks at the inputs, at last_valid and at cur_sub of its track.
LEMMA DueFrame ==
  ASSUME UNCHANGED <<entries, delay, last_valid>>, NEW t, cur_sub'[t] = cur_sub[t]
  PROVE  Due(t)' = Due(t)
<1> QED
  BY Zenon DEF Due, DueAt, Count, StartTick

\* Steps inside one cue.
LEMMA BusyLoop ==
  ASSUME MuxInv, UNCHANGED <<entries, delay, last_valid, cur_sub, pkt, trk>>,
         \/ pc' = pc
         \/ pc' \in Busy /\ pc \in Busy \cup {"cues"} /\ Due(trk)
  PROVE  LoopInv'
<1>1. \A t : Due(t)' = Due(t)
  BY DueFrame, Zenon
<1>2. Due(trk)' = Due(trk)
  BY Zenon DEF Due, DueAt, Count, StartTick
<1> QED
  BY <1>1, <1>2, Zenon DEF MuxInv, LoopInv, Busy

\* Each step keeps the position of the loop consistent.
LEMMA LoopStep ==
  ASSUME MuxInv, PlainTypes, Next
  PROVE  LoopInv'
<1>0. LoopInv /\ trk \in Tracks /\ NTracks \in Nat /\ cur_sub \in [Tracks -> Nat \ {0}]
  BY MuxAssumption, Zenon DEF MuxInv, PlainTypes
<1>1. CASE Signal \/ SkipPacket \/ Returned
  BY <1>1, BusyLoop, Zenon DEF Signal, SkipPacket, Returned, vars, inputVars, loopVars
<1>2. CASE EndLoop
  BY <1>0, <1>2, Zenon DEF EndLoop, LoopInv, Busy
<1>4. ASSUME NEW s \in InputStreams \cup LateStreams, NEW time \in PacketTimes \cup {NOPTS},
             ReadPacket(s, time)
      PROVE  LoopInv'
  <2>1. pc' = "cues" /\ trk' = 1 /\ pkt' = [stream |-> s, time |-> time]
    BY <1>4, Zenon DEF ReadPacket
  <2>2. time # NOPTS => last_valid' = time
    BY <1>4, Zenon DEF ReadPacket
  <2>3. \A t \in Tracks : ~(t < trk')
    BY <1>0, <2>1 DEF Tracks
  <2>4. pkt'.stream = s /\ pkt'.time = time
    BY <2>1, Zenon
  <2> QED
    BY <2>1, <2>2, <2>3, <2>4, Zenon DEF LoopInv, Busy
<1>5. CASE NextTrack
  <2>1. /\ pc = "cues" /\ ~Due(trk)
        /\ \/ trk < NTracks /\ trk' = trk + 1 /\ pc' = "cues"
           \/ ~(trk < NTracks) /\ trk' = trk /\ pc' = (IF Mode = "png_all" THEN "done" ELSE "copy")
        /\ UNCHANGED <<entries, delay, last_valid, cur_sub, pkt>>
    BY <1>5, Zenon DEF NextTrack, inputVars
  <2>2. \A t : Due(t)' = Due(t)
    BY <2>1, DueFrame, Zenon
  <2>3. \A t \in Tracks : t < trk => ~Due(t)
    BY <1>0, <2>1, Zenon DEF LoopInv
  <2>4. \A t \in Tracks : t < trk \/ t = trk \/ t >= trk + 1
    BY <1>0 DEF Tracks
  <2>5. CASE trk < NTracks
    <3>1. \A t \in Tracks : t < trk + 1 => t < trk \/ t = trk
      BY <1>0 DEF Tracks
    <3> QED
      BY <1>0, <2>1, <2>2, <2>3, <2>5, <3>1, Zenon DEF LoopInv, Busy
  <2>6. CASE ~(trk < NTracks)
    <3>1. \A t \in Tracks : t < trk \/ t = trk
      BY <1>0, <2>6 DEF Tracks
    <3>2. \A t \in Tracks : ~Due(t)'
      BY <2>1, <2>2, <2>3, <3>1, Zenon
    <3> QED
      BY <1>0, <2>1, <2>6, <3>2, Zenon DEF LoopInv, Busy
  <2> QED
    BY <2>5, <2>6, Zenon
<1>6. CASE Collect \/ GoSync \/ GoPrefetch \/ Prefetch \/ PrefetchDone \/ Render
  <2>1. /\ UNCHANGED <<entries, delay, last_valid, cur_sub, pkt, trk>>
        /\ pc' = pc \/ (pc' \in Busy /\ pc \in Busy \cup {"cues"} /\ (pc = "cues" => Due(trk)))
    BY <1>6, Zenon DEF Collect, GoSync, GoPrefetch, Prefetch, PrefetchDone, Render, Busy,
                inputVars, loopVars
  <2>2. pc \in Busy => Due(trk)
    BY <1>0, Zenon DEF LoopInv
  <2> QED
    BY <2>1, <2>2, BusyLoop, Zenon
<1>12. CASE EmitCue
  <2>1. /\ UNCHANGED <<entries, delay, last_valid, cur_sub, pkt, trk>>
        /\ pc = "encode" /\ pc' = "clear"
    BY <1>12, Zenon DEF EmitCue, inputVars
  <2>2. Due(trk)
    BY <1>0, <2>1, Zenon DEF LoopInv, Busy
  <2> QED
    BY <2>1, <2>2, BusyLoop, Zenon DEF Busy
<1>13. CASE ClearCue \/ SavePng
  <2>1. /\ UNCHANGED <<entries, delay, last_valid, pkt, trk>>
        /\ pc \in {"clear", "encode"} /\ pc' = "cues"
        /\ cur_sub' = [cur_sub EXCEPT ![trk] = @ + 1]
    BY <1>13, Zenon DEF ClearCue, SavePng, inputVars
  <2>2. \A t \in Tracks : t # trk => Due(t)' = Due(t)
    BY <1>0, <2>1, DueFrame, Zenon
  <2>3. \A t \in Tracks : t < trk => t # trk /\ ~Due(t)
    BY <1>0, <2>1, Zenon DEF LoopInv, Busy, Tracks
  <2> QED
    BY <1>0, <2>1, <2>2, <2>3, Zenon DEF LoopInv, Busy
<1>15. CASE CopyPacket
  BY <1>0, <1>15, Zenon DEF CopyPacket, LoopInv, Busy
<1>16. CASE PoolStep
  BY <1>16, BusyLoop, Zenon DEF PoolStep, PoolRender, inputVars, loopVars
<1> QED
  BY <1>1, <1>2, <1>4, <1>5, <1>6, <1>12, <1>13, <1>15, <1>16, Zenon DEF Next, MainStep

-----------------------------------------------------------------------------
(* Pictures.                                                               *)

\* The current cue of a track that has one due.
LEMMA DueCue ==
  ASSUME PlainTypes, Due(trk)
  PROVE  trk \in Tracks /\ cur_sub[trk] \in 1..Count(trk)
<1>1. trk \in Tracks /\ cur_sub[trk] \in Nat \ {0} /\ entries[trk] \in CueLists
  BY Zenon DEF PlainTypes
<1>2. Count(trk) \in Nat
  BY <1>1, CueAssumption DEF Count
<1> QED
  BY <1>1, <1>2 DEF Due

\* The picture about to be encoded is the current cue's.
InHand == pc = "encode" => bm \in {Picture(trk, cur_sub[trk]), Empty}

\* Each step keeps jobs and the picture in hand with their cues.
LEMMA JobsStep ==
  ASSUME MuxInv, PlainTypes, Next
  PROVE  JobsTyped' /\ JobsMatch' /\ InHand'
<1>0. JobsTyped /\ JobsMatch /\ InHand
  BY Zenon DEF MuxInv, TypeOK, PictureInv, JobsTyped, JobsMatch, InHand
<1>1. ASSUME UNCHANGED <<entries, jobs>>
      PROVE  JobsTyped' /\ JobsMatch'
  BY <1>0, <1>1, Zenon DEF JobsTyped, JobsMatch, Count, Picture, Empty
<1>2. ASSUME UNCHANGED <<pc, bm, trk, cur_sub>>
      PROVE  InHand'
  BY <1>0, <1>2, Zenon DEF InHand, Picture, Empty
<1>3. CASE Signal \/ SkipPacket \/ Returned
  BY <1>1, <1>2, <1>3, Zenon DEF Signal, SkipPacket, Returned, vars, inputVars, loopVars, cueVars
<1>4. CASE \/ EndLoop \/ NextTrack \/ GoSync \/ GoPrefetch \/ PrefetchDone \/ ClearCue
           \/ SavePng \/ CopyPacket \/ EmitCue
  <2>1. UNCHANGED <<entries, jobs>> /\ pc' # "encode"
    BY <1>4, Zenon DEF EndLoop, NextTrack, GoSync, GoPrefetch, PrefetchDone, ClearCue, SavePng,
                CopyPacket, EmitCue, inputVars
  <2> QED
    BY <1>1, <2>1, Zenon DEF InHand
<1>5. ASSUME NEW s, NEW time, ReadPacket(s, time)
      PROVE  JobsTyped' /\ JobsMatch' /\ InHand'
  BY <1>1, <1>5, Zenon DEF ReadPacket, inputVars, InHand
<1>6. CASE Collect
  <2>1. Due(trk) /\ UNCHANGED <<trk, cur_sub>>
    BY <1>6, Zenon DEF Collect, MuxInv, LoopInv, Busy
  <2> QED
    BY <1>6, <2>1, DueCue, CollectJobs, Zenon DEF InHand, Picture, Empty
<1>7. CASE Prefetch
  <2>1. Due(trk)
    BY <1>7, Zenon DEF Prefetch, MuxInv, LoopInv, Busy
  <2>2. InHand'
    BY <1>2, <1>7, Zenon DEF Prefetch, loopVars
  <2> QED
    BY <1>7, <2>1, <2>2, DueCue, PrefetchJobs, Zenon
<1>8. CASE Render
  <2>1. UNCHANGED <<entries, jobs, trk, cur_sub>> /\ bm' \in {Picture(trk, cur_sub[trk]), Empty}
    BY <1>8, Zenon DEF Render, inputVars
  <2> QED
    BY <1>1, <2>1, Zenon DEF InHand, Picture, Empty
<1>9. CASE PoolStep
  <2>1. InHand'
    BY <1>2, <1>9, Zenon DEF PoolStep, PoolRender, loopVars, cueVars
  <2> QED
    BY <1>9, <2>1, RenderJobs, Zenon DEF PoolStep
<1> QED
  BY <1>3, <1>4, <1>5, <1>6, <1>7, <1>8, <1>9, Zenon DEF Next, MainStep

\* One picture is saved per cue handled.
SavedCount ==
  \A t \in Tracks :
    Len(saved[t]) = IF Mode = "mux" THEN 0
                    ELSE cur_sub[t] - 1 + IF Clearing(t) THEN 1 ELSE 0

SavedMatch ==
  \A t \in Tracks : \A i \in 1..Len(saved[t]) : saved[t][i] \in {Picture(t, i), Empty}

\* Saving the picture of the current cue.
LEMMA SavePicture ==
  ASSUME MuxInv, PlainTypes, pc = "encode", Mode # "mux",
         SaveBitmap
  PROVE  /\ SavedMatch'
         /\ Len(saved'[trk]) = cur_sub[trk]
         /\ \A t \in Tracks : t # trk => Len(saved'[t]) = cur_sub[t] - 1
<1>0. PICK pic \in {bm, Empty} : saved' = [saved EXCEPT ![trk] = Append(@, pic)]
  BY Zenon DEF SaveBitmap
<1>1. /\ saved'[trk] = Append(saved[trk], pic) /\ pic \in Pictures
      /\ \A t \in Tracks : t # trk => saved'[t] = saved[t]
  BY <1>0, SavedType, Zenon
<1>2. /\ trk \in Tracks /\ saved[trk] \in Seq(Pictures)
      /\ cur_sub \in [Tracks -> Nat \ {0}]
  BY Zenon DEF PlainTypes
<1>3. /\ \A t \in Tracks : Len(saved[t]) = cur_sub[t] - 1
      /\ pic \in {Picture(trk, cur_sub[trk]), Empty}
      /\ SavedMatch
  BY <1>2 DEF MuxInv, PictureInv, CueMatches, SavedMatch, Clearing
<1>4. /\ Len(saved'[trk]) = Len(saved[trk]) + 1
      /\ saved'[trk][Len(saved[trk]) + 1] = pic
      /\ \A i \in 1..Len(saved'[trk]) :
           i = Len(saved[trk]) + 1 \/ (i \in 1..Len(saved[trk]) /\ saved'[trk][i] = saved[trk][i])
  BY <1>1, <1>2, AppendFacts
<1>5. Len(saved'[trk]) = cur_sub[trk] /\ Len(saved[trk]) + 1 = cur_sub[trk]
  BY <1>2, <1>3, <1>4
<1>6. \A i \in 1..Len(saved'[trk]) : saved'[trk][i] \in {Picture(trk, i), Empty}
  BY <1>2, <1>3, <1>4, <1>5, Zenon DEF SavedMatch
<1>7. SavedMatch'
  BY <1>1, <1>3, <1>6, Zenon DEF SavedMatch, Picture, Empty
<1> QED
  BY <1>1, <1>3, <1>5, <1>7, Zenon

\* Each step keeps the saved pictures complete and in order.
LEMMA SavedStep ==
  ASSUME MuxInv, PlainTypes, Next
  PROVE  SavedCount' /\ SavedMatch'
<1>0. SavedCount /\ SavedMatch /\ cur_sub \in [Tracks -> Nat \ {0}] /\ trk \in Tracks
  BY ZenonT(60) DEF MuxInv, PlainTypes, PictureInv, CueMatches, SavedCount, SavedMatch
<1>1. ASSUME UNCHANGED <<saved, cur_sub>>, (pc # "clear" /\ pc' # "clear") \/ UNCHANGED <<pc, trk>>
      PROVE  SavedCount' /\ SavedMatch'
  <2>1. \A t \in Tracks : Clearing(t)' = Clearing(t)
    BY <1>1, Zenon DEF Clearing
  <2> QED
    BY <1>0, <1>1, <2>1, Zenon DEF SavedCount, SavedMatch, Picture, Empty
<1>2. CASE \/ Signal \/ SkipPacket \/ Returned \/ Prefetch \/ PoolStep
  BY <1>1, <1>2, Zenon DEF Signal, SkipPacket, Returned, Prefetch, PoolStep, PoolRender, vars,
                    loopVars
<1>3. CASE \/ EndLoop \/ NextTrack \/ Collect \/ GoSync \/ GoPrefetch \/ PrefetchDone
           \/ Render \/ CopyPacket
  <2>1. UNCHANGED <<saved, cur_sub>> /\ pc # "clear" /\ pc' # "clear"
    BY <1>3, Zenon DEF EndLoop, NextTrack, Collect, GoSync, GoPrefetch, PrefetchDone, Render,
                CopyPacket
  <2> QED
    BY <1>1, <2>1, Zenon
<1>4. ASSUME NEW s, NEW time, ReadPacket(s, time)
      PROVE  SavedCount' /\ SavedMatch'
  BY <1>1, <1>4, Zenon DEF ReadPacket
<1>5. CASE EmitCue
  <2>1. /\ pc = "encode" /\ pc' = "clear" /\ UNCHANGED <<trk, cur_sub>> /\ Mode # "png_all"
        /\ IF Mode = "png" THEN SaveBitmap ELSE saved' = saved
    BY <1>5, Zenon DEF EmitCue
  <2>2. CASE Mode = "png"
    <3>1. /\ SavedMatch'
          /\ Len(saved'[trk]) = cur_sub[trk]
          /\ \A t \in Tracks : t # trk => Len(saved'[t]) = cur_sub[t] - 1
      BY <2>1, <2>2, SavePicture, Zenon
    <3> QED
      BY <1>0, <2>1, <2>2, <3>1 DEF SavedCount, Clearing
  <2>3. CASE Mode = "mux"
    BY <1>0, <2>1, <2>3, Zenon DEF SavedCount, SavedMatch, Picture, Empty
  <2> QED
    BY <2>1, <2>2, <2>3, MuxAssumption, Zenon
<1>6. CASE ClearCue
  <2>1. /\ pc = "clear" /\ pc' = "cues" /\ UNCHANGED <<trk, saved>>
        /\ cur_sub' = [cur_sub EXCEPT ![trk] = @ + 1]
    BY <1>6, Zenon DEF ClearCue
  <2> QED
    BY <1>0, <2>1 DEF SavedCount, SavedMatch, Clearing, Picture, Empty
<1>7. CASE SavePng
  <2>1. /\ pc = "encode" /\ pc' = "cues" /\ Mode # "mux"
        /\ SaveBitmap
        /\ cur_sub' = [cur_sub EXCEPT ![trk] = @ + 1]
    BY <1>7, Zenon DEF SavePng
  <2>2. /\ SavedMatch'
        /\ Len(saved'[trk]) = cur_sub[trk]
        /\ \A t \in Tracks : t # trk => Len(saved'[t]) = cur_sub[t] - 1
    BY <2>1, SavePicture, Zenon
  <2> QED
    BY <1>0, <2>1, <2>2 DEF SavedCount, Clearing
<1> QED
  BY <1>2, <1>3, <1>4, <1>5, <1>6, <1>7, Zenon DEF Next, MainStep

-----------------------------------------------------------------------------
(* Written events.                                                         *)

\* Every cue written shows its own picture.
CuesMatch ==
  \A t \in Tracks : \A i \in 1..Len(out[t]) :
    out[t][i].kind = "cue" => out[t][i].data \in {Picture(t, out[t][i].cue), Empty, Garbage}

\* Writing an event with the right picture.
LEMMA WriteMatch ==
  ASSUME MuxInv, NEW ev \in Event, EncodeAndWrite(trk, ev),
         ev.kind = "cue" => ev.data \in {Picture(trk, ev.cue), Empty}
  PROVE  WriteTypes' /\ CuesMatch'
<1>1. TypeOK /\ trk \in Tracks /\ out \in [Tracks -> Seq(Event)] /\ CuesMatch
  BY Zenon DEF MuxInv, TypeOK, CueMatches, CuesMatch
<1>2. WriteTypes'
  BY <1>1, WriteEffect, BufferType, Zenon DEF WriteTypes
<1>3. \A t \in Tracks : t # trk => out'[t] = out[t]
  BY WriteEffect, Zenon
<1> DEFINE Good(t, e) == e.kind = "cue" => e.data \in {Picture(t, e.cue), Empty, Garbage}
<1>4. \A t \in Tracks : \A i \in 1..Len(out[t]) : Good(t, out[t][i])
  BY <1>1, Zenon DEF CuesMatch
<1>5. ASSUME NEW data \in {ev.data, Garbage}
      PROVE  Good(trk, Sent(trk, ev, data))
  BY Zenon DEF Sent
<1>6. ASSUME NEW i \in 1..Len(out'[trk])
      PROVE  Good(trk, out'[trk][i])
  <2>1. CASE out'[trk] = out[trk]
    BY <1>1, <1>4, <1>6, <2>1, Zenon
  <2>2. ASSUME NEW data \in {ev.data, Garbage},
               out'[trk] = Append(out[trk], Sent(trk, ev, data)),
               Sent(trk, ev, data) \in Event
        PROVE  Good(trk, out'[trk][i])
    <3>1. \/ out'[trk][i] = Sent(trk, ev, data)
          \/ i \in 1..Len(out[trk]) /\ out'[trk][i] = out[trk][i]
      BY <1>1, <1>6, <2>2, AppendFacts
    <3> HIDE DEF Good
    <3> QED
      BY <1>1, <1>4, <1>5, <3>1, Zenon
  <2> HIDE DEF Good
  <2> QED
    BY <2>1, <2>2, WriteEffect, Zenon
<1>7. \A t \in Tracks : \A i \in 1..Len(out'[t]) : Good(t, out'[t][i])
  <2> HIDE DEF Good
  <2> QED
    BY <1>1, <1>3, <1>4, <1>6, Zenon
<1> QED
  BY <1>2, <1>7, Zenon DEF CuesMatch, Picture, Empty, Garbage

\* The steps that write nothing.
WritesNothing == UNCHANGED <<last_pts, enc, out>>

\* Each step keeps what is written well-formed and with its picture.
LEMMA WriteStep ==
  ASSUME MuxInv, PlainTypes, Next
  PROVE  WriteTypes' /\ CuesMatch'
<1>0. WriteTypes /\ CuesMatch
  BY Zenon DEF MuxInv, TypeOK, CueMatches, WriteTypes, CuesMatch
<1>1. CASE WritesNothing
  BY <1>0, <1>1, Zenon DEF WritesNothing, WriteTypes, CuesMatch, Picture, Empty, Garbage
<1>2. CASE EmitCue
  <2> DEFINE k == cur_sub[trk]
             ev == [kind |-> "cue", cue |-> k, pts |-> start0 + StartTick(trk, k), data |-> bm]
  <2>1. pc = "encode" /\ (WritesNothing \/ EncodeAndWrite(trk, ev))
    BY <1>2, Zenon DEF EmitCue, writeVars, WritesNothing
  <2>2. /\ k \in 1..Count(trk) /\ start0 \in Int /\ StartTick(trk, k) \in Int
        /\ bm \in Pictures /\ bm \in {Picture(trk, k), Empty}
    BY <2>1, CurrentCue, Zenon DEF Busy, PlainTypes, MuxInv, PictureInv
  <2>3. ev \in Event
    BY <2>2 DEF Event
  <2>4. ev.kind = "cue" => ev.data \in {Picture(trk, ev.cue), Empty}
    BY <2>2, Zenon
  <2> HIDE DEF ev
  <2> QED
    BY <1>1, <2>1, <2>3, <2>4, WriteMatch, Zenon
<1>3. CASE ClearCue
  <2> DEFINE k == cur_sub[trk]
             ev == [kind |-> "clear", cue |-> k, pts |-> start0 + EndTick(trk, k),
                    data |-> Cleared]
  <2>1. pc = "clear" /\ (WritesNothing \/ EncodeAndWrite(trk, ev))
    BY <1>3, Zenon DEF ClearCue, writeVars, WritesNothing
  <2>2. k \in 1..Count(trk) /\ start0 \in Int /\ EndTick(trk, k) \in Int
    BY <2>1, CurrentCue, Zenon DEF Busy
  <2>3. ev \in Event
    BY <2>2 DEF Event, Cleared, Pictures
  <2>4. ev.kind # "cue"
    BY Zenon
  <2> HIDE DEF ev
  <2> QED
    BY <1>1, <2>1, <2>3, <2>4, WriteMatch, Zenon
<1>4. CASE ~EmitCue /\ ~ClearCue
  <2>1. WritesNothing
    BY <1>4, Zenon DEF Next, MainStep, PoolStep, Signal, Returned, EndLoop, SkipPacket, ReadPacket,
                NextTrack, Collect, GoSync, GoPrefetch, Prefetch, PrefetchDone, Render,
                SavePng, CopyPacket, PoolRender, vars, writeVars, WritesNothing
  <2> QED
    BY <1>1, <2>1, Zenon
<1> QED
  BY <1>2, <1>3, <1>4, Zenon

\* Each step keeps the time stamps, the order and the drift of the events.
LEMMA EventsStep ==
  ASSUME MuxInv, Next
  PROVE  Events'
<1>1. CASE EmitCue
  BY <1>1, EmitEvents, Zenon
<1>2. CASE ClearCue
  BY <1>2, ClearEvents, Zenon
<1>3. CASE SavePng
  BY <1>3, AdvanceEvents, Zenon DEF SavePng, inputVars, writeVars
<1>4. CASE \/ Signal \/ SkipPacket \/ Returned \/ Prefetch \/ PoolStep
  BY <1>4, QuietEvents, Zenon DEF Signal, SkipPacket, Returned, Prefetch, PoolStep, PoolRender,
                           vars, inputVars, loopVars, writeVars
<1>5. CASE \/ EndLoop \/ NextTrack \/ Collect \/ GoSync \/ GoPrefetch \/ PrefetchDone
           \/ Render \/ CopyPacket
  <2>1. /\ UNCHANGED <<entries, delay, start0, out, last_pts, cur_sub>>
        /\ pc # "clear" /\ pc' # "clear"
    BY <1>5, Zenon DEF EndLoop, NextTrack, Collect, GoSync, GoPrefetch, PrefetchDone, Render,
                CopyPacket, inputVars, writeVars
  <2> QED
    BY <2>1, QuietEvents, Zenon
<1>6. ASSUME NEW s, NEW time, ReadPacket(s, time)
      PROVE  Events'
  BY <1>6, QuietEvents, Zenon DEF ReadPacket, inputVars, writeVars
<1> QED
  BY <1>1, <1>2, <1>3, <1>4, <1>5, <1>6, Zenon DEF Next, MainStep

-----------------------------------------------------------------------------
(* Cues and packets.                                                       *)

\* If the current cue of a track is not due, no later one is.
LEMMA NoneDue ==
  ASSUME TypeOK, Mode # "png_all", last_valid # NOPTS, NEW t \in Tracks, ~Due(t),
         NEW k \in 1..Count(t), k >= cur_sub[t]
  PROVE  last_valid < StartTick(t, k)
<1>1. /\ cur_sub[t] \in Nat \ {0} /\ entries[t] \in CueLists
      /\ last_valid \in PacketTimes \cup {NOPTS}
  BY Zenon DEF TypeOK
<1>2. Count(t) \in Nat /\ last_valid \in Int
  BY <1>1, CueAssumption, Constants DEF Count
<1>3. cur_sub[t] \in 1..Count(t)
  BY <1>1, <1>2
<1>4. last_valid < StartTick(t, cur_sub[t])
  <2>1. ~(StartTick(t, cur_sub[t]) <= last_valid)
    BY <1>3 DEF Due, DueAt
  <2>2. StartTick(t, cur_sub[t]) \in Int
    BY <1>3, CueTicks, Zenon
  <2> QED
    BY <1>2, <2>1, <2>2
<1>5. CASE k = cur_sub[t]
  BY <1>4, <1>5, Zenon
<1>6. CASE k > cur_sub[t]
  <2>1. /\ StartTick(t, cur_sub[t]) \in Int /\ EndTick(t, cur_sub[t]) \in Int
        /\ StartTick(t, k) \in Int
        /\ StartTick(t, cur_sub[t]) <= EndTick(t, cur_sub[t])
    BY <1>3, CueTicks, Zenon
  <2>2. EndTick(t, cur_sub[t]) <= StartTick(t, k)
    BY <1>3, <1>6, CueTicks, Zenon
  <2> QED
    BY <1>2, <1>4, <2>1, <2>2
<1> QED
  BY <1>1, <1>5, <1>6

\* Each step leaves unhandled cues after the packets copied.
LEMMA PeakStep ==
  ASSUME MuxInv, Next
  PROVE  PeakInv'
<1>0. /\ PeakInv /\ TypeOK /\ LoopInv /\ trk \in Tracks
      /\ cur_sub \in [Tracks -> Nat \ {0}] /\ peak \in PacketTimes \cup {NOPTS}
  BY Zenon DEF MuxInv, TypeOK
<1>1. ASSUME UNCHANGED <<entries, delay, peak>>,
             cur_sub' = cur_sub \/ cur_sub' = [cur_sub EXCEPT ![trk] = @ + 1]
      PROVE  PeakInv'
  <2>1. \A t \in Tracks : cur_sub'[t] \in Nat /\ cur_sub[t] <= cur_sub'[t]
    BY <1>0, <1>1
  <2>2. \A t \in Tracks : \A k \in 1..Count(t) : k >= cur_sub'[t] => k >= cur_sub[t]
    BY <1>0, <2>1
  <2> QED
    BY <1>0, <1>1, <2>2, Zenon DEF PeakInv, StartTick, Count
<1>2. CASE CopyPacket
  <2>1. pc = "copy" /\ UNCHANGED <<entries, delay, cur_sub>>
    BY <1>2, Zenon DEF CopyPacket, inputVars
  <2>2. CASE peak' = peak
    BY <1>1, <2>1, <2>2, Zenon
  <2>3. CASE peak' = pkt.time /\ pkt.time # NOPTS
    <3>1. last_valid = peak' /\ last_valid # NOPTS /\ Mode # "png_all"
      BY <1>0, <2>1, <2>3, Zenon DEF LoopInv
    <3>2. \A t \in Tracks : ~Due(t)
      BY <1>0, <2>1, Zenon DEF LoopInv
    <3>3. \A t \in Tracks : \A k \in 1..Count(t) : k >= cur_sub[t] => last_valid < StartTick(t, k)
      BY <1>0, <3>1, <3>2, NoneDue, Zenon
    <3> QED
      BY <2>1, <3>1, <3>3, Zenon DEF PeakInv, StartTick, Count
  <2> QED
    BY <1>2, <2>2, <2>3, Zenon DEF CopyPacket, copyVars
<1>3. CASE ~CopyPacket
  <2>1. /\ UNCHANGED <<entries, delay, peak>>
        /\ cur_sub' = cur_sub \/ cur_sub' = [cur_sub EXCEPT ![trk] = @ + 1]
    BY <1>3, Zenon DEF Next, MainStep, PoolStep, Signal, Returned, EndLoop, SkipPacket, ReadPacket,
                NextTrack, Collect, GoSync, GoPrefetch, Prefetch, PrefetchDone, Render,
                EmitCue, ClearCue, SavePng, PoolRender, vars, inputVars, loopVars, copyVars
  <2> QED
    BY <1>1, <2>1, Zenon
<1> QED
  BY <1>2, <1>3, Zenon

\* An event is written after every packet copied so far.
LEMMA LateStep ==
  ASSUME MuxInv, Next, start0 >= 0, NEW t \in Tracks, Len(out'[t]) > Len(out[t]),
         peak # NOPTS
  PROVE  peak < out'[t][Len(out'[t])].pts
<1>0. /\ TypeOK /\ trk \in Tracks /\ out[t] \in Seq(Event) /\ out[trk] \in Seq(Event)
      /\ peak \in Int /\ PeakInv /\ bm \in Pictures
  BY Constants, Zenon DEF MuxInv, TypeOK
<1>1. ASSUME NEW ev \in Event, EncodeAndWrite(trk, ev), peak < ev.pts
      PROVE  peak < out'[t][Len(out'[t])].pts
  <2>1. t = trk
    BY <1>0, <1>1, WriteEffect
  <2>2. PICK data \in {ev.data, Garbage} :
          out'[trk] = Append(out[trk], Sent(trk, ev, data)) /\ Sent(trk, ev, data) \in Event
    BY <1>0, <1>1, <2>1, WriteEffect
  <2>3. out'[t][Len(out'[t])] = Sent(trk, ev, data)
    BY <1>0, <2>1, <2>2, AppendFacts
  <2>4. ev.pts \in Int
    BY <1>1, Zenon DEF Event
  <2>5. Sent(trk, ev, data).pts = Bump(trk, ev.pts)
    BY Zenon DEF Sent
  <2>6. Bump(trk, ev.pts) \in Int /\ ev.pts <= Bump(trk, ev.pts)
    BY <1>0, <2>4, BumpFacts, Zenon
  <2> QED
    BY <1>0, <1>1, <2>3, <2>4, <2>5, <2>6
<1> DEFINE k == cur_sub[trk]
<1>2. ASSUME pc \in Busy
      PROVE  /\ k \in 1..Count(trk) /\ start0 \in Int
             /\ StartTick(trk, k) \in Int /\ EndTick(trk, k) \in Int
             /\ peak < start0 + StartTick(trk, k) /\ peak < start0 + EndTick(trk, k)
  <2>1. /\ k \in 1..Count(trk) /\ start0 \in Int
        /\ StartTick(trk, k) \in Int /\ EndTick(trk, k) \in Int
        /\ StartTick(trk, k) <= EndTick(trk, k)
    BY <1>2, CurrentCue, Zenon
  <2>2. Count(trk) \in Nat
    BY <1>0, CueAssumption, SMTT(60) DEF TypeOK, Count
  <2>3. peak < StartTick(trk, k)
    BY <1>0, <2>1, <2>2, SMTT(60) DEF PeakInv
  <2> QED
    BY <1>0, <2>1, <2>3
<1>3. CASE EmitCue
  <2> DEFINE ev == [kind |-> "cue", cue |-> k, pts |-> start0 + StartTick(trk, k), data |-> bm]
  <2>1. pc \in Busy /\ (out' = out \/ EncodeAndWrite(trk, ev))
    BY <1>3, Zenon DEF EmitCue, Busy, writeVars
  <2>2. ev \in Event /\ ev.pts = start0 + StartTick(trk, k)
    BY <1>0, <1>2, <2>1, SMTT(60) DEF Event
  <2> HIDE DEF ev
  <2>3. out' # out
    BY <1>0
  <2> QED
    BY <1>1, <1>2, <2>1, <2>2, <2>3, Zenon
<1>4. CASE ClearCue
  <2> DEFINE ev == [kind |-> "clear", cue |-> k, pts |-> start0 + EndTick(trk, k),
                    data |-> Cleared]
  <2>1. pc \in Busy /\ (out' = out \/ EncodeAndWrite(trk, ev))
    BY <1>4, Zenon DEF ClearCue, Busy, writeVars
  <2>2. ev \in Event /\ ev.pts = start0 + EndTick(trk, k)
    <3>1. Cleared \in Pictures
      BY Zenon DEF Cleared, Pictures
    <3> QED
      BY <1>0, <1>2, <2>1, <3>1, SMTT(60) DEF Event
  <2> HIDE DEF ev
  <2>3. out' # out
    BY <1>0
  <2> QED
    BY <1>1, <1>2, <2>1, <2>2, <2>3, Zenon
<1>5. CASE out' = out
  BY <1>0, <1>5
<1>6. EmitCue \/ ClearCue \/ out' = out
  BY Zenon DEF Next, MainStep, PoolStep, Signal, Returned, EndLoop, SkipPacket, ReadPacket,
         NextTrack, Collect, GoSync, GoPrefetch, Prefetch, PrefetchDone, Render,
         SavePng, CopyPacket, PoolRender, vars, writeVars
<1> QED
  BY <1>3, <1>4, <1>5, <1>6, Zenon

-----------------------------------------------------------------------------
(* The invariant and what follows from it.                                 *)

LEMMA InitMux == Init => MuxInv
<1> SUFFICES ASSUME Init PROVE MuxInv
  BY Zenon
<1>0. /\ NTracks \in Nat /\ NTracks > 0 /\ PREFETCH_WINDOW \in Nat /\ MAX_SUB_BUF_SIZE \in Nat
      /\ Mode \in {"mux", "png", "png_all"}
  BY MuxAssumption
<1>1. PlainTypes
  <2>1. saved \in [Tracks -> Seq(Pictures)]
    BY DEF Init
  <2>2. bm \in Pictures /\ trk \in Tracks /\ pi \in 0..PREFETCH_WINDOW /\ pc \in PCs
    BY <1>0 DEF Init, NoBitmap, Pictures, Tracks, PCs
  <2>3. cur_sub \in [Tracks -> Nat \ {0}]
    BY DEF Init
  <2>4. /\ pkt \in [stream : InputStreams \cup LateStreams \cup {NOPTS},
                   time : PacketTimes \cup {NOPTS}]
        /\ leaked \subseteq Pictures /\ fed \subseteq InputStreams \cup LateStreams
    BY Zenon DEF Init
  <2> QED
    BY <2>1, <2>2, <2>3, <2>4, Zenon DEF Init, PlainTypes
<1>2. WriteTypes
  BY <1>0 DEF Init, WriteTypes
<1>3. /\ jobs = [t \in Tracks |-> [k \in 1..Count(t) |-> <<>>]]
      /\ \A t \in Tracks : \A k \in 1..Count(t) : jobs[t][k] = <<>>
  BY Zenon DEF Init
<1>4. JobsTyped
  <2>1. jobs = [t \in Tracks |-> [k \in 1..Count(t) |-> jobs[t][k]]]
    BY <1>3, Zenon
  <2> QED
    BY <1>3, <2>1 DEF JobsTyped
<1>5. LoopInv
  <2>1. trk = 1 /\ pc \in {"cues", "read"} /\ (pc = "cues" => Mode = "png_all") /\ pkt.time = NOPTS
    BY Zenon DEF Init
  <2> QED
    BY <1>0, <2>1 DEF LoopInv, Busy, Tracks
<1>6. \A t \in Tracks : out[t] = <<>> /\ saved[t] = <<>> /\ last_pts[t] = NOPTS /\ cur_sub[t] = 1
  BY Zenon DEF Init
<1>7. pc \notin {"encode", "clear"}
  BY Zenon DEF Init
<1>8. WriteInv /\ PtsIncreasing /\ EventOrder /\ CueMatches /\ DriftInv /\ DriftBounded
  BY <1>6 DEF WriteInv, PtsIncreasing, EventOrder, CueMatches, DriftInv, DriftBounded
<1>9. PictureInv
  BY <1>3, <1>6, <1>7 DEF PictureInv, Clearing
<1>10. PeakInv
  BY Zenon DEF Init, PeakInv
<1> QED
  BY <1>1, <1>2, <1>4, <1>5, <1>8, <1>9, <1>10, TypeParts, Zenon DEF MuxInv

LEMMA MuxStep == MuxInv /\ [Next]_vars => MuxInv'
<1> SUFFICES ASSUME MuxInv, [Next]_vars PROVE MuxInv'
  BY Zenon
<1>1. PlainTypes
  BY TypeParts, Zenon DEF MuxInv
<1>2. CASE Next
  <2>1. TypeOK'
    BY <1>1, <1>2, PlainStep, WriteStep, JobsStep, TypePartsPrime, Zenon
  <2>2. LoopInv' /\ Events' /\ PeakInv'
    BY <1>1, <1>2, LoopStep, EventsStep, PeakStep, Zenon
  <2>3. PictureInv'
    BY <1>1, <1>2, JobsStep, SavedStep, Zenon DEF PictureInv, JobsMatch, InHand, SavedCount
  <2>4. CueMatches'
    BY <1>1, <1>2, WriteStep, SavedStep, Zenon DEF CueMatches, CuesMatch, SavedMatch
  <2> QED
    BY <2>1, <2>2, <2>3, <2>4, Zenon DEF MuxInv, Events
<1>3. CASE UNCHANGED vars
  <2>1. UNCHANGED <<entries, delay, start0, stop, pc, pkt, last_valid, trk, cur_sub, pi, bm,
                    leaked, jobs, last_pts, enc, out, saved, fed, peak>>
    BY <1>3, Zenon DEF vars, inputVars, loopVars, cueVars, writeVars, copyVars
  <2>2. PlainTypes' /\ WriteTypes'
    BY <2>1, TypeParts, Zenon DEF MuxInv, PlainTypes, WriteTypes
  <2>3. JobsTyped' /\ PictureInv'
    BY <2>1, TypeParts, Zenon DEF MuxInv, JobsTyped, PictureInv, Count, Clearing, Picture, Empty
  <2>4. LoopInv'
    BY <2>1, BusyLoop, Zenon
  <2>5. Events'
    BY <2>1, QuietEvents, Zenon
  <2>6. CueMatches' /\ PeakInv'
    BY <2>1, Zenon DEF MuxInv, CueMatches, PeakInv, StartTick, Count, Picture, Empty, Garbage
  <2> QED
    BY <2>2, <2>3, <2>4, <2>5, <2>6, TypePartsPrime, Zenon DEF MuxInv, Events
<1> QED
  BY <1>2, <1>3, Zenon

\* The loop keeps MuxInv through every interleaving of the main thread, the pool
\* and the signal handler, whichever calls fail.
THEOREM MuxInvariant == Spec => []MuxInv
<1> QED
  BY InitMux, MuxStep, PTL DEF Spec

\* Variables keep their types; in particular the encode buffer never exceeds
\* MAX_SUB_BUF_SIZE.
THEOREM MuxTypeOK == Spec => []TypeOK
<1>1. MuxInv => TypeOK
  BY Zenon DEF MuxInv
<1> QED
  BY <1>1, MuxInvariant, PTL

\* Time stamps written by encode_and_write_subtitle strictly increase on each track.
THEOREM MuxPtsIncreasing == Spec => []PtsIncreasing
<1>1. MuxInv => PtsIncreasing
  BY Zenon DEF MuxInv
<1> QED
  BY <1>1, MuxInvariant, PTL

\* Cues and CLEAR events of a track are written in order and at most once.
THEOREM MuxEventOrder == Spec => []EventOrder
<1>1. MuxInv => EventOrder
  BY Zenon DEF MuxInv
<1> QED
  BY <1>1, MuxInvariant, PTL

\* The loop never shows or saves a picture under another cue.
THEOREM MuxCueMatches == Spec => []CueMatches
<1>1. MuxInv => CueMatches
  BY Zenon DEF MuxInv
<1> QED
  BY <1>1, MuxInvariant, PTL

\* The bump of time stamps does not add up on tracks whose cues last long enough.
THEOREM MuxDriftBounded == Spec => []DriftBounded
<1>1. MuxInv => DriftBounded
  BY Zenon DEF MuxInv
<1> QED
  BY <1>1, MuxInvariant, PTL

\* Whenever a packet is copied, all cues due by then have been handled.
THEOREM MuxCaughtUp == Spec => []CaughtUp
<1>1. MuxInv => CaughtUp
  <2> SUFFICES ASSUME MuxInv, pc = "copy", NEW t \in Tracks, NEW k \in 1..Count(t), DueAt(t, k)
               PROVE  k < cur_sub[t]
    BY Zenon DEF CaughtUp
  <2>1. /\ TypeOK /\ cur_sub[t] \in Nat /\ entries[t] \in CueLists
        /\ last_valid \in PacketTimes \cup {NOPTS}
    BY ZenonT(60) DEF MuxInv, TypeOK
  <2>2. ~Due(t) /\ Mode # "png_all"
    BY Zenon DEF MuxInv, LoopInv
  <2>3. last_valid # NOPTS /\ StartTick(t, k) <= last_valid
    BY Zenon DEF DueAt
  <2>4. Count(t) \in Nat /\ last_valid \in Int
    BY <2>1, <2>3, CueAssumption, Constants DEF Count
  <2>5. StartTick(t, k) \in Int
    BY <2>1, CueTicks, Zenon
  <2>6. ~(k >= cur_sub[t])
    BY <2>1, <2>2, <2>3, <2>4, <2>5, NoneDue
  <2> QED
    BY <2>1, <2>4, <2>6
<1> QED
  BY <1>1, MuxInvariant, PTL

\* No event is written behind a packet already copied, for inputs that start at
\* zero or later.
THEOREM MuxNeverLate == Spec => NeverLate
<1> DEFINE OnTime ==
      start0 >= 0 =>
        \A t \in Tracks :
          Len(out'[t]) > Len(out[t]) => peak = NOPTS \/ peak < out'[t][Len(out'[t])].pts
<1>1. MuxInv /\ [Next]_vars => [OnTime]_vars
  BY LateStep, Zenon
<1> QED
  BY <1>1, MuxInvariant, PTL DEF Spec, NeverLate

-----------------------------------------------------------------------------
(* No event is lost, and no cue is in the pool twice.                      *)

\* No call fails and the encoder always returns bytes.
Unfailing == Mode = "mux" /\ Faults = {} /\ 0 \notin EncodedSizes

\* Every cue and CLEAR that was passed is in the output.
WrittenCount ==
  \A t \in Tracks : Len(out[t]) = 2 * (cur_sub[t] - 1) + IF Clearing(t) THEN 1 ELSE 0

\* The bitmap of the current cue of t is in hand or used.
Taken(t) == pc \in {"encode", "clear"} /\ t = trk

\* A key has at most one job, and the keys with a job are those from the current cue
\* on up to some cue; in the prefetch loop, up to the one before qi.
JobsWindow ==
  /\ \A t \in Tracks : \A k \in 1..Count(t) : Len(jobs[t][k]) <= 1
  /\ \A t \in Tracks : \A j, k \in 1..Count(t) :
       cur_sub[t] <= j /\ j < k /\ jobs[t][k] # <<>> =>
         jobs[t][j] # <<>> \/ (j = cur_sub[t] /\ Taken(t))
  /\ pc = "prefetch" => \A k \in 1..Count(trk) :
       k >= cur_sub[trk] => (jobs[trk][k] # <<>> <=> k < cur_sub[trk] + pi)

\* cur_sub stops behind the last cue; without an input the loop ends with none due.
\* If no call fails, a call writes one event.
LEMMA WriteSure ==
  ASSUME MuxInv, Unfailing, NEW ev \in Event, EncodeAndWrite(trk, ev)
  PROVE  /\ Len(out'[trk]) = Len(out[trk]) + 1
         /\ \A t \in Tracks : t # trk => out'[t] = out[t]
<1>0. trk \in Tracks /\ out \in [Tracks -> Seq(Event)] /\ out[trk] \in Seq(Event)
  BY ZenonT(60) DEF MuxInv, TypeOK
<1>1. PICK n \in EncodedSizes : n # 0 /\ Packetise(trk, ev, n)
  BY ZenonT(60) DEF Unfailing, EncodeAndWrite
<1>2. \E sent : out' = [out EXCEPT ![trk] = Append(@, sent)]
  BY <1>1, ZenonT(60) DEF Unfailing, Packetise
<1>3. PICK sent : out' = [out EXCEPT ![trk] = Append(@, sent)]
  BY <1>2, ZenonT(60)
<1>4. out'[trk] = Append(out[trk], sent) /\ \A t \in Tracks : t # trk => out'[t] = out[t]
  BY <1>0, <1>3, ZenonT(60)
<1>5. Len(Append(out[trk], sent)) = Len(out[trk]) + 1
  BY <1>0
<1> QED
  BY <1>4, <1>5, ZenonT(60)

\* cur_sub moves with ClearCue and SavePng; no other step leaves "clear", and only
\* EmitCue leads there.
LEMMA QuietCues ==
  ASSUME Next, ~EmitCue, ~ClearCue, Mode # "png_all"
  PROVE  /\ UNCHANGED <<cur_sub, out>>
         /\ (pc # "clear" /\ pc' # "clear") \/ UNCHANGED <<pc, trk>>
<1>1. CASE \/ Signal \/ SkipPacket \/ Returned \/ Prefetch \/ PoolStep
  BY <1>1, ZenonT(60) DEF Signal, SkipPacket, Returned, Prefetch, PoolStep, PoolRender, vars,
                          loopVars, writeVars
<1>2. CASE \/ EndLoop \/ NextTrack \/ Collect \/ GoSync \/ GoPrefetch \/ PrefetchDone
           \/ Render \/ CopyPacket
  BY <1>2, Zenon DEF EndLoop, NextTrack, Collect, GoSync, GoPrefetch, PrefetchDone, Render,
              CopyPacket, writeVars
<1>3. ASSUME NEW s, NEW time, ReadPacket(s, time)
      PROVE  UNCHANGED <<cur_sub, out>> /\ pc # "clear" /\ pc' # "clear"
  BY <1>3, Zenon DEF ReadPacket, writeVars
<1>4. ~SavePng
  BY Zenon DEF SavePng
<1> QED
  BY <1>1, <1>2, <1>3, <1>4, ZenonT(60) DEF Next, MainStep

\* Each step keeps the output complete.
LEMMA WrittenStep ==
  ASSUME MuxInv, Unfailing, WrittenCount, Next
  PROVE  WrittenCount'
<1>0. /\ trk \in Tracks /\ cur_sub \in [Tracks -> Nat \ {0}] /\ bm \in Pictures
      /\ out \in [Tracks -> Seq(Event)]
  BY ZenonT(60) DEF MuxInv, TypeOK
<1>1. CASE EmitCue
  <2> DEFINE k == cur_sub[trk]
             ev == [kind |-> "cue", cue |-> k, pts |-> start0 + StartTick(trk, k), data |-> bm]
  <2>1. /\ pc = "encode" /\ pc' = "clear" /\ UNCHANGED <<trk, cur_sub>>
        /\ EncodeAndWrite(trk, ev)
    BY <1>1, ZenonT(60) DEF EmitCue, Unfailing
  <2>2. k \in 1..Count(trk) /\ start0 \in Int /\ StartTick(trk, k) \in Int
    BY <2>1, CurrentCue, Zenon DEF Busy
  <2>3. ev \in Event
    BY <1>0, <2>2 DEF Event
  <2> HIDE DEF ev
  <2>4. /\ Len(out'[trk]) = Len(out[trk]) + 1
        /\ \A t \in Tracks : t # trk => out'[t] = out[t]
    BY <2>1, <2>3, WriteSure, Zenon
  <2> QED
    BY <1>0, <2>1, <2>4 DEF WrittenCount, Clearing
<1>2. CASE ClearCue
  <2> DEFINE k == cur_sub[trk]
             ev == [kind |-> "clear", cue |-> k, pts |-> start0 + EndTick(trk, k),
                    data |-> Cleared]
  <2>1. /\ pc = "clear" /\ pc' = "cues" /\ trk' = trk
        /\ cur_sub' = [cur_sub EXCEPT ![trk] = @ + 1]
        /\ EncodeAndWrite(trk, ev)
    BY <1>2, ZenonT(60) DEF ClearCue, Unfailing
  <2>2. k \in 1..Count(trk) /\ start0 \in Int /\ EndTick(trk, k) \in Int
    BY <2>1, CurrentCue, Zenon DEF Busy
  <2>3. ev \in Event
    BY <2>2 DEF Event, Cleared, Pictures
  <2> HIDE DEF ev
  <2>4. /\ Len(out'[trk]) = Len(out[trk]) + 1
        /\ \A t \in Tracks : t # trk => out'[t] = out[t]
    BY <2>1, <2>3, WriteSure, Zenon
  <2>5. Len(out[trk]) = 2 * (cur_sub[trk] - 1) + 1 /\ cur_sub'[trk] = cur_sub[trk] + 1
    BY <1>0, <2>1, Zenon DEF WrittenCount, Clearing
  <2>6. Len(out'[trk]) = 2 * (cur_sub'[trk] - 1)
    BY <1>0, <2>4, <2>5
  <2>7. \A t \in Tracks : t # trk => Len(out'[t]) = 2 * (cur_sub'[t] - 1)
    BY <1>0, <2>1, <2>4 DEF WrittenCount, Clearing
  <2>8. \A t \in Tracks : Len(out'[t]) = 2 * (cur_sub'[t] - 1) /\ cur_sub'[t] \in Nat
    BY <1>0, <2>1, <2>6, <2>7
  <2> QED
    BY <2>1, <2>8 DEF WrittenCount, Clearing
<1>3. CASE ~EmitCue /\ ~ClearCue
  <2>1. Mode # "png_all"
    BY Zenon DEF Unfailing
  <2>2. /\ UNCHANGED <<cur_sub, out>>
        /\ (pc # "clear" /\ pc' # "clear") \/ UNCHANGED <<pc, trk>>
    BY <1>3, <2>1, QuietCues, Zenon
  <2> QED
    BY <2>2, ZenonT(60) DEF WrittenCount, Clearing
<1> QED
  BY <1>1, <1>2, <1>3, Zenon

\* Steps that leave the jobs alone and do not enter the prefetch loop.
LEMMA WindowQuiet ==
  ASSUME JobsWindow, UNCHANGED <<entries, jobs, cur_sub>>,
         UNCHANGED <<pc, trk, pi>> \/ (pc' # "prefetch" /\ \A t \in Tracks : Taken(t) => Taken(t)')
  PROVE  JobsWindow'
<1>1. \A t \in Tracks : Taken(t) => Taken(t)'
  BY ZenonT(60) DEF Taken
<1>2. \A t : Count(t)' = Count(t)
  BY Zenon DEF Count
<1>3. \A t \in Tracks : \A k \in 1..Count(t)' : Len(jobs'[t][k]) <= 1
  BY <1>2, ZenonT(60) DEF JobsWindow
<1>4. \A t \in Tracks : \A j, k \in 1..Count(t)' :
        cur_sub'[t] <= j /\ j < k /\ jobs'[t][k] # <<>> =>
          jobs'[t][j] # <<>> \/ (j = cur_sub'[t] /\ Taken(t)')
  BY <1>1, <1>2, ZenonT(60) DEF JobsWindow
<1>5. pc' = "prefetch" => \A k \in 1..Count(trk)' :
        k >= cur_sub'[trk'] => (jobs'[trk'][k] # <<>> <=> k < cur_sub'[trk'] + pi')
  BY <1>2, ZenonT(60) DEF JobsWindow, Count
<1> QED
  BY <1>3, <1>4, <1>5, ZenonT(60) DEF JobsWindow

\* A bitmap is taken from the pool.
LEMMA WindowCollect ==
  ASSUME MuxInv, JobsWindow, Collect, trk \in Tracks, cur_sub[trk] \in 1..Count(trk)
  PROVE  JobsWindow'
<1> DEFINE c == cur_sub[trk]
           q == Tail(jobs[trk][c])
<1>1. JobsTyped /\ \A t \in Tracks : cur_sub[t] \in Nat
  BY ZenonT(60) DEF MuxInv, TypeOK, JobsTyped
<1>2. /\ jobs[trk][c] # <<>> /\ pc' = "encode" /\ UNCHANGED <<trk, cur_sub, entries>>
      /\ pc \in {"cues", "retry"}
      /\ jobs' = [jobs EXCEPT ![trk][c] = Tail(@)]
  BY ZenonT(60) DEF Collect, Ready, Known, Keyed, inputVars
<1>3. jobs' = [jobs EXCEPT ![trk][c] = q]
  BY <1>1, <1>2, Zenon DEF JobsTyped
<1>4. /\ jobs'[trk][c] = q
      /\ \A u \in Tracks : \A j \in 1..Count(u) : u # trk \/ j # c => jobs'[u][j] = jobs[u][j]
  BY <1>1, <1>3, Zenon DEF JobsTyped
<1>5. Len(q) <= 1
  <2>1. jobs[trk][c] \in Seq(Job) /\ Len(jobs[trk][c]) <= 1
    BY <1>1, ZenonT(60) DEF JobsTyped, JobsWindow
  <2> QED
    BY <1>2, <2>1
<1>6. \A t : Count(t)' = Count(t)
  BY <1>2, Zenon DEF Count
<1> HIDE DEF q
<1>7. \A u \in Tracks : \A j \in 1..Count(u) : Len(jobs'[u][j]) <= 1
  BY <1>4, <1>5, ZenonT(60) DEF JobsWindow
<1>8. \A u \in Tracks : \A j, k \in 1..Count(u) :
        cur_sub[u] <= j /\ j < k /\ jobs'[u][k] # <<>> =>
          jobs'[u][j] # <<>> \/ (j = cur_sub[u] /\ u = trk)
  <2> SUFFICES ASSUME NEW u \in Tracks, NEW j \in 1..Count(u), NEW k \in 1..Count(u),
                      cur_sub[u] <= j, j < k, jobs'[u][k] # <<>>, ~(j = cur_sub[u] /\ u = trk)
               PROVE  jobs'[u][j] # <<>>
    BY Zenon
  <2>1. ~(u = trk /\ k = c)
    BY <1>1
  <2>2. jobs[u][k] # <<>>
    BY <1>4, <2>1, ZenonT(60)
  <2>3. ~Taken(u)
    BY <1>2, Zenon DEF Taken
  <2>4. jobs[u][j] # <<>>
    BY <2>2, <2>3, ZenonT(60) DEF JobsWindow
  <2> QED
    BY <1>4, <2>4, ZenonT(60)
<1>9. Taken(trk)'
  BY <1>2, Zenon DEF Taken
<1>10. \A u \in Tracks : \A j, k \in 1..Count(u)' :
         cur_sub'[u] <= j /\ j < k /\ jobs'[u][k] # <<>> =>
           jobs'[u][j] # <<>> \/ (j = cur_sub'[u] /\ Taken(u)')
  <2>1. \A u \in Tracks : u = trk => Taken(u)'
    BY <1>2, Zenon DEF Taken
  <2> QED
    BY <1>2, <1>6, <1>8, <2>1, ZenonT(60)
<1>11. pc' # "prefetch"
  BY <1>2, Zenon
<1> QED
  BY <1>6, <1>7, <1>10, <1>11, ZenonT(60) DEF JobsWindow

\* The prefetch loop starts only when no cue from the current one on has a job.
LEMMA WindowOpens ==
  ASSUME MuxInv, JobsWindow, GoPrefetch, trk \in Tracks, cur_sub[trk] \in 1..Count(trk)
  PROVE  JobsWindow'
<1>1. /\ pc = "cues" /\ jobs[trk][cur_sub[trk]] = <<>> /\ pi' = 0 /\ pc' = "prefetch"
      /\ UNCHANGED <<trk, cur_sub, entries, jobs>>
  BY ZenonT(60) DEF GoPrefetch, Known, Keyed, inputVars
<1>2. \A t : ~Taken(t)
  BY <1>1, Zenon DEF Taken
<1>3. \A k \in 1..Count(trk) : k >= cur_sub[trk] => jobs[trk][k] = <<>>
  <2> SUFFICES ASSUME NEW k \in 1..Count(trk), k > cur_sub[trk]
               PROVE  jobs[trk][k] = <<>>
    BY <1>1
  <2>1. cur_sub[trk] <= cur_sub[trk]
    OBVIOUS
  <2>2. cur_sub[trk] < k
    BY Zenon
  <2> QED
    BY <1>1, <1>2, <2>1, <2>2, ZenonT(60) DEF JobsWindow
<1>4. \A k \in 1..Count(trk) : k >= cur_sub[trk] => ~(k < cur_sub[trk] + 0)
  OBVIOUS
<1>5. \A t : Count(t)' = Count(t)
  BY <1>1, Zenon DEF Count
<1>6. \A t \in Tracks : \A k \in 1..Count(t)' : Len(jobs'[t][k]) <= 1
  BY <1>1, <1>5, ZenonT(60) DEF JobsWindow
<1>7. \A t \in Tracks : \A j, k \in 1..Count(t)' :
        cur_sub'[t] <= j /\ j < k /\ jobs'[t][k] # <<>> => jobs'[t][j] # <<>>
  BY <1>1, <1>2, <1>5, ZenonT(60) DEF JobsWindow
<1>8. \A k \in 1..Count(trk)' :
        k >= cur_sub'[trk'] => (jobs'[trk'][k] # <<>> <=> k < cur_sub'[trk'] + pi')
  <2>1. Count(trk)' = Count(trk) /\ trk' = trk
    BY <1>1, Zenon DEF Count
  <2> QED
    BY <1>1, <1>3, <1>4, <2>1, Zenon
<1> QED
  BY <1>6, <1>7, <1>8, ZenonT(60) DEF JobsWindow

\* One more cue of the window is submitted.
LEMMA WindowGrows ==
  ASSUME MuxInv, JobsWindow, "submit" \notin Faults, Prefetch, trk \in Tracks,
         cur_sub[trk] \in 1..Count(trk)
  PROVE  JobsWindow'
<1> DEFINE c == cur_sub[trk]
           n == c + pi
           q == <<[done |-> FALSE, data |-> Prefetched(trk, n)]>> \o jobs[trk][n]
<1>1. JobsTyped /\ pi \in Nat /\ (\A t \in Tracks : cur_sub[t] \in Nat)
  BY MuxAssumption, SMTT(60) DEF MuxInv, TypeOK, JobsTyped
<1>2. /\ n <= Count(trk) /\ entries' = entries /\ pi' = pi + 1 /\ pc = "prefetch"
      /\ UNCHANGED <<pc, trk, cur_sub>>
      /\ jobs' = [jobs EXCEPT ![trk][n] = <<[done |-> FALSE, data |-> Prefetched(trk, n)]>> \o @]
  BY ZenonT(60) DEF Prefetch, inputVars, loopVars
<1>3. n \in 1..Count(trk) /\ n >= c
  BY <1>1, <1>2
<1>4. jobs' = [jobs EXCEPT ![trk][n] = q]
  BY <1>1, <1>2, <1>3, Zenon DEF JobsTyped
<1>5. jobs[trk][n] = <<>>
  <2>1. ~(n < c + pi)
    BY <1>1
  <2> QED
    BY <1>2, <1>3, <2>1, ZenonT(60) DEF JobsWindow
<1>6. q # <<>> /\ Len(q) <= 1
  <2>1. q = <<[done |-> FALSE, data |-> Prefetched(trk, n)]>> \o <<>>
    BY <1>5, Zenon
  <2> QED
    BY <2>1
<1>7. /\ jobs'[trk][n] = q
      /\ \A u \in Tracks : \A j \in 1..Count(u) : u # trk \/ j # n => jobs'[u][j] = jobs[u][j]
  <2> HIDE DEF q, n
  <2> QED
    BY <1>1, <1>3, <1>4, Zenon DEF JobsTyped
<1> HIDE DEF q, n
<1>8. \A u \in Tracks : \A j \in 1..Count(u) : Len(jobs'[u][j]) <= 1
  BY <1>6, <1>7, ZenonT(60) DEF JobsWindow
<1>9. \A k \in 1..Count(trk) : k >= c => (jobs'[trk][k] # <<>> <=> k < c + (pi + 1))
  <2> SUFFICES ASSUME NEW k \in 1..Count(trk), k >= c
               PROVE  jobs'[trk][k] # <<>> <=> k < c + (pi + 1)
    BY Zenon
  <2>1. CASE k = n
    <3>1. k < c + (pi + 1)
      BY <1>1, <2>1 DEF n
    <3> QED
      BY <1>6, <1>7, <2>1, <3>1, ZenonT(60)
  <2>2. CASE k # n
    <3>1. jobs'[trk][k] = jobs[trk][k] /\ (jobs[trk][k] # <<>> <=> k < c + pi)
      BY <1>2, <1>7, <2>2, ZenonT(60) DEF JobsWindow
    <3>2. k < c + pi <=> k < c + (pi + 1)
      BY <1>1, <2>2 DEF n
    <3> QED
      BY <3>1, <3>2, ZenonT(60)
  <2> QED
    BY <2>1, <2>2, Zenon
<1>10. \A t : ~Taken(t) /\ Count(t)' = Count(t)
  BY <1>2, Zenon DEF Taken, Count
<1>11. \A u \in Tracks : \A j, k \in 1..Count(u) :
         cur_sub[u] <= j /\ j < k /\ jobs'[u][k] # <<>> => jobs'[u][j] # <<>>
  <2> SUFFICES ASSUME NEW u \in Tracks, NEW j \in 1..Count(u), NEW k \in 1..Count(u),
                      cur_sub[u] <= j, j < k, jobs'[u][k] # <<>>
               PROVE  jobs'[u][j] # <<>>
    BY Zenon
  <2>1. CASE u = trk
    <3>1. k >= c /\ j >= c
      BY <1>1, <2>1
    <3>2. k < c + (pi + 1)
      BY <1>9, <2>1, <3>1, ZenonT(60)
    <3>3. j < c + (pi + 1)
      BY <1>1, <3>2
    <3> QED
      BY <1>9, <2>1, <3>1, <3>3, ZenonT(60)
  <2>2. CASE u # trk
    <3>1. jobs'[u][k] = jobs[u][k] /\ jobs'[u][j] = jobs[u][j]
      BY <1>7, <2>2, ZenonT(60)
    <3> QED
      BY <1>10, <3>1, ZenonT(60) DEF JobsWindow
  <2> QED
    BY <2>1, <2>2, Zenon
<1>12. \A k \in 1..Count(trk)' :
         k >= cur_sub'[trk'] => (jobs'[trk'][k] # <<>> <=> k < cur_sub'[trk'] + pi')
  <2>1. Count(trk)' = Count(trk)
    BY <1>2, Zenon DEF Count
  <2> QED
    BY <1>2, <1>9, <2>1, Zenon
<1>13. \A u \in Tracks : \A j, k \in 1..Count(u)' :
         cur_sub'[u] <= j /\ j < k /\ jobs'[u][k] # <<>> => jobs'[u][j] # <<>>
  BY <1>2, <1>10, <1>11, ZenonT(60)
<1>14. \A u \in Tracks : \A j \in 1..Count(u)' : Len(jobs'[u][j]) <= 1
  BY <1>8, <1>10, ZenonT(60)
<1> QED
  BY <1>12, <1>13, <1>14, ZenonT(60) DEF JobsWindow

\* A job finishes.
LEMMA WindowRender ==
  ASSUME MuxInv, JobsWindow, NEW t \in Tracks, NEW k \in 1..Count(t),
         NEW i \in 1..Len(jobs[t][k]), PoolRender(t, k, i)
  PROVE  JobsWindow'
<1>1. JobsTyped
  BY ZenonT(60) DEF MuxInv, TypeOK, JobsTyped
<1>2. PICK job : jobs' = [jobs EXCEPT ![t][k][i] = job]
  BY ZenonT(60) DEF PoolRender
<1> DEFINE q == [jobs[t][k] EXCEPT ![i] = job]
<1>3. jobs' = [jobs EXCEPT ![t][k] = q]
  BY <1>1, <1>2, Zenon DEF JobsTyped
<1>4. Len(q) = Len(jobs[t][k]) /\ (q = <<>> <=> jobs[t][k] = <<>>)
  <2>1. jobs[t][k] \in Seq(Job)
    BY <1>1, ZenonT(60) DEF JobsTyped
  <2> QED
    BY <2>1
<1> HIDE DEF q
<1>5. \A u \in Tracks : \A j \in 1..Count(u) :
        /\ Len(jobs'[u][j]) = Len(jobs[u][j])
        /\ jobs'[u][j] = <<>> <=> jobs[u][j] = <<>>
  <2>1. /\ jobs'[t][k] = q
        /\ \A u \in Tracks : \A j \in 1..Count(u) : u # t \/ j # k => jobs'[u][j] = jobs[u][j]
    BY <1>1, <1>3, Zenon DEF JobsTyped
  <2> SUFFICES ASSUME NEW u \in Tracks, NEW j \in 1..Count(u)
               PROVE  /\ Len(jobs'[u][j]) = Len(jobs[u][j])
                      /\ jobs'[u][j] = <<>> <=> jobs[u][j] = <<>>
    BY ZenonT(60)
  <2>2. CASE u = t /\ j = k
    BY <1>4, <2>1, <2>2, ZenonT(60)
  <2>3. CASE u # t \/ j # k
    <3>1. jobs'[u][j] = jobs[u][j]
      BY <2>1, <2>3, ZenonT(60)
    <3> QED
      BY <3>1, ZenonT(60)
  <2> QED
    BY <2>2, <2>3, Zenon
<1>6. UNCHANGED <<entries, pc, trk, cur_sub, pi>>
  BY ZenonT(60) DEF PoolRender, inputVars, loopVars, cueVars
<1>7. \A u : Count(u)' = Count(u) /\ Taken(u)' = Taken(u)
  BY <1>6, Zenon DEF Count, Taken
<1>8. trk \in Tracks
  BY ZenonT(60) DEF MuxInv, TypeOK
<1>9. \A u \in Tracks : \A j \in 1..Count(u)' : Len(jobs'[u][j]) <= 1
  BY <1>5, <1>7, ZenonT(60) DEF JobsWindow
<1>10. \A u \in Tracks : \A j, n \in 1..Count(u)' :
         cur_sub'[u] <= j /\ j < n /\ jobs'[u][n] # <<>> =>
           jobs'[u][j] # <<>> \/ (j = cur_sub'[u] /\ Taken(u)')
  BY <1>5, <1>6, <1>7, ZenonT(60) DEF JobsWindow
<1>11. pc' = "prefetch" => \A n \in 1..Count(trk)' :
         n >= cur_sub'[trk'] => (jobs'[trk'][n] # <<>> <=> n < cur_sub'[trk'] + pi')
  <2>1. Count(trk)' = Count(trk)
    BY <1>6, Zenon DEF Count
  <2> QED
    BY <1>5, <1>6, <1>8, <2>1, ZenonT(60) DEF JobsWindow
<1> QED
  BY <1>9, <1>10, <1>11, ZenonT(60) DEF JobsWindow

\* The next cue of the track.
LEMMA WindowMoves ==
  ASSUME MuxInv, JobsWindow, UNCHANGED <<entries, jobs, trk>>, pc' = "cues",
         cur_sub' = [cur_sub EXCEPT ![trk] = @ + 1]
  PROVE  JobsWindow'
<1>1. cur_sub \in [Tracks -> Nat \ {0}] /\ trk \in Tracks
  BY ZenonT(60) DEF MuxInv, TypeOK
<1>2. \A t : Count(t)' = Count(t)
  BY Zenon DEF Count
<1>3. \A t \in Tracks : \A j \in 1..Count(t) :
        cur_sub'[t] <= j => cur_sub[t] <= j /\ ~(j = cur_sub[t] /\ t = trk)
  <2>1. \A t \in Tracks : cur_sub'[t] = IF t = trk THEN cur_sub[t] + 1 ELSE cur_sub[t]
    BY <1>1, ZenonT(60)
  <2> QED
    BY <1>1, <2>1
<1>4. \A t \in Tracks : \A j, k \in 1..Count(t) :
        cur_sub'[t] <= j /\ j < k /\ jobs'[t][k] # <<>> => jobs'[t][j] # <<>>
  BY <1>3, ZenonT(60) DEF JobsWindow, Taken
<1>5. \A t \in Tracks : \A k \in 1..Count(t)' : Len(jobs'[t][k]) <= 1
  BY <1>2, ZenonT(60) DEF JobsWindow
<1>6. \A t \in Tracks : \A j, k \in 1..Count(t)' :
        cur_sub'[t] <= j /\ j < k /\ jobs'[t][k] # <<>> => jobs'[t][j] # <<>>
  BY <1>2, <1>4, ZenonT(60)
<1>7. pc' # "prefetch"
  BY Zenon
<1> QED
  BY <1>5, <1>6, <1>7, ZenonT(60) DEF JobsWindow

\* Each step keeps the window.
LEMMA WindowStep ==
  ASSUME MuxInv, JobsWindow, "submit" \notin Faults, Next
  PROVE  JobsWindow'
<1>0. PlainTypes /\ (pc \in Busy => Due(trk))
  BY TypeParts, ZenonT(60) DEF MuxInv, LoopInv
<1>1. CASE Signal \/ SkipPacket \/ Returned
  <2>1. UNCHANGED <<entries, jobs, cur_sub, pc, trk, pi>>
    BY <1>1, ZenonT(60) DEF Signal, SkipPacket, Returned, vars, inputVars, loopVars, cueVars
  <2> QED
    BY <2>1, WindowQuiet, ZenonT(60)
<1>2. CASE EndLoop \/ NextTrack \/ GoSync \/ PrefetchDone \/ CopyPacket
  <2>1. UNCHANGED <<entries, jobs, cur_sub>> /\ pc' # "prefetch" /\ pc \notin {"encode", "clear"}
    BY <1>2, Zenon DEF EndLoop, NextTrack, GoSync, PrefetchDone, CopyPacket, inputVars
  <2>2. \A t \in Tracks : ~Taken(t)
    BY <2>1, Zenon DEF Taken
  <2> QED
    BY <2>1, <2>2, WindowQuiet, ZenonT(60)
<1>3. ASSUME NEW s, NEW time, ReadPacket(s, time)
      PROVE  JobsWindow'
  <2>1. UNCHANGED <<entries, jobs, cur_sub>> /\ pc' # "prefetch" /\ pc = "read"
    BY <1>3, Zenon DEF ReadPacket, inputVars
  <2>2. \A t \in Tracks : ~Taken(t)
    BY <2>1, Zenon DEF Taken
  <2> QED
    BY <2>1, <2>2, WindowQuiet, ZenonT(60)
<1>4. CASE Render \/ EmitCue
  <2>1. UNCHANGED <<entries, jobs, cur_sub, trk>> /\ pc' \in {"encode", "clear"}
    BY <1>4, Zenon DEF Render, EmitCue, inputVars
  <2>2. pc' # "prefetch" /\ \A t \in Tracks : Taken(t) => Taken(t)'
    BY <2>1, Zenon DEF Taken
  <2> QED
    BY <2>1, <2>2, WindowQuiet, ZenonT(60)
<1>5. CASE Collect
  <2>1. Due(trk)
    BY <1>0, <1>5, Zenon DEF Collect, Busy
  <2> QED
    BY <1>0, <1>5, <2>1, DueCue, WindowCollect, Zenon
<1>6. CASE GoPrefetch
  <2>1. Due(trk)
    BY <1>6, Zenon DEF GoPrefetch
  <2> QED
    BY <1>0, <1>6, <2>1, DueCue, WindowOpens, Zenon
<1>7. CASE Prefetch
  <2>1. Due(trk)
    BY <1>0, <1>7, Zenon DEF Prefetch, Busy
  <2> QED
    BY <1>0, <1>7, <2>1, DueCue, WindowGrows, Zenon
<1>8. CASE ClearCue \/ SavePng
  <2>1. /\ UNCHANGED <<entries, jobs, trk>> /\ pc' = "cues"
        /\ cur_sub' = [cur_sub EXCEPT ![trk] = @ + 1]
    BY <1>8, ZenonT(60) DEF ClearCue, SavePng, inputVars
  <2> QED
    BY <2>1, WindowMoves, Zenon
<1>9. CASE PoolStep
  BY <1>9, WindowRender, ZenonT(60) DEF PoolStep
<1> QED
  BY <1>1, <1>2, <1>3, <1>4, <1>5, <1>6, <1>7, <1>8, <1>9, ZenonT(60) DEF Next, MainStep

\* If no call fails, every cue passed was written with its CLEAR, and a cue is never
\* in the pool twice: successive prefetch windows do not overlap.
THEOREM MuxNoEventLost == Spec => []NoEventLost
<1> DEFINE Inv == MuxInv /\ (Unfailing => WrittenCount) /\ ("submit" \notin Faults => JobsWindow)
<1>1. Init => Inv
  <2> SUFFICES ASSUME Init PROVE Inv
    BY Zenon
  <2>1. /\ \A t \in Tracks : out[t] = <<>> /\ cur_sub[t] = 1
        /\ \A t \in Tracks : \A k \in 1..Count(t) : jobs[t][k] = <<>>
        /\ pc \in {"cues", "read"}
    BY Zenon DEF Init
  <2>2. WrittenCount
    BY <2>1 DEF WrittenCount, Clearing
  <2>3. JobsWindow
    <3>1. Len(<<>>) <= 1
      OBVIOUS
    <3>2. pc # "prefetch"
      BY <2>1, Zenon
    <3> QED
      BY <2>1, <3>1, <3>2, ZenonT(60) DEF JobsWindow
  <2> QED
    BY <2>2, <2>3, InitMux, Zenon
<1>2. Inv /\ [Next]_vars => Inv'
  <2> SUFFICES ASSUME Inv, [Next]_vars PROVE Inv'
    BY Zenon
  <2>1. MuxInv'
    BY MuxStep, Zenon
  <2>2. CASE Next
    <3>1. Unfailing => WrittenCount'
      BY <2>2, WrittenStep, Zenon
    <3>2. "submit" \notin Faults => JobsWindow'
      BY <2>2, WindowStep, Zenon
    <3> QED
      BY <2>1, <3>1, <3>2, Zenon DEF Unfailing
  <2>3. CASE UNCHANGED vars
    <3>1. UNCHANGED <<entries, jobs, cur_sub, pc, trk, pi, out>>
      BY <2>3, ZenonT(60) DEF vars, inputVars, loopVars, cueVars, writeVars
    <3>2. JobsWindow => JobsWindow'
      BY <3>1, WindowQuiet, ZenonT(60)
    <3>3. WrittenCount => WrittenCount'
      BY <3>1, ZenonT(60) DEF WrittenCount, Clearing
    <3> QED
      BY <2>1, <3>2, <3>3, Zenon DEF Unfailing
  <2> QED
    BY <2>2, <2>3, Zenon
<1>3. Inv => NoEventLost
  <2> SUFFICES ASSUME Inv PROVE NoEventLost
    BY Zenon
  <2>1. ASSUME Unfailing, pc \in {"read", "cues", "copy"}
        PROVE  \A t \in Tracks : Len(out[t]) = 2 * (cur_sub[t] - 1)
    <3>1. cur_sub \in [Tracks -> Nat \ {0}]
      BY ZenonT(60) DEF MuxInv, TypeOK
    <3> QED
      BY <2>1, <3>1 DEF WrittenCount, Clearing
  <2> QED
    BY <2>1, ZenonT(60) DEF NoEventLost, Unfailing, JobsWindow
<1> QED
  BY <1>1, <1>2, <1>3, PTL DEF Spec

-----------------------------------------------------------------------------
(* Without an input every cue is saved.                                    *)

EndInv ==
  /\ \A t \in Tracks : cur_sub[t] <= Count(t) + 1
  /\ Mode = "png_all" => pc \notin {"read", "copy"}
  /\ Mode = "png_all" /\ pc = "done" => \A t \in Tracks : ~Due(t)

\* No picture is empty.
NoneEmpty ==
  /\ \A t \in Tracks : \A k \in 1..Count(t) : \A i \in 1..Len(jobs[t][k]) :
       jobs[t][k][i].data = Picture(t, k)
  /\ pc = "encode" => bm = Picture(trk, cur_sub[trk])
  /\ \A t \in Tracks : \A i \in 1..Len(saved[t]) : saved[t][i] = Picture(t, i)

\* Each step keeps the end of the loop in sight.
LEMMA EndStep ==
  ASSUME MuxInv, EndInv, Next
  PROVE  EndInv'
<1>0. PlainTypes /\ LoopInv /\ trk \in Tracks /\ cur_sub \in [Tracks -> Nat \ {0}]
  BY TypeParts, ZenonT(60) DEF MuxInv, PlainTypes
<1>1. ASSUME UNCHANGED <<entries, delay, last_valid, cur_sub>>, pc' \notin {"read", "copy", "done"}
      PROVE  EndInv'
  BY <1>1, Zenon DEF EndInv, Count
<1>2. ASSUME UNCHANGED <<entries, delay, last_valid, cur_sub, pc>>
      PROVE  EndInv'
  <2>1. \A t : Due(t)' = Due(t) /\ Count(t)' = Count(t)
    BY <1>2, DueFrame, Zenon DEF Count
  <2> QED
    BY <1>2, <2>1, ZenonT(60) DEF EndInv
<1>3. CASE Signal \/ SkipPacket \/ Returned \/ Prefetch \/ PoolStep
  <2>1. UNCHANGED <<entries, delay, last_valid, cur_sub, pc>>
    BY <1>3, ZenonT(60) DEF Signal, SkipPacket, Returned, Prefetch, PoolStep, PoolRender, vars,
                            inputVars, loopVars
  <2> QED
    BY <1>2, <2>1, Zenon
<1>4. CASE Collect \/ GoSync \/ GoPrefetch \/ PrefetchDone \/ Render \/ EmitCue
  <2>1. UNCHANGED <<entries, delay, last_valid, cur_sub>> /\ pc' \notin {"read", "copy", "done"}
    BY <1>4, Zenon DEF Collect, GoSync, GoPrefetch, PrefetchDone, Render, EmitCue, inputVars
  <2> QED
    BY <1>1, <2>1, Zenon
<1>5. CASE EndLoop \/ CopyPacket
  <2>1. UNCHANGED <<entries, cur_sub>> /\ pc \in {"read", "copy"}
    BY <1>5, Zenon DEF EndLoop, CopyPacket, inputVars
  <2> QED
    BY <2>1, Zenon DEF EndInv, Count
<1>6. ASSUME NEW s, NEW time, ReadPacket(s, time)
      PROVE  EndInv'
  <2>1. UNCHANGED <<entries, cur_sub>> /\ pc \in {"read", "copy"}
    BY <1>6, Zenon DEF ReadPacket, inputVars
  <2> QED
    BY <2>1, Zenon DEF EndInv, Count
<1>7. CASE NextTrack
  <2>1. /\ pc = "cues" /\ ~Due(trk) /\ UNCHANGED <<entries, delay, last_valid, cur_sub>>
        /\ IF trk < NTracks THEN trk' = trk + 1 /\ pc' = pc
                            ELSE trk' = trk /\ pc' = IF Mode = "png_all" THEN "done" ELSE "copy"
    BY <1>7, ZenonT(60) DEF NextTrack, inputVars
  <2>2. CASE trk < NTracks
    BY <1>1, <2>1, <2>2, Zenon
  <2>3. CASE ~(trk < NTracks)
    <3>1. \A t \in Tracks : t < trk \/ t = trk
      BY <1>0, <2>3, MuxAssumption DEF Tracks
    <3>2. \A t \in Tracks : ~Due(t)
      BY <1>0, <2>1, <3>1, ZenonT(60) DEF LoopInv
    <3>3. \A t : Due(t)' = Due(t) /\ Count(t)' = Count(t)
      BY <2>1, DueFrame, Zenon DEF Count
    <3>4. Mode = "png_all" => pc' = "done"
      BY <2>1, <2>3, Zenon
    <3>5. Mode = "png_all" => pc' \notin {"read", "copy"}
      BY <3>4, Zenon
    <3> QED
      BY <2>1, <3>2, <3>3, <3>5, ZenonT(60) DEF EndInv
  <2> QED
    BY <2>2, <2>3, Zenon
<1>8. CASE ClearCue \/ SavePng
  <2>1. /\ entries' = entries /\ pc \in Busy /\ pc' = "cues"
        /\ cur_sub' = [cur_sub EXCEPT ![trk] = @ + 1]
    BY <1>8, Zenon DEF ClearCue, SavePng, inputVars, Busy
  <2>2. cur_sub[trk] \in 1..Count(trk)
    BY <1>0, <2>1, DueCue, Zenon DEF LoopInv
  <2>3. \A t \in Tracks : cur_sub'[t] = IF t = trk THEN cur_sub[t] + 1 ELSE cur_sub[t]
    BY <1>0, <2>1, ZenonT(60)
  <2>4. \A t \in Tracks : cur_sub'[t] <= Count(t) + 1
    <3>1. cur_sub[trk] + 1 <= Count(trk) + 1
      <4>1. Count(trk) \in Nat
        BY <1>0, CueAssumption DEF PlainTypes, Count
      <4> QED
        BY <2>2, <4>1
    <3>2. \A t \in Tracks : cur_sub[t] <= Count(t) + 1
      BY Zenon DEF EndInv
    <3> QED
      BY <2>3, <3>1, <3>2, ZenonT(60)
  <2> QED
    BY <2>1, <2>4, Zenon DEF EndInv, Count
<1> QED
  BY <1>3, <1>4, <1>5, <1>6, <1>7, <1>8, ZenonT(60) DEF Next, MainStep

\* If the renderer does not fail, jobs and the bitmap in hand keep their pictures.
LEMMA ExactJobs ==
  ASSUME MuxInv, NoneEmpty, "render" \notin Faults, Next
  PROVE  /\ \A t \in Tracks : \A k \in 1..Count(t)' : \A i \in 1..Len(jobs'[t][k]) :
              jobs'[t][k][i].data = Picture(t, k)
         /\ pc' = "encode" => bm' = Picture(trk', cur_sub'[trk'])
<1>0. PlainTypes /\ LoopInv /\ JobsTyped /\ trk \in Tracks
  BY TypeParts, ZenonT(60) DEF MuxInv, PlainTypes
<1> DEFINE Exact(q, t, k) == \A i \in 1..Len(q) : q[i].data = Picture(t, k)
<1>1. \A t \in Tracks : \A k \in 1..Count(t) : jobs[t][k] \in Seq(Job) /\ Exact(jobs[t][k], t, k)
  BY <1>0, ZenonT(60) DEF JobsTyped, NoneEmpty
<1>2. \A t : Count(t)' = Count(t)
  <2>1. entries' = entries
    BY ZenonT(60) DEF Next, MainStep, PoolStep, Signal, Returned, EndLoop, SkipPacket, ReadPacket,
         NextTrack, Collect, GoSync, GoPrefetch, Prefetch, PrefetchDone, Render, EmitCue,
         ClearCue, SavePng, CopyPacket, PoolRender, vars, inputVars
  <2> QED
    BY <2>1, Zenon DEF Count
<1>3. ASSUME NEW t \in Tracks, NEW k \in 1..Count(t), NEW q, Exact(q, t, k),
             jobs' = [jobs EXCEPT ![t][k] = q]
      PROVE  \A u \in Tracks : \A j \in 1..Count(u) : Exact(jobs'[u][j], u, j)
  <2> HIDE DEF Exact
  <2>1. /\ jobs'[t][k] = q
        /\ \A u \in Tracks : \A j \in 1..Count(u) : u # t \/ j # k => jobs'[u][j] = jobs[u][j]
    BY <1>0, <1>3, Zenon DEF JobsTyped
  <2> QED
    BY <1>1, <1>3, <2>1, ZenonT(60)
<1>4. CASE \/ Signal \/ SkipPacket \/ Returned \/ EndLoop \/ NextTrack \/ GoSync \/ GoPrefetch
           \/ PrefetchDone \/ ClearCue \/ SavePng \/ CopyPacket \/ EmitCue
           \/ \E s, time : ReadPacket(s, time)
  <2>1. jobs' = jobs /\ (pc' = "encode" => UNCHANGED <<pc, bm, trk, cur_sub>>)
    BY <1>4, Zenon DEF Signal, SkipPacket, Returned, EndLoop, NextTrack, GoSync, GoPrefetch,
                PrefetchDone, ClearCue, SavePng, CopyPacket, EmitCue, ReadPacket, vars, loopVars,
                cueVars
  <2> QED
    BY <1>2, <2>1, ZenonT(60) DEF NoneEmpty
<1>5. CASE Collect
  <2> DEFINE c == cur_sub[trk]
             q == jobs[trk][c]
  <2>1. /\ Due(trk) /\ UNCHANGED <<trk, cur_sub>> /\ q # <<>> /\ bm' = q[1].data
        /\ jobs' = [jobs EXCEPT ![trk][c] = Tail(@)]
    BY <1>0, <1>5, Zenon DEF Collect, LoopInv, Busy, Ready, Known, Keyed
  <2>2. c \in 1..Count(trk)
    BY <1>0, <2>1, DueCue, Zenon
  <2>3. jobs' = [jobs EXCEPT ![trk][c] = Tail(q)]
    BY <1>0, <2>1, <2>2, Zenon DEF JobsTyped
  <2>4. q \in Seq(Job) /\ Exact(q, trk, c)
    BY <1>0, <1>1, <2>2, ZenonT(60)
  <2> HIDE DEF q, c
  <2>5. Exact(Tail(q), trk, c) /\ bm' = Picture(trk, c)
    BY <2>1, <2>4
  <2>6. \A u \in Tracks : \A j \in 1..Count(u) : Exact(jobs'[u][j], u, j)
    BY <1>0, <1>3, <2>2, <2>3, <2>5, ZenonT(60)
  <2> QED
    BY <1>2, <2>1, <2>5, <2>6, Zenon DEF c
<1>6. CASE Prefetch
  <2> DEFINE n == cur_sub[trk] + pi
             job == [done |-> FALSE, data |-> Picture(trk, n)]
             q == <<job>> \o jobs[trk][n]
  <2>1. /\ n <= Count(trk) /\ UNCHANGED <<pc, trk, cur_sub, bm>> /\ pc = "prefetch"
        /\ jobs' = [jobs EXCEPT ![trk][n] = <<job>> \o @] \/ jobs' = jobs
    BY <1>6, ZenonT(60) DEF Prefetch, Prefetched, loopVars
  <2>2. cur_sub[trk] \in 1..Count(trk) /\ pi \in Nat
    BY <1>0, <2>1, DueCue, MuxAssumption DEF LoopInv, Busy, PlainTypes
  <2>3. n \in 1..Count(trk)
    BY <2>1, <2>2
  <2>4. jobs[trk][n] \in Seq(Job) /\ Exact(jobs[trk][n], trk, n)
    BY <1>0, <1>1, <2>3, ZenonT(60)
  <2>5. Exact(q, trk, n)
    <3> HIDE DEF n
    <3>1. job.data = Picture(trk, n)
      BY Zenon
    <3> HIDE DEF job
    <3>2. \A i \in 1..Len(q) : q[i] = job \/ (i - 1 \in 1..Len(jobs[trk][n]) /\ q[i] = jobs[trk][n][i - 1])
      BY <2>4, SMTT(60)
    <3> QED
      BY <2>4, <3>1, <3>2, Zenon
  <2>6. jobs' = [jobs EXCEPT ![trk][n] = q] \/ jobs' = jobs
    BY <1>0, <2>1, <2>3, ZenonT(60) DEF JobsTyped
  <2>7. \A u \in Tracks : \A j \in 1..Count(u) : Exact(jobs'[u][j], u, j)
    <3> HIDE DEF q, n, Exact
    <3>1. CASE jobs' = [jobs EXCEPT ![trk][n] = q]
      BY <1>0, <1>3, <2>3, <2>5, <3>1, ZenonT(60)
    <3>2. CASE jobs' = jobs
      BY <1>1, <3>2, ZenonT(60)
    <3> QED
      BY <2>6, <3>1, <3>2, Zenon
  <2> QED
    BY <1>2, <2>1, <2>7, Zenon
<1>7. CASE Render
  <2>1. /\ UNCHANGED <<jobs, trk, cur_sub>> /\ bm' = Picture(trk, cur_sub[trk])
    BY <1>7, Zenon DEF Render
  <2> QED
    BY <1>2, <2>1, Zenon DEF NoneEmpty
<1>8. CASE PoolStep
  <2>1. PICK t \in Tracks : \E k \in 1..Count(t) : \E i \in 1..Len(jobs[t][k]) : PoolRender(t, k, i)
    BY <1>8, ZenonT(60) DEF PoolStep
  <2>a. PICK k \in 1..Count(t) : \E i \in 1..Len(jobs[t][k]) : PoolRender(t, k, i)
    BY <2>1, Zenon
  <2>b. PICK i \in 1..Len(jobs[t][k]) : PoolRender(t, k, i)
    BY <2>a, Zenon
  <2> DEFINE job == [done |-> TRUE, data |-> jobs[t][k][i].data]
             q == [jobs[t][k] EXCEPT ![i] = job]
  <2>2. jobs' = [jobs EXCEPT ![t][k][i] = job] /\ UNCHANGED <<pc, trk, cur_sub, bm>>
    BY <2>b, ZenonT(60) DEF PoolRender, loopVars, cueVars
  <2>3. jobs' = [jobs EXCEPT ![t][k] = q]
    BY <1>0, <2>2, Zenon DEF JobsTyped
  <2>4. jobs[t][k] \in Seq(Job) /\ Exact(jobs[t][k], t, k)
    BY <1>1, ZenonT(60)
  <2>5. Exact(q, t, k)
    BY <2>4
  <2> HIDE DEF q
  <2>6. \A u \in Tracks : \A j \in 1..Count(u) : Exact(jobs'[u][j], u, j)
    BY <1>3, <2>3, <2>5, ZenonT(60)
  <2> QED
    BY <1>2, <2>2, <2>6, Zenon DEF NoneEmpty
<1> QED
  BY <1>4, <1>5, <1>6, <1>7, <1>8, ZenonT(60) DEF Next, MainStep

\* If neither the renderer nor the PNG writer fails, each step saves whole pictures.
LEMMA ExactStep ==
  ASSUME MuxInv, NoneEmpty, Faults \cap {"render", "png"} = {}, Next
  PROVE  NoneEmpty'
<1>0. /\ trk \in Tracks /\ saved \in [Tracks -> Seq(Pictures)] /\ cur_sub \in [Tracks -> Nat \ {0}]
      /\ bm \in Pictures /\ SavedCount
  BY ZenonT(60) DEF MuxInv, TypeOK, PictureInv, SavedCount
<1>1. "render" \notin Faults /\ "png" \notin Faults
  BY Zenon
<1>2. /\ \A t \in Tracks : \A k \in 1..Count(t)' : \A i \in 1..Len(jobs'[t][k]) :
           jobs'[t][k][i].data = Picture(t, k)
      /\ pc' = "encode" => bm' = Picture(trk', cur_sub'[trk'])
  BY <1>1, ExactJobs, Zenon
<1>3. \A t \in Tracks : \A i \in 1..Len(saved'[t]) : saved'[t][i] = Picture(t, i)
  <2>1. CASE saved' = saved
    BY <2>1, ZenonT(60) DEF NoneEmpty
  <2>2. CASE pc = "encode" /\ Mode # "mux" /\ SaveBitmap
    <3>1. saved' = [saved EXCEPT ![trk] = Append(@, bm)] /\ bm = Picture(trk, cur_sub[trk])
      BY <1>1, <2>2, ZenonT(60) DEF SaveBitmap, NoneEmpty
    <3>2. /\ saved'[trk] = Append(saved[trk], bm) /\ saved[trk] \in Seq(Pictures)
          /\ \A t \in Tracks : t # trk => saved'[t] = saved[t]
      BY <1>0, <3>1, ZenonT(60)
    <3>3. Len(saved[trk]) + 1 = cur_sub[trk]
      BY <1>0, <2>2 DEF SavedCount, Clearing
    <3>4. \A i \in 1..Len(saved'[trk]) :
            \/ i \in 1..Len(saved[trk]) /\ saved'[trk][i] = saved[trk][i]
            \/ i = cur_sub[trk] /\ saved'[trk][i] = bm
      BY <1>0, <3>2, <3>3, AppendFacts
    <3>5. \A i \in 1..Len(saved'[trk]) : saved'[trk][i] = Picture(trk, i)
      BY <1>0, <3>1, <3>4, ZenonT(60) DEF NoneEmpty
    <3> QED
      BY <3>2, <3>5, SMTT(60) DEF NoneEmpty
  <2>3. CASE EmitCue
    BY <2>1, <2>2, <2>3, ZenonT(60) DEF EmitCue
  <2>4. CASE SavePng
    BY <2>2, <2>4, ZenonT(60) DEF SavePng
  <2>5. EmitCue \/ SavePng \/ saved' = saved
    BY ZenonT(60) DEF Next, MainStep, PoolStep, Signal, Returned, EndLoop, SkipPacket, ReadPacket,
         NextTrack, Collect, GoSync, GoPrefetch, Prefetch, PrefetchDone, Render,
         ClearCue, CopyPacket, PoolRender, vars
  <2> QED
    BY <2>1, <2>3, <2>4, <2>5, Zenon
<1> QED
  BY <1>2, <1>3, ZenonT(60) DEF NoneEmpty, Picture

\* ctx_png_only_render_all returns with every cue saved once, as its own picture
\* unless a call failed.
THEOREM MuxAllSaved == Spec => []AllSaved
<1> DEFINE Whole == Faults \cap {"render", "png"} = {}
           Inv == MuxInv /\ EndInv /\ (Whole => NoneEmpty)
<1>1. Init => Inv
  <2> SUFFICES ASSUME Init PROVE Inv
    BY Zenon
  <2>1. /\ \A t \in Tracks : saved[t] = <<>> /\ cur_sub[t] = 1
        /\ \A t \in Tracks : \A k \in 1..Count(t) : jobs[t][k] = <<>>
        /\ pc = IF Mode = "png_all" THEN "cues" ELSE "read"
        /\ entries \in [Tracks -> CueLists]
    BY Zenon DEF Init
  <2>2. \A t \in Tracks : Count(t) \in Nat
    BY <2>1, CueAssumption DEF Count
  <2>3. EndInv
    BY <2>1, <2>2 DEF EndInv
  <2>4. NoneEmpty
    <3>1. \A i \in 1..Len(<<>>) : FALSE
      OBVIOUS
    <3>2. pc # "encode"
      BY <2>1, Zenon
    <3> QED
      BY <2>1, <3>1, <3>2, Zenon DEF NoneEmpty
  <2> QED
    BY <2>3, <2>4, InitMux, Zenon
<1>2. Inv /\ [Next]_vars => Inv'
  <2> SUFFICES ASSUME Inv, [Next]_vars PROVE Inv'
    BY Zenon
  <2>1. MuxInv'
    BY MuxStep, Zenon
  <2>2. CASE Next
    BY <2>1, <2>2, EndStep, ExactStep, Zenon
  <2>3. CASE UNCHANGED vars
    <3>1. UNCHANGED <<entries, delay, last_valid, jobs, cur_sub, pc, trk, bm, saved>>
      BY <2>3, ZenonT(60) DEF vars, inputVars, loopVars, cueVars
    <3>2. \A t : Due(t)' = Due(t) /\ Count(t)' = Count(t)
      BY <3>1, DueFrame, Zenon DEF Count
    <3>3. EndInv'
      BY <3>1, <3>2, ZenonT(60) DEF EndInv
    <3>4. NoneEmpty => NoneEmpty'
      BY <3>1, <3>2, ZenonT(60) DEF NoneEmpty, Picture
    <3> QED
      BY <2>1, <3>3, <3>4, Zenon
  <2> QED
    BY <2>2, <2>3, Zenon
<1>3. Inv => AllSaved
  <2> SUFFICES ASSUME Inv, Mode = "png_all", pc = "done", NEW t \in Tracks
               PROVE  /\ Len(saved[t]) = Count(t)
                      /\ Whole => \A i \in 1..Count(t) : saved[t][i] = Picture(t, i)
    BY ZenonT(60) DEF AllSaved
  <2>1. /\ cur_sub[t] \in Nat \ {0} /\ entries[t] \in CueLists /\ cur_sub[t] <= Count(t) + 1
        /\ ~(cur_sub[t] <= Count(t))
    BY ZenonT(60) DEF MuxInv, TypeOK, EndInv, Due
  <2>2. Count(t) \in Nat
    BY <2>1, CueAssumption DEF Count
  <2>3. Len(saved[t]) = cur_sub[t] - 1
    <3>1. SavedCount
      BY ZenonT(60) DEF MuxInv, PictureInv, SavedCount
    <3> QED
      BY <2>1, <3>1 DEF SavedCount, Clearing
  <2>4. Len(saved[t]) = Count(t)
    BY <2>1, <2>2, <2>3
  <2> QED
    BY <2>4, ZenonT(60) DEF NoneEmpty
<1> QED
  BY <1>1, <1>2, <1>3, PTL DEF Spec

==============================================================================
