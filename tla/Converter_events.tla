---------------------------- MODULE Converter_events ----------------------------
(***************************************************************************)
(* Proofs about the content of the file src/dvdbr2dvbsub.c writes, on top  *)
(* of the invariant of Converter_proofs: which events each track has got,  *)
(* in which order, and what their pictures show.                           *)
(*                                                                         *)
(* StreamInv tells from the place of main which blanks and events each     *)
(* track must have got, and that the event in hand is due and will not be  *)
(* refused.  PictureInv says that the bitmap in hand and those in the file *)
(* show their source.                                                      *)
(***************************************************************************)
EXTENDS Converter_proofs

-----------------------------------------------------------------------------
(* Which events are in the file.                                           *)

\* main writes, or has written the file to its end.
Live == pc \in Busy \/ (pc = "cleanup" /\ ret = 0)

Flushing == pc = "flush" \/ (pc = "write" /\ cur.flush)

\* The last packet whose event track t was given, if it has one.
Taken(t) ==
  IF pc = "convert" \/ (pc = "write" /\ ~cur.flush) THEN IF t < ti THEN pos ELSE pos - 1
  ELSE IF pc = "blank" /\ pos > 0 THEN pos - 1 ELSE pos

\* Track t was given what its decoder held back.
LateTaken(t) == pc = "cleanup" \/ (Flushing /\ t < ti)

\* Track t was given its blank.
Started(t) == IF pc = "blank" THEN t < ti ELSE seen \/ video_index = 0

\* Packet n of the input holds an event for track t; the one past the last stands for
\* what its decoder holds back.
Holds(t, n) ==
  IF n \in 1..Len(media.packets)
  THEN media.packets[n].stream = tracks[t].stream /\ media.packets[n].event # Nothing
  ELSE n = Len(media.packets) + 1 /\ media.flush[tracks[t].stream] # Nothing

Has(t, n) == \E i \in DOMAIN written : written[i].track = t /\ written[i].of = n

\* What is in the file for track t.
TrackTold(t) ==
  /\ Has(t, 0) => Started(t)
  /\ \A n \in 1..(Len(media.packets) + 1) : Has(t, n) =>
       Holds(t, n) /\ (n <= Taken(t) \/ (n = Len(media.packets) + 1 /\ LateTaken(t)))
  /\ faults = 0 =>
       /\ Started(t) => Has(t, 0)
       /\ \A n \in 1..Taken(t) : Holds(t, n) => Has(t, n)
       /\ LateTaken(t) /\ Holds(t, Len(media.packets) + 1) => Has(t, Len(media.packets) + 1)

\* Packet p is one of the video, with a PTS.
Begins(p) == media.packets[p].stream = video_index /\ media.packets[p].pts # NoPts

\* Has the video begun: main has read the packet that starts the streams.
VideoSeen ==
  /\ seen \in BOOLEAN
  /\ pc \in Early => ~seen
  /\ seen => video_index # 0 /\ Starting \in 1..pos /\ media.packets[Starting].stream = video_index
  /\ ~seen => \A p \in 1..pos : ~Begins(p)
  /\ pc = "blank" => IF pos = 0 THEN video_index = 0 ELSE seen /\ Starting = pos

\* The event in hand is due on its track, and make_subtitle will not refuse it.
HandDue ==
  pc = "write" => /\ PlaneFits(cur.bm)
                  /\ Holds(ti, IF cur.flush THEN Len(media.packets) + 1 ELSE pos)

InOrder ==
  \A i, j \in DOMAIN written :
    i < j /\ written[i].track = written[j].track =>
      /\ written[i].of # written[j].of
      /\ IF written[j].of = 0 THEN written[i].of < Starting
         ELSE /\ written[i].of < written[j].of
              /\ written[i].of = 0 => Starting < written[j].of

StreamInv ==
  /\ VideoSeen /\ HandDue /\ InOrder
  /\ Live => \A t \in DOMAIN tracks : TrackTold(t)

-----------------------------------------------------------------------------
(* What the pictures show.                                                 *)

PictureInv ==
  /\ pc = "write" => Blank(cur.bm) \/ Shows(cur.bm, cur.event, cur.flush)
  /\ tracks # <<>> => \A w \in {written[i] : i \in DOMAIN written} :
       w.of # 0 /\ w.sub.idx # <<>> => Shows(w.sub, EventOf(w), w.of > Len(media.packets))

-----------------------------------------------------------------------------
(* Steps: the events of a track.                                           *)

\* What an event is of does not change.
LEMMA HoldsKept ==
  ASSUME UNCHANGED media, NEW t, tracks'[t].stream = tracks[t].stream
  PROVE  \A n : Holds(t, n)' <=> Holds(t, n)
  BY Zenon DEF Holds

\* A packet more in the file.
LEMMA HasAppended ==
  ASSUME Listed, NEW w, written' = Append(written, w)
  PROVE  \A t, n : Has(t, n)' <=> Has(t, n) \/ (w.track = t /\ w.of = n)
<1>1. /\ Len(written) \in Nat
      /\ DOMAIN written = 1..Len(written) /\ DOMAIN written' = 1..(Len(written) + 1)
      /\ \A i \in DOMAIN written : written'[i] = written[i]
      /\ written'[Len(written) + 1] = w
  BY Appended, Zenon
<1>2. DOMAIN written' = DOMAIN written \cup {Len(written) + 1}
  BY <1>1
<1> QED
  BY <1>1, <1>2, ZenonT(60) DEF Has

\* A step in which a track gets nothing, and is owed nothing.
LEMMA ToldAgain ==
  ASSUME NEW t, TrackTold(t), UNCHANGED media, faults' = 0 => faults = 0,
         \A n : Holds(t, n)' <=> Holds(t, n),
         \A n : Has(t, n)' <=> Has(t, n),
         Started(t)' <=> Started(t), Taken(t)' = Taken(t), LateTaken(t)' <=> LateTaken(t)
  PROVE  TrackTold(t)'
  BY ZenonT(60) DEF TrackTold

\* A step in which track t is given its blank, or its event of packet n, if it has one.
\* The event is written unless a call fails.
LEMMA ToldNext ==
  ASSUME Shape, NEW t, TrackTold(t), UNCHANGED media, faults' = 0 => faults = 0,
         \A m : Holds(t, m)' <=> Holds(t, m),
         NEW n \in 0..(Len(media.packets) + 1), NEW wrote \in BOOLEAN,
         \A m : Has(t, m)' <=> Has(t, m) \/ (wrote /\ m = n),
         wrote /\ n # 0 => Holds(t, n),
         faults' = 0 /\ (n = 0 \/ Holds(t, n)) => wrote,
         Taken(t) \in Nat,
         IF n = 0 THEN Started(t)' ELSE Started(t)' <=> Started(t),
         IF n \in 1..Len(media.packets) THEN Taken(t) = n - 1 /\ Taken(t)' = n ELSE Taken(t)' = Taken(t),
         IF n = Len(media.packets) + 1 THEN LateTaken(t)' ELSE LateTaken(t)' <=> LateTaken(t)
  PROVE  TrackTold(t)'
<1> DEFINE last == Len(media.packets) + 1
<1>1. last \in Nat \ {0} /\ Len(media.packets) \in Nat
  BY MediaTyped DEF IsMedia
<1>2. Has(t, 0)' => Started(t)'
  BY <1>1, Zenon DEF TrackTold
<1>3. ASSUME NEW m \in 1..last, Has(t, m)'
      PROVE  Holds(t, m)' /\ (m <= Taken(t)' \/ (m = last /\ LateTaken(t)'))
  <2>1. CASE Has(t, m)
    <3>1. Holds(t, m) /\ (m <= Taken(t) \/ (m = last /\ LateTaken(t)))
      BY <2>1, Zenon DEF TrackTold
    <3>2. Taken(t)' \in Nat /\ Taken(t)' >= Taken(t)
      BY <1>1
    <3>3. LateTaken(t) => LateTaken(t)'
      BY Zenon
    <3> QED
      BY <1>1, <3>1, <3>2, <3>3, SMTT(60)
  <2>2. CASE wrote /\ m = n
    BY <1>1, <2>2
  <2> QED
    BY <1>3, <2>1, <2>2, Zenon
<1>4. ASSUME faults' = 0
      PROVE  /\ Started(t)' => Has(t, 0)'
             /\ \A m \in 1..Taken(t)' : Holds(t, m)' => Has(t, m)'
             /\ LateTaken(t)' /\ Holds(t, last)' => Has(t, last)'
  <2>1. /\ Started(t) => Has(t, 0)
        /\ \A m \in 1..Taken(t) : Holds(t, m) => Has(t, m)
        /\ LateTaken(t) /\ Holds(t, last) => Has(t, last)
    BY <1>4, Zenon DEF TrackTold
  <2>2. Started(t)' => Has(t, 0)'
    BY <1>4, <2>1, Zenon
  <2>3. ASSUME NEW m \in 1..Taken(t)', Holds(t, m)'
        PROVE  Has(t, m)'
    <3>1. CASE n \in 1..Len(media.packets)
      <4>1. m \in 1..Taken(t) \/ m = n
        BY <3>1, SMTT(60)
      <4> QED
        BY <1>4, <2>1, <2>3, <4>1, SMTT(60)
    <3>2. CASE n \notin 1..Len(media.packets)
      BY <2>1, <2>3, <3>2, Zenon
    <3> QED
      BY <3>1, <3>2, Zenon
  <2>4. LateTaken(t)' /\ Holds(t, last)' => Has(t, last)'
    <3>1. Holds(t, last)' <=> Holds(t, last)
      BY ZenonT(60)
    <3>2. Has(t, last)' <=> Has(t, last) \/ (wrote /\ last = n)
      BY ZenonT(60)
    <3> QED
      BY <1>4, <2>1, <3>1, <3>2
  <2> QED
    BY <2>2, <2>3, <2>4, ZenonT(60)
<1>5. last' = last
  BY Zenon
<1> QED
  BY <1>2, <1>3, <1>4, <1>5, Zenon DEF TrackTold

\* The packet that starts the streams is known from the file.
LEMMA StartingKept ==
  ASSUME UNCHANGED media
  PROVE  /\ video_index' = video_index /\ Starting' = Starting
         /\ \A p : Begins(p)' <=> Begins(p)
<1>1. video_index' = video_index
  BY SMTT(60) DEF video_index
<1>2. Starting' = Starting
  BY <1>1, SMTT(60) DEF Starting
<1>3. \A p : Begins(p)' <=> Begins(p)
  BY <1>1, SMTT(60) DEF Begins
<1> QED
  BY <1>1, <1>2, <1>3, Zenon

\* The packet that starts the streams is the first of the video with a PTS.
LEMMA StartingIs ==
  ASSUME Shape, video_index # 0, NEW n \in 1..Len(media.packets), Begins(n),
         \A p \in 1..(n - 1) : ~Begins(p)
  PROVE  Starting = n
<1> DEFINE v == {p \in 1..Len(media.packets) : Begins(p)}
<1>1. Len(media.packets) \in Nat
  BY MediaTyped, Zenon DEF IsMedia
<1>2. n \in v /\ \A q \in v : q \in Nat /\ n <= q
  <2>1. \A q \in 1..Len(media.packets) : q \in Nat /\ (q \in 1..(n - 1) \/ n <= q)
    BY <1>1
  <2> QED
    BY <2>1, ZenonT(60)
<1>3. Starting = CHOOSE p \in v : \A q \in v : p <= q
  BY <1>2, ZenonT(60) DEF Starting, Begins
<1> HIDE DEF v
<1>4. \A p \in v : (\A q \in v : p <= q) => p = n
  BY <1>2, SMTT(60)
<1> QED
  BY <1>2, <1>3, <1>4, ZenonT(60)

\* No track takes its events from the video.
LEMMA TracksApart ==
  ASSUME Shape, video_index # 0, NEW t \in DOMAIN tracks
  PROVE  tracks[t].stream # video_index
<1> DEFINE v == {i \in DOMAIN media.streams : media.streams[i].type = "video"}
<1>1. tracks \in Seq(Track) /\ DOMAIN media.streams = 1..Len(media.streams) /\ Len(media.streams) \in Nat
  BY MediaTyped, Zenon DEF Shape, IsMedia
<1>2. media.streams[tracks[t].stream].type = "sub"
  <2>1. tracks[t] \in Track
    BY <1>1
  <2> QED
    BY <2>1, Zenon DEF Track, Subtitles
<1>3. v # {} /\ video_index = CHOOSE i \in v : \A j \in v : i <= j
  BY Zenon DEF video_index
<1>4. v \subseteq Nat
  BY <1>1
<1>5. \A i \in v : media.streams[i].type = "video"
  BY Zenon
<1> HIDE DEF v
<1>6. video_index \in v
  <2>1. \E i \in v : \A j \in v : i <= j
    BY <1>3, <1>4, Smallest, ZenonT(60)
  <2> QED
    BY <1>3, <2>1, ZenonT(60)
<1>7. "sub" # "video"
  OBVIOUS
<1> QED
  BY <1>2, <1>5, <1>6, <1>7, Zenon

\* The video begins when its first packet with a PTS is read.
LEMMA VideoSteps ==
  ASSUME Place, VideoSeen, [Next]_vars
  PROVE  VideoSeen' /\ video_index' = video_index
<1>1. UNCHANGED media
  BY InputFixed, Zenon
<1>2. video_index' = video_index
  BY <1>1, SMTT(60) DEF video_index
<1>3. pos \in Nat /\ Shape
  BY MediaTyped DEF Place, Shape, IsMedia
<1>0. Starting' = Starting /\ \A p : Begins(p)' <=> Begins(p)
  BY <1>1, StartingKept, Zenon
<1>4. ASSUME UNCHANGED <<seen, pos>>, pc' \in Early => pc \in Early,
             pc' = "blank" => pc = "blank"
      PROVE  VideoSeen'
  BY <1>0, <1>1, <1>2, <1>4, ZenonT(60) DEF VideoSeen
<1>5. CASE ParseOptions \/ OptionsFail \/ OpenInput \/ OpenFails \/ PickStream \/ FindEncoder
  <2>1. UNCHANGED <<seen, pos>>
    BY <1>5, ZenonT(60)
    DEF ParseOptions, OptionsFail, OpenInput, OpenFails, PickStream, FindEncoder, Fail, Crash
  <2>2. pc \in Early
    BY <1>5, ZenonT(60)
    DEF ParseOptions, OptionsFail, OpenInput, OpenFails, PickStream, FindEncoder, Early
  <2>3. pc' # "blank"
    BY <1>5, ZenonT(60)
    DEF ParseOptions, OptionsFail, OpenInput, OpenFails, PickStream, FindEncoder, Fail, Crash
  <2> QED
    BY <1>2, <1>4, <2>1, <2>2, <2>3, Zenon
<1>6. CASE AddTrack \/ TrackFails \/ OutputFails
  <2>1. UNCHANGED <<seen, pos>> /\ pc \in Early
    BY <1>6, ZenonT(60) DEF AddTrack, TrackFails, OutputFails, Fail, Early
  <2>2. pc' # "blank"
    BY <1>6, ZenonT(60) DEF AddTrack, TrackFails, OutputFails, Fail
  <2> QED
    BY <1>2, <1>4, <2>1, <2>2
<1>7. CASE StartOutput
  <2>1. UNCHANGED <<seen, pos>> /\ pos = 0 /\ pc' \notin Early /\ (pc' = "blank" => video_index = 0)
    BY <1>7, Zenon DEF StartOutput, Place, PacketRead, Early
  <2>2. ~seen /\ \A p \in 1..pos : FALSE
    <3>1. ~seen
      BY <1>7, Zenon DEF StartOutput, Early, VideoSeen
    <3> QED
      BY <2>1, <3>1
  <2> QED
    BY <1>2, <2>1, <2>2, ZenonT(60) DEF VideoSeen
<1>8. CASE ReadPacket
  <2> DEFINE starts == StartsStreams(media.packets[pos + 1])
  <2>1. seen' = (seen \/ starts) /\ pos' = pos + 1 /\ pc' = IF starts THEN "blank" ELSE "convert"
    BY <1>8, Zenon DEF ReadPacket
  <2>2. starts => video_index # 0
    <3>1. pos + 1 \in 1..Len(media.packets)
      BY <1>3, <1>8, MediaTyped, SMTT(60) DEF ReadPacket, IsMedia
    <3>2. media.packets[pos + 1].stream \in 1..Len(media.streams) /\ Len(media.streams) \in Nat
      BY <1>3, <3>1, MediaTyped, Zenon DEF IsMedia
    <3> QED
      BY <3>2, SMTT(60) DEF StartsStreams
  <2>3. pos' # 0 /\ pc' \notin Early
    BY <1>3, <2>1 DEF Early
  <2>4. /\ pos + 1 \in 1..Len(media.packets) /\ (pos + 1) - 1 = pos
        /\ 1..(pos + 1) = (1..pos) \cup {pos + 1} /\ pos + 1 \in 1..(pos + 1)
    BY <1>3, <1>8, MediaTyped, SMTT(60) DEF ReadPacket, IsMedia
  <2>5. starts <=> ~seen /\ Begins(pos + 1)
    BY Zenon DEF StartsStreams, Begins
  <2> HIDE DEF starts
  <2>6. CASE starts
    <3>1. \A p \in 1..pos : ~Begins(p)
      BY <2>5, <2>6, Zenon DEF VideoSeen
    <3>2. Starting = pos + 1
      BY <1>3, <2>2, <2>4, <2>5, <2>6, <3>1, StartingIs, ZenonT(60)
    <3>3. /\ seen' /\ seen' \in BOOLEAN /\ Starting' = pos' /\ Starting' \in 1..pos'
          /\ media'.packets[Starting'].stream = video_index' /\ video_index' # 0
      BY <1>0, <1>1, <1>2, <2>1, <2>2, <2>4, <2>5, <2>6, <3>2, ZenonT(60) DEF Begins
    <3>4. ~seen' => \A p \in 1..pos' : ~Begins(p)'
      BY <3>3, Zenon
    <3>5. pc' \in Early => ~seen'
      BY <2>3, Zenon
    <3>6. pc' = "blank" => IF pos' = 0 THEN video_index' = 0 ELSE seen' /\ Starting' = pos'
      BY <2>3, <3>3, Zenon
    <3> QED
      BY <1>2, <3>3, <3>4, <3>5, <3>6, ZenonT(60) DEF VideoSeen
  <2>7. CASE ~starts
    <3>1. seen' = seen /\ pc' # "blank" /\ seen \in BOOLEAN
      BY <2>1, <2>7, ZenonT(60) DEF VideoSeen
    <3>2. CASE seen
      <4>1. video_index # 0 /\ Starting \in 1..pos /\ media.packets[Starting].stream = video_index
        BY <3>2, Zenon DEF VideoSeen
      <4>2. Starting' \in 1..pos'
        BY <1>0, <2>1, <2>4, <4>1, Zenon
      <4> QED
        BY <1>0, <1>1, <1>2, <2>3, <3>1, <3>2, <4>1, <4>2, ZenonT(60) DEF VideoSeen
    <3>3. CASE ~seen
      <4>1. \A p \in 1..pos : ~Begins(p)
        BY <3>3, Zenon DEF VideoSeen
      <4>2. \A p \in 1..pos' : ~Begins(p)'
        BY <1>0, <2>1, <2>4, <2>5, <2>7, <3>3, <4>1, ZenonT(60)
      <4>3. ~seen' /\ seen' \in BOOLEAN
        BY <3>1, <3>3, Zenon
      <4> QED
        BY <1>2, <3>1, <4>2, <4>3, ZenonT(60) DEF VideoSeen
    <3> QED
      BY <3>2, <3>3, Zenon
  <2> QED
    BY <1>2, <2>6, <2>7, Zenon
<1>9. CASE AllocPacket \/ WriteBlank \/ BlanksDone \/ EndOfInput \/ NextTrack
  <2>1. UNCHANGED <<seen, pos>> /\ pc' \notin Early
    BY <1>9, Zenon DEF AllocPacket, WriteBlank, BlanksDone, EndOfInput, NextTrack, Early, Crash
  <2>2. pc' = "blank" => pc = "blank"
    BY <1>9, Zenon DEF AllocPacket, WriteBlank, BlanksDone, EndOfInput, NextTrack, Crash
  <2> QED
    BY <1>2, <1>4, <2>1, <2>2, SMTT(60)
<1>10. CASE Convert \/ ConvertFails
  <2>1. Crash \/ \E bm, copied : Converted(Decoded, bm, copied)
    BY <1>10, ZenonT(60) DEF Convert, ConvertFails
  <2>2. UNCHANGED <<seen, pos>> /\ pc' \notin Early /\ pc' # "blank"
    BY <2>1, Zenon DEF Crash, Converted, Early
  <2> QED
    BY <1>2, <1>4, <2>2
<1>11. CASE WriteEvent \/ PacketDone \/ WriteTrailer \/ Cleanup
  <2>1. UNCHANGED <<seen, pos>> /\ pc' \notin Early /\ pc' # "blank"
    BY <1>11, Zenon DEF WriteEvent, PacketDone, WriteTrailer, Cleanup, Early
  <2> QED
    BY <1>2, <1>4, <2>1, Zenon
<1>12. CASE Signal \/ UNCHANGED vars
  <2>1. UNCHANGED <<seen, pc, pos>>
    BY <1>12, Zenon DEF Signal, vars
  <2> QED
    BY <1>2, <1>4, <2>1, Zenon
<1> QED
  BY <1>2, <1>5, <1>6, <1>7, <1>8, <1>9, <1>10, <1>11, <1>12, ZenonT(60) DEF Next, Steps, Over

\* What track ti gets is due on it.
LEMMA DecodedHolds ==
  ASSUME Place, pc \in {"convert", "flush"}, ti <= Len(tracks)
  PROVE  LET n == IF pc = "flush" THEN Len(media.packets) + 1 ELSE pos
         IN  /\ n \in 1..(Len(media.packets) + 1) /\ (n = Len(media.packets) + 1 <=> pc = "flush")
             /\ Holds(ti, n) <=> Decoded # Nothing
<1>1. Len(media.packets) \in Nat /\ pos \in 0..Len(media.packets) /\ (pc = "convert" => pos > 0)
  BY MediaTyped, Zenon DEF Place, Shape, IsMedia, PacketRead
<1>2. CASE pc = "flush"
  <2> DEFINE n == Len(media.packets) + 1
  <2>1. n \notin 1..Len(media.packets) /\ n \in 1..(Len(media.packets) + 1)
    BY <1>1, SMTT(60)
  <2>2. Decoded = media.flush[tracks[ti].stream]
    BY <1>2, Zenon DEF Decoded
  <2>3. Holds(ti, n) <=> Decoded # Nothing
    BY <2>1, <2>2, Zenon DEF Holds
  <2> QED
    BY <1>2, <2>1, <2>3, Zenon
<1>3. CASE pc = "convert"
  <2>1. pos \in 1..Len(media.packets) /\ pos \in 1..(Len(media.packets) + 1) /\ pos # Len(media.packets) + 1
    BY <1>1, <1>3, SMTT(60)
  <2>2. Holds(ti, pos) <=> Decoded # Nothing
    BY <1>3, <2>1, Zenon DEF Holds, Decoded
  <2> QED
    BY <1>3, <2>1, <2>2, Zenon
<1> QED
  BY <1>2, <1>3, Zenon

\* The event in hand is due on its track, and has a bitmap that is not refused.
LEMMA HandSteps ==
  ASSUME Place, HandDue, [Next]_vars
  PROVE  HandDue'
<1> SUFFICES ASSUME pc' = "write"
             PROVE  /\ PlaneFits(cur'.bm)
                    /\ Holds(ti, IF cur.flush THEN Len(media.packets) + 1 ELSE pos)'
  BY Zenon DEF HandDue
<1>1. UNCHANGED media
  BY InputFixed, Zenon
<1>2. CASE UNCHANGED <<pc, cur, ti, pos, tracks>> /\ pc = "write"
  BY <1>1, <1>2, Zenon DEF HandDue, Holds
<1>3. CASE Convert \/ ConvertFails
  <2> DEFINE n == IF pc = "flush" THEN Len(media.packets) + 1 ELSE pos
  <2>1. /\ pc \in {"convert", "flush"} /\ ti <= Len(tracks) /\ Decoded # Nothing /\ IsEvent(Decoded)
        /\ UNCHANGED <<tracks, pos, ti>> /\ cur'.flush = (pc = "flush")
    BY <1>3, BitmapMade, Zenon
  <2>2. Holds(ti, n)
    BY <2>1, DecodedHolds, Zenon
  <2>3. Holds(ti, IF cur.flush THEN Len(media.packets) + 1 ELSE pos)'
    BY <1>1, <2>1, <2>2, ZenonT(60) DEF Holds
  <2>4. CASE cur'.bm = NoBitmap
    BY <2>3, <2>4 DEF NoBitmap, PlaneFits, Blank
  <2>5. ASSUME NEW scale, NEW k \in Nat, NEW flush \in BOOLEAN,
               \/ cur'.bm = Bitmap(Decoded, scale, k, flush)
               \/ cur'.bm = [Bitmap(Decoded, scale, k, flush) EXCEPT !.idx = <<>>]
        PROVE  PlaneFits(cur'.bm)
    <3>1. PlaneFits(Bitmap(Decoded, scale, k, flush))
      BY <2>1, PlaneLength, Zenon
    <3>2. [Bitmap(Decoded, scale, k, flush) EXCEPT !.idx = <<>>].idx = <<>>
      BY Zenon DEF Bitmap
    <3>3. PlaneFits([Bitmap(Decoded, scale, k, flush) EXCEPT !.idx = <<>>])
      BY <3>2, Zenon DEF PlaneFits, Blank
    <3> QED
      BY <2>5, <3>1, <3>3, Zenon
  <2> QED
    BY <1>3, <2>3, <2>4, <2>5, BitmapMade, ZenonT(60)
<1> QED
  BY <1>2, <1>3, WriteEntered, Zenon

\* The packet a call of encode_and_write_subtitle is for.
Given == IF pc = "blank" THEN 0 ELSE IF cur.flush THEN Len(media.packets) + 1 ELSE pos

\* A call of encode_and_write_subtitle writes its packet, unless something fails.
LEMMA WriteOutcome ==
  ASSUME Place, CacheInv, HandDue, [Next]_vars, WriteBlank \/ WriteEvent
  PROVE  /\ DOMAIN tracks' = DOMAIN tracks
         /\ \A t \in DOMAIN tracks : tracks'[t].stream = tracks[t].stream
         /\ faults' = 0 => faults = 0
         /\ \/ UNCHANGED written /\ faults' # 0
            \/ \E w : /\ written' = Append(written, w) /\ w.track = ti /\ w.of = Given
                      /\ w.sub.made /\ (pc = "write" => SubInHand(w.sub))
<1>1. /\ Shape /\ UNCHANGED <<opts, media, src_fps, pos>> /\ ti \in 1..Len(tracks)
      /\ tracks \in Seq(Track)
  BY WriteCall, Zenon DEF Shape
<1>2. PICK sub, of, how :
        \E pts \in Int :
          /\ Written(encode_and_write_subtitle(Output, ti, sub, of, pts, how))
          /\ faults' = 0 => how = "done" /\ faults = 0
          /\ \/ WriteBlank /\ of = 0 /\ sub = Cleared(0, 2)
             \/ /\ WriteEvent /\ SubInHand(sub)
                /\ of = IF cur.flush THEN Len(media.packets) + 1 ELSE pos
  BY WriteCall, ZenonT(60)
<1>3. PICK pts \in Int :
        /\ Written(encode_and_write_subtitle(Output, ti, sub, of, pts, how))
        /\ faults' = 0 => how = "done" /\ faults = 0
        /\ \/ WriteBlank /\ of = 0 /\ sub = Cleared(0, 2)
           \/ /\ WriteEvent /\ SubInHand(sub)
              /\ of = IF cur.flush THEN Len(media.packets) + 1 ELSE pos
  BY <1>2, Zenon
<1>4. of = Given /\ (pc = "write" => SubInHand(sub))
  BY <1>3, Zenon DEF WriteBlank, WriteEvent, Given
<1>5. faults' = 0 => sub.made
  <2>1. CASE sub = Cleared(0, 2)
    BY <2>1, Zenon DEF Cleared
  <2>2. CASE WriteEvent /\ SubInHand(sub)
    <3>1. PaletteFits(cur.bm) /\ PlaneFits(cur.bm) /\ Cached(buckets)
      BY <2>2, ZenonT(60) DEF WriteEvent, CacheInv, HandDue
    <3> QED
      BY <2>2, <3>1, SubtitleMade, ZenonT(60) DEF SubInHand
  <2> QED
    BY <1>3, <2>1, <2>2, Zenon
<1> DEFINE at == Later(tracks[ti].last, pts)
           w == [track |-> ti, of |-> of, pts |-> at, asked |-> pts, sub |-> sub]
<1>6. \/ UNCHANGED <<tracks, written>> /\ (sub.made => how # "done")
      \/ /\ tracks' = [tracks EXCEPT ![ti].last = at] /\ sub.made
         /\ \/ how = "write" /\ UNCHANGED written
            \/ how # "write" /\ written' = Append(written, w)
  BY <1>1, <1>3, EncodeEffect, Zenon
<1>7. w.track = ti /\ w.of = of /\ w.sub = sub
  BY Zenon
<1>8. at \in Int
  <2>1. tracks[ti] \in Track
    BY <1>1
  <2>2. tracks[ti].last \in Int \cup {NoPts}
    BY <2>1, Zenon DEF Track
  <2> QED
    BY <2>2, LaterFacts, ZenonT(60)
<1> HIDE DEF at, w
<1>9. DOMAIN tracks' = DOMAIN tracks /\ \A t \in DOMAIN tracks : tracks'[t].stream = tracks[t].stream
  BY <1>1, <1>6, <1>8, EncodeTracks
<1>10. \/ UNCHANGED written /\ faults' # 0
       \/ written' = Append(written, w) /\ sub.made
  BY <1>3, <1>5, <1>6, Zenon
<1>11. \/ UNCHANGED written /\ faults' # 0
       \/ \E v : /\ written' = Append(written, v) /\ v.track = ti /\ v.of = Given
                 /\ v.sub.made /\ (pc = "write" => SubInHand(v.sub))
  BY <1>4, <1>7, <1>10, ZenonT(60)
<1>12. faults' = 0 => faults = 0
  BY <1>3, Zenon
<1> QED
  BY <1>9, <1>11, <1>12, Zenon

\* Where the tracks are while a packet is written for track ti, and after it.
LEMMA WriteMoves ==
  ASSUME Place, VideoSeen, [Next]_vars, WriteBlank \/ WriteEvent, NEW u, u = ti
  PROVE  /\ ti \in 1..Len(tracks) /\ UNCHANGED <<media, pos>> /\ Live /\ Shape
         /\ Given \in 0..(Len(media.packets) + 1)
         /\ \A t \in 1..Len(tracks) :
              /\ Taken(t) \in Nat /\ Taken(t) <= Len(media.packets)
              /\ t # u => /\ Started(t)' <=> Started(t)
                          /\ Taken(t)' = Taken(t)
                          /\ LateTaken(t)' <=> LateTaken(t)
         /\ IF Given = 0 THEN ~Started(u) /\ Started(u)' ELSE Started(u)' <=> Started(u)
         /\ IF Given \in 1..Len(media.packets)
            THEN Taken(u) = Given - 1 /\ Taken(u)' = Given ELSE Taken(u)' = Taken(u)
         /\ Given # 0 => ~LateTaken(u)
         /\ IF Given = Len(media.packets) + 1 THEN LateTaken(u)' ELSE LateTaken(u)' <=> LateTaken(u)
         /\ Given = 0 <=> pc = "blank"
<1>1. /\ Shape /\ UNCHANGED <<media, pos>> /\ ti \in 1..Len(tracks)
      /\ Len(media.packets) \in Nat /\ pos \in 0..Len(media.packets) /\ tracks \in Seq(Track)
  BY WriteCall, MediaTyped, Zenon DEF Shape, IsMedia
<1>2. ti' = ti + 1 /\ UNCHANGED seen
  BY Zenon DEF WriteBlank, WriteEvent
<1>3. video_index' = video_index
  BY <1>1 DEF video_index
<1>4. CASE WriteBlank
  <2>1. pc = "blank" /\ pc' = "blank"
    BY <1>4, Zenon DEF WriteBlank
  <2>2. Live /\ Given = 0
    BY <2>1, Zenon DEF Live, Busy, Given
  <2>3. \A t \in 1..Len(tracks) : /\ Taken(t)' = Taken(t) /\ Taken(t) \in Nat /\ Taken(t) <= Len(media.packets)
                                  /\ ~LateTaken(t) /\ ~LateTaken(t)'
    BY <1>1, <2>1 DEF Taken, LateTaken, Flushing
  <2>4. \A t \in 1..Len(tracks) : (Started(t) <=> t < ti) /\ (Started(t)' <=> t < ti + 1)
    BY <1>2, <2>1, Zenon DEF Started
  <2>5. ~(ti < ti) /\ ti < ti + 1 /\ \A t \in 1..Len(tracks) : t # u => (t < ti <=> t < ti + 1)
    BY <1>1
  <2>6. /\ Started(u)' /\ ~Started(u) /\ Taken(u)' = Taken(u)
        /\ (LateTaken(u)' <=> LateTaken(u))
    BY <1>1, <2>3, <2>4, <2>5
  <2>7. /\ Given \in 0..(Len(media.packets) + 1) /\ Given \notin 1..Len(media.packets)
        /\ Given # Len(media.packets) + 1
    BY <1>1, <2>2
  <2>8. \A t \in 1..Len(tracks) :
          /\ Taken(t) \in Nat /\ Taken(t) <= Len(media.packets)
          /\ t # u => /\ Started(t)' <=> Started(t)
                      /\ Taken(t)' = Taken(t)
                      /\ LateTaken(t)' <=> LateTaken(t)
    BY <2>3, <2>4, <2>5, Zenon
  <2> QED
    BY <1>1, <2>1, <2>2, <2>6, <2>7, <2>8, ZenonT(60)
<1>5. CASE WriteEvent
  <2>1. pc = "write" /\ pc' = (IF cur.flush THEN "flush" ELSE "convert") /\ cur.flush \in BOOLEAN
    BY <1>5, ZenonT(60) DEF WriteEvent, Place, InHand
  <2>2. Live /\ Given = (IF cur.flush THEN Len(media.packets) + 1 ELSE pos) /\ (~cur.flush => pos > 0)
    BY <2>1, Zenon DEF Live, Busy, Given, Place, InHand
  <2>3. Given \in 1..(Len(media.packets) + 1)
    BY <1>1, <2>2
  <2>4. \A t \in 1..Len(tracks) : Started(t)' <=> Started(t)
    BY <1>2, <1>3, <2>1, Zenon DEF Started
  <2>5. CASE cur.flush
    <3>1. \A t \in 1..Len(tracks) : /\ Taken(t)' = Taken(t) /\ Taken(t) = pos
                                    /\ LateTaken(t) <=> t < ti
                                    /\ LateTaken(t)' <=> t < ti + 1
      BY <1>1, <1>2, <2>1, <2>5 DEF Taken, LateTaken, Flushing
    <3>2. /\ Given = Len(media.packets) + 1 /\ Given \notin 1..Len(media.packets) /\ Given # 0
          /\ Given \in 0..(Len(media.packets) + 1)
      BY <1>1, <2>2, <2>5
    <3>3. LateTaken(u)' /\ ~LateTaken(u) /\ Taken(u)' = Taken(u) /\ (Started(u)' <=> Started(u))
      BY <1>1, <2>4, <3>1
    <3>4. \A t \in 1..Len(tracks) :
            /\ Taken(t) \in Nat /\ Taken(t) <= Len(media.packets)
            /\ t # u => /\ Started(t)' <=> Started(t)
                        /\ Taken(t)' = Taken(t)
                        /\ LateTaken(t)' <=> LateTaken(t)
      BY <1>1, <2>4, <3>1, SMTT(60)
    <3> QED
      BY <1>1, <2>1, <2>2, <3>2, <3>3, <3>4, SMTT(60)
  <2>6. CASE ~cur.flush
    <3>1. \A t \in 1..Len(tracks) : ~LateTaken(t)' /\ ~LateTaken(t)
      BY <2>1, <2>6, Zenon DEF LateTaken, Flushing
    <3>2. \A t \in 1..Len(tracks) : /\ Taken(t) = IF t < ti THEN pos ELSE pos - 1
                                    /\ Taken(t)' = IF t < ti + 1 THEN pos ELSE pos - 1
      BY <1>1, <1>2, <2>1, <2>6, SMTT(60) DEF Taken
    <3>3. /\ Given = pos /\ Given \in 1..Len(media.packets) /\ Given # 0
          /\ Given # Len(media.packets) + 1 /\ Given \in 0..(Len(media.packets) + 1)
      BY <1>1, <2>2, <2>6, SMTT(60)
    <3>4. /\ ~LateTaken(u)' /\ ~LateTaken(u) /\ Taken(u)' = Given /\ Taken(u) = Given - 1
          /\ Started(u)' <=> Started(u)
      BY <1>1, <2>4, <3>1, <3>2, <3>3, SMTT(60)
    <3>5. \A t \in 1..Len(tracks) :
            /\ Taken(t) \in Nat /\ Taken(t) <= Len(media.packets)
            /\ t # u => /\ Started(t)' <=> Started(t)
                        /\ Taken(t)' = Taken(t)
                        /\ LateTaken(t)' <=> LateTaken(t)
      BY <1>1, <2>2, <2>4, <2>6, <3>1, <3>2, SMTT(60)
    <3> QED
      BY <1>1, <2>1, <2>2, <3>3, <3>4, <3>5, SMTT(60)
  <2> QED
    BY <2>1, <2>5, <2>6, Zenon
<1> QED
  BY <1>4, <1>5, Zenon

\* The packet given to track ti comes after those it has, its blank when the video begins.
LEMMA GivenLater ==
  ASSUME Place, TimesInv, VideoSeen, HandDue, [Next]_vars, WriteBlank \/ WriteEvent,
         \A t \in DOMAIN tracks : TrackTold(t), NEW i \in DOMAIN written, written[i].track = ti
  PROVE  /\ written[i].of # Given
         /\ IF Given = 0 THEN written[i].of < Starting
            ELSE /\ written[i].of < Given
                 /\ written[i].of = 0 => Starting < Given
<1> DEFINE m == written[i].of
           last == Len(media.packets) + 1
<1>1. PICK u : u = ti
  BY Zenon
<1>2. u \in 1..Len(tracks) /\ Shape /\ tracks \in Seq(Track) /\ Len(media.packets) \in Nat
  BY <1>1, WriteMoves, MediaTyped, ZenonT(60) DEF Shape, IsMedia
<1>3. TrackTold(u) /\ m \in 0..last /\ Has(u, m)
  <2>1. PacketTimed(written[i])
    BY Zenon DEF TimesInv
  <2>2. m \in 0..last
    BY <2>1, Zenon DEF PacketTimed
  <2>3. Has(u, m)
    BY <1>1, Zenon DEF Has
  <2> QED
    BY <1>2, <2>2, <2>3, SMTT(60)
<1>4. /\ Taken(u) \in Nat /\ Taken(u) <= Len(media.packets) /\ Given \in 0..last
      /\ Given = 0 => ~Started(u)
      /\ Given \in 1..Len(media.packets) => Taken(u) = Given - 1
      /\ Given # 0 => ~LateTaken(u)
      /\ Given = 0 <=> pc = "blank"
  BY <1>1, <1>2, WriteMoves, ZenonT(60)
<1>5. m = 0 => Started(u)
  BY <1>3, ZenonT(60) DEF TrackTold
<1>6. m # 0 => m <= Taken(u) \/ LateTaken(u)
  BY <1>2, <1>3 DEF TrackTold
<1> HIDE DEF m
<1>7. CASE Given = 0
  <2>1. pc = "blank" /\ m # 0 /\ ~LateTaken(u)
    BY <1>4, <1>5, <1>7, Zenon DEF LateTaken, Flushing
  <2>2. /\ Taken(u) = IF pos > 0 THEN pos - 1 ELSE pos
        /\ IF pos = 0 THEN video_index = 0 ELSE Starting = pos
    BY <2>1, ZenonT(60) DEF Taken, VideoSeen
  <2>3. pos \in Nat
    BY <1>2 DEF Place, Shape
  <2>4. m # Given /\ m < Starting
    BY <1>2, <1>3, <1>6, <1>7, <2>1, <2>2, <2>3, SMTT(60)
  <2> QED
    BY <1>7, <2>4, Zenon DEF m
<1>8. CASE Given # 0
  <2>1. m <= Taken(u)
    BY <1>3, <1>4, <1>6, <1>8, SMTT(60)
  <2>2. Taken(u) < Given
    BY <1>2, <1>4, <1>8, SMTT(60)
  <2>3. m < Given /\ m # Given
    BY <1>2, <1>3, <1>4, <2>1, <2>2, SMTT(60)
  <2>4. ASSUME m = 0
        PROVE  Starting < Given
    <3>1. pc = "write" /\ (seen \/ video_index = 0)
      <4>1. pc \in {"blank", "write"}
        BY Zenon DEF WriteBlank, WriteEvent
      <4> QED
        BY <1>4, <1>5, <1>8, <2>4, <4>1, Zenon DEF Started
    <3>2. CASE video_index = 0
      BY <1>2, <1>4, <1>8, <3>2 DEF Starting
    <3>3. CASE video_index # 0
      <4>1. Starting \in 1..pos /\ media.packets[Starting].stream = video_index
        BY <3>1, <3>3, Zenon DEF VideoSeen
      <4>2. pos \in 0..Len(media.packets)
        BY Zenon DEF Place, Shape
      <4>3. Given = IF cur.flush THEN last ELSE pos
        BY <3>1, Zenon DEF Given
      <4>4. CASE cur.flush
        BY <1>2, <4>1, <4>2, <4>3, <4>4, SMTT(60)
      <4>5. CASE ~cur.flush
        <5>1. Holds(ti, pos) /\ ti \in DOMAIN tracks
          BY <3>1, <4>5, ZenonT(60) DEF HandDue, Place, InHand
        <5>2. pos \in 1..Len(media.packets)
          BY <1>2, <4>1, <4>2, SMTT(60)
        <5>3. Starting # pos
          BY <1>2, <3>3, <4>1, <5>1, <5>2, TracksApart, ZenonT(60) DEF Holds
        <5> QED
          BY <4>1, <4>2, <4>3, <4>5, <5>3, SMTT(60)
      <4> QED
        BY <4>4, <4>5, Zenon
    <3> QED
      BY <3>2, <3>3, Zenon
  <2> QED
    BY <1>8, <2>3, <2>4, Zenon DEF m
<1> QED
  BY <1>7, <1>8, Zenon

\* A written packet keeps the order of the input.
LEMMA OrderSteps ==
  ASSUME Place, CacheInv, TimesInv, StreamInv, [Next]_vars
  PROVE  InOrder'
<1>0. Starting' = Starting
  BY InputFixed, StartingKept, Zenon
<1>1. CASE UNCHANGED written
  BY <1>0, <1>1, ZenonT(60) DEF StreamInv, InOrder
<1>2. CASE WriteBlank \/ WriteEvent
  <2>1. VideoSeen /\ HandDue /\ InOrder
    BY Zenon DEF StreamInv
  <2>2. CASE \E w : written' = Append(written, w) /\ w.track = ti /\ w.of = Given
    <3>1. PICK w : written' = Append(written, w) /\ w.track = ti /\ w.of = Given
      BY <2>2, Zenon
    <3>2. /\ Len(written) \in Nat
          /\ DOMAIN written = 1..Len(written) /\ DOMAIN written' = 1..(Len(written) + 1)
          /\ \A i \in DOMAIN written : written'[i] = written[i]
          /\ written'[Len(written) + 1] = w
      BY <3>1, Appended, ZenonT(60) DEF TimesInv
    <3>3. \A t \in DOMAIN tracks : TrackTold(t)
      BY <1>2, <2>1, WriteMoves, SMTT(60) DEF StreamInv
    <3>4. \A i \in DOMAIN written : written[i].track = ti =>
            /\ written[i].of # Given
            /\ IF Given = 0 THEN written[i].of < Starting
               ELSE /\ written[i].of < Given
                    /\ written[i].of = 0 => Starting < Given
      BY <1>2, <2>1, <3>3, GivenLater, SMTT(60)
    <3>5. ASSUME NEW i \in DOMAIN written', NEW j \in DOMAIN written', i < j,
                 written'[i].track = written'[j].track
          PROVE  /\ written'[i].of # written'[j].of
                 /\ IF written'[j].of = 0 THEN written'[i].of < Starting
                    ELSE /\ written'[i].of < written'[j].of
                         /\ written'[i].of = 0 => Starting < written'[j].of
      <4>1. i \in DOMAIN written /\ (j \in DOMAIN written \/ j = Len(written) + 1)
        BY <3>2, <3>5, SMTT(60)
      <4>2. CASE j \in DOMAIN written
        BY <2>1, <3>2, <3>5, <4>1, <4>2, ZenonT(60) DEF InOrder
      <4>3. CASE j = Len(written) + 1
        BY <3>1, <3>2, <3>4, <3>5, <4>1, <4>3, ZenonT(60)
      <4> QED
        BY <4>1, <4>2, <4>3, Zenon
    <3> QED
      BY <1>0, <3>5, ZenonT(60) DEF InOrder
  <2> QED
    BY <1>1, <1>2, <2>1, <2>2, WriteOutcome, Zenon
<1> QED
  BY <1>1, <1>2, FileKept, Zenon

\* A track is told what is written for it.
LEMMA ToldWritten ==
  ASSUME Place, CacheInv, TimesInv, StreamInv, [Next]_vars, WriteBlank \/ WriteEvent,
         NEW t \in DOMAIN tracks'
  PROVE  TrackTold(t)'
<1>1. VideoSeen /\ HandDue /\ Listed
  BY Zenon DEF StreamInv, TimesInv
<1>2. /\ Shape /\ ti \in 1..Len(tracks) /\ tracks \in Seq(Track) /\ UNCHANGED media
      /\ Given \in 0..(Len(media.packets) + 1) /\ (Given = 0 <=> pc = "blank") /\ Live
  BY <1>1, WriteMoves, Zenon DEF Shape
<1>3. /\ DOMAIN tracks' = DOMAIN tracks /\ t \in DOMAIN tracks /\ t \in 1..Len(tracks)
      /\ tracks'[t].stream = tracks[t].stream
      /\ faults' = 0 => faults = 0
  BY <1>1, <1>2, WriteOutcome, SMTT(60)
<1>4. TrackTold(t) /\ \A n : Holds(t, n)' <=> Holds(t, n)
  BY <1>2, <1>3, HoldsKept, Zenon DEF StreamInv
<1>5. PICK wrote \in BOOLEAN :
        /\ \A n : Has(t, n)' <=> Has(t, n) \/ (wrote /\ t = ti /\ n = Given)
        /\ faults' = 0 => wrote
  <2>1. CASE UNCHANGED written /\ faults' # 0
    <3>1. \A n : Has(t, n)' <=> Has(t, n)
      BY <2>1, Zenon DEF Has
    <3> QED
      BY <2>1, <3>1, ZenonT(60)
  <2>2. CASE \E w : written' = Append(written, w) /\ w.track = ti /\ w.of = Given
    <3>1. \A n : Has(t, n)' <=> Has(t, n) \/ (t = ti /\ n = Given)
      BY <1>1, <2>2, HasAppended, Zenon
    <3> QED
      BY <3>1, ZenonT(60)
  <2> QED
    BY <1>1, <2>1, <2>2, WriteOutcome, ZenonT(60)
<1>6. CASE t # ti
  <2>1. \A n : Has(t, n)' <=> Has(t, n)
    BY <1>5, <1>6, SMTT(60)
  <2>2. (Started(t)' <=> Started(t)) /\ Taken(t)' = Taken(t) /\ (LateTaken(t)' <=> LateTaken(t))
    BY <1>1, <1>3, <1>6, WriteMoves
  <2> QED
    BY <1>2, <1>3, <1>4, <2>1, <2>2, ToldAgain, ZenonT(60)
<1>7. CASE t = ti
  <2>1. PICK g : g = Given
    BY Zenon
  <2>2. \A m : Has(t, m)' <=> Has(t, m) \/ (wrote /\ m = g)
    BY <1>5, <1>7, <2>1, Zenon
  <2>3. g # 0 => Holds(t, g)
    <3>1. g # 0 => pc = "write"
      BY <1>2, <2>1, Zenon DEF WriteBlank, WriteEvent
    <3> QED
      BY <1>1, <1>7, <2>1, <3>1, SMTT(60) DEF HandDue, Given
  <2>4. /\ Taken(t) \in Nat
        /\ IF g = 0 THEN Started(t)' ELSE Started(t)' <=> Started(t)
        /\ IF g \in 1..Len(media.packets) THEN Taken(t) = g - 1 /\ Taken(t)' = g ELSE Taken(t)' = Taken(t)
        /\ IF g = Len(media.packets) + 1 THEN LateTaken(t)' ELSE LateTaken(t)' <=> LateTaken(t)
    BY <1>1, <1>3, <1>7, <2>1, WriteMoves, ZenonT(60)
  <2> QED
    BY <1>2, <1>3, <1>4, <1>5, <2>1, <2>2, <2>3, <2>4, ToldNext, SMTT(60)
<1> QED
  BY <1>6, <1>7, Zenon

\* A step that gives no track anything.
LEMMA ToldMoved ==
  ASSUME Place, StreamInv, [Next]_vars, Live, UNCHANGED <<tracks, written>>,
         \A t \in DOMAIN tracks : /\ Started(t)' <=> Started(t)
                                  /\ Taken(t)' = Taken(t)
                                  /\ LateTaken(t)' <=> LateTaken(t)
  PROVE  \A t \in DOMAIN tracks' : TrackTold(t)'
<1>1. UNCHANGED media /\ (faults' = 0 => faults = 0)
  BY InputFixed, FaultsGrow, SMTT(60) DEF Place, Shape
<1>2. \A t, n : (Holds(t, n)' <=> Holds(t, n)) /\ (Has(t, n)' <=> Has(t, n))
  BY <1>1, ZenonT(60) DEF Holds, Has
<1>3. \A t \in DOMAIN tracks : TrackTold(t)
  BY Zenon DEF StreamInv
<1> QED
  BY <1>1, <1>2, <1>3, ToldAgain, SMTT(60)

\* The streams start with no track told anything.
LEMMA ToldStart ==
  ASSUME Place, TimesInv, StreamInv, [Next]_vars, StartOutput
  PROVE  \A t \in DOMAIN tracks' : TrackTold(t)'
<1>1. /\ UNCHANGED <<media, tracks, written, seen, pos>> /\ ti' = 1
      /\ pc' = (IF video_index = 0 THEN "blank" ELSE "packet")
  BY InputFixed, Zenon DEF StartOutput
<1>2. pc \in Early /\ pos = 0 /\ written = <<>> /\ ~seen
  BY Zenon DEF StartOutput, Early, Place, PacketRead, TimesInv, StreamInv, VideoSeen
<1>3. video_index' = video_index
  BY <1>1 DEF video_index
<1>4. tracks \in Seq(Track)
  BY Zenon DEF Place, Shape
<1>5. SUFFICES ASSUME NEW t \in DOMAIN tracks
               PROVE  TrackTold(t)'
  BY <1>1, Zenon
<1>6. \A n : ~Has(t, n)'
  BY <1>1, <1>2, SMTT(60) DEF Has
<1>7. ~Started(t)'
  <2>1. ~(t < 1)
    BY <1>4
  <2> QED
    BY <1>1, <1>2, <1>3, <2>1, SMTT(60) DEF Started
<1>8. Taken(t)' = 0
  BY <1>1, <1>2 DEF Taken
<1>9. ~LateTaken(t)'
  BY <1>1, Zenon DEF LateTaken, Flushing
<1>10. 1..0 = {}
  OBVIOUS
<1> QED
  BY <1>6, <1>7, <1>8, <1>9, <1>10, SMTT(60) DEF TrackTold

\* A track whose decoder gives nothing is owed nothing.
LEMMA ToldNextTrack ==
  ASSUME Place, StreamInv, [Next]_vars, NextTrack
  PROVE  \A t \in DOMAIN tracks' : TrackTold(t)'
<1>1. /\ UNCHANGED <<pc, media, tracks, written, seen, pos, cur>> /\ ti' = ti + 1
      /\ pc \in {"convert", "flush"} /\ ti <= Len(tracks) /\ Decoded = Nothing
  BY InputFixed, Zenon DEF NextTrack
<1>2. /\ Shape /\ Len(media.packets) \in Nat /\ pos \in 0..Len(media.packets) /\ ti \in Nat \ {0}
      /\ tracks \in Seq(Track) /\ (pc = "convert" => pos > 0)
  BY MediaTyped, Zenon DEF Place, Shape, IsMedia, PacketRead
<1>3. Live /\ video_index' = video_index /\ (faults' = 0 => faults = 0)
  BY <1>1, FaultsGrow, SMTT(60) DEF Live, Busy, video_index, Place, Shape
<1>4. \A t, n : (Holds(t, n)' <=> Holds(t, n)) /\ (Has(t, n)' <=> Has(t, n))
  BY <1>1, Zenon DEF Holds, Has
<1>5. SUFFICES ASSUME NEW t \in DOMAIN tracks
               PROVE  TrackTold(t)'
  BY <1>1, Zenon
<1>6. TrackTold(t) /\ t \in 1..Len(tracks)
  BY <1>2, <1>3, SMTT(60) DEF StreamInv
<1>7. Started(t)' <=> Started(t)
  BY <1>1, <1>3, SMTT(60) DEF Started
<1>8. /\ Taken(t) = IF pc = "convert" /\ ~(t < ti) THEN pos - 1 ELSE pos
      /\ Taken(t)' = IF pc = "convert" /\ ~(t < ti + 1) THEN pos - 1 ELSE pos
  BY <1>1, Zenon DEF Taken
<1>9. (LateTaken(t) <=> pc = "flush" /\ t < ti) /\ (LateTaken(t)' <=> pc = "flush" /\ t < ti + 1)
  BY <1>1, Zenon DEF LateTaken, Flushing
<1>10. CASE t # ti
  <2>1. t < ti <=> t < ti + 1
    BY <1>2, <1>6, <1>10, SMTT(60)
  <2> QED
    BY <1>1, <1>3, <1>4, <1>6, <1>7, <1>8, <1>9, <2>1, ToldAgain, SMTT(60)
<1>11. CASE t = ti
  <2>1. PICK g : g = IF pc = "flush" THEN Len(media.packets) + 1 ELSE pos
    BY Zenon
  <2>2. g \in 1..(Len(media.packets) + 1) /\ (g = Len(media.packets) + 1 <=> pc = "flush") /\ ~Holds(t, g)
    BY <1>1, <1>11, <2>1, DecodedHolds, SMTT(60)
  <2>3. ~(t < ti) /\ t < ti + 1
    BY <1>2, <1>11, SMTT(60)
  <2>4. /\ Taken(t) \in Nat
        /\ IF g \in 1..Len(media.packets) THEN Taken(t) = g - 1 /\ Taken(t)' = g ELSE Taken(t)' = Taken(t)
    BY <1>1, <1>2, <1>8, <2>1, <2>2, <2>3, SMTT(60)
  <2>5. IF g = Len(media.packets) + 1 THEN LateTaken(t)' ELSE LateTaken(t)' <=> LateTaken(t)
    BY <1>9, <2>2, <2>3, SMTT(60)
  <2>6. g # 0 /\ g \in 0..(Len(media.packets) + 1)
    BY <1>2, <2>2
  <2>7. PICK wrote \in BOOLEAN : ~wrote
    BY ZenonT(60)
  <2>8. /\ \A m : Has(t, m)' <=> Has(t, m) \/ (wrote /\ m = g)
        /\ wrote /\ g # 0 => Holds(t, g)
        /\ faults' = 0 /\ (g = 0 \/ Holds(t, g)) => wrote
    BY <1>4, <2>2, <2>6, <2>7
  <2>9. IF g = 0 THEN Started(t)' ELSE Started(t)' <=> Started(t)
    BY <1>7, <2>6, Zenon
  <2> QED
    BY <1>1, <1>2, <1>3, <1>4, <1>6, <2>4, <2>5, <2>6, <2>8, <2>9, ToldNext, SMTT(60)
<1> QED
  BY <1>10, <1>11, Zenon

\* The steps that write nothing tell no track anything it has not got.
LEMMA ToldQuiet ==
  ASSUME Place, TimesInv, StreamInv, [Next]_vars, ~WriteBlank, ~WriteEvent, Live'
  PROVE  \A t \in DOMAIN tracks' : TrackTold(t)'
<1>1. /\ UNCHANGED <<media, written>> /\ Len(media.packets) \in Nat /\ pos \in 0..Len(media.packets)
      /\ tracks \in Seq(Track) /\ ti \in Nat \ {0} /\ (pc = "convert" => pos > 0)
  BY InputFixed, FileKept, MediaTyped, ZenonT(60) DEF Place, Shape, IsMedia, PacketRead
<1>2. video_index' = video_index
  BY <1>1 DEF video_index
<1>3. pc' \in Busy \/ (pc' = "cleanup" /\ ret' = 0)
  BY Zenon DEF Live
<1>4. \A h : ~Fail(-1, h)
  BY <1>3, SMTT(60) DEF Fail, Busy
<1>5. ~Crash
  BY <1>3, Zenon DEF Crash, Busy
<1>6. CASE ParseOptions \/ OptionsFail \/ OpenInput \/ PickStream \/ AddTrack \/ Cleanup
  <2>1. pc' \in {"start", "open", "pick", "tracks", "done"}
    BY <1>6, ZenonT(60) DEF ParseOptions, OptionsFail, OpenInput, PickStream, AddTrack, Cleanup
  <2> QED
    BY <1>3, <2>1, Zenon DEF Busy
<1>7. CASE OpenFails \/ FindEncoder \/ TrackFails \/ OutputFails
  <2>1. pc' = "tracks"
    BY <1>4, <1>5, <1>7, ZenonT(60) DEF OpenFails, FindEncoder, TrackFails, OutputFails
  <2> QED
    BY <1>3, <2>1, Zenon DEF Busy
<1>8. CASE ReadPacket
  <2> DEFINE starts == StartsStreams(media.packets[pos + 1])
  <2>1. /\ pc = "read" /\ UNCHANGED <<tracks, written, cur>> /\ pos' = pos + 1 /\ ti' = 1
        /\ pc' = (IF starts THEN "blank" ELSE "convert") /\ seen' = (seen \/ starts)
    BY <1>8, Zenon DEF ReadPacket
  <2>2. starts => ~seen /\ video_index # 0
    <3>1. VideoSeen'
      BY VideoSteps, Zenon DEF StreamInv
    <3> QED
      BY <1>2, <2>1, <3>1, ZenonT(60) DEF VideoSeen, StartsStreams
  <2> HIDE DEF starts
  <2>3. ASSUME NEW t \in DOMAIN tracks
        PROVE  /\ Started(t)' <=> Started(t)
               /\ Taken(t)' = Taken(t)
               /\ LateTaken(t)' <=> LateTaken(t)
    <3>1. ~(t < 1)
      BY <1>1, SMTT(60)
    <3>2. Started(t)' <=> Started(t)
      BY <1>2, <2>1, <2>2, <3>1, SMTT(60) DEF Started, StreamInv, VideoSeen
    <3>3. Taken(t)' = Taken(t)
      BY <1>1, <2>1, <3>1, SMTT(60) DEF Taken
    <3>4. LateTaken(t)' <=> LateTaken(t)
      BY <2>1, Zenon DEF LateTaken, Flushing
    <3> QED
      BY <3>2, <3>3, <3>4, Zenon
  <2> QED
    BY <2>1, <2>3, ToldMoved, Zenon DEF Live, Busy
<1>9. CASE BlanksDone
  <2>1. /\ pc = "blank" /\ ti > Len(tracks) /\ UNCHANGED <<tracks, written, cur, pos, seen>> /\ ti' = 1
        /\ pc' = (IF pos = 0 THEN "packet" ELSE "convert")
    BY <1>9, Zenon DEF BlanksDone
  <2>2. IF pos = 0 THEN video_index = 0 ELSE seen
    BY <2>1, Zenon DEF StreamInv, VideoSeen
  <2>3. ASSUME NEW t \in DOMAIN tracks
        PROVE  /\ Started(t)' <=> Started(t)
               /\ Taken(t)' = Taken(t)
               /\ LateTaken(t)' <=> LateTaken(t)
    <3>1. ~(t < 1) /\ t < ti
      BY <1>1, <2>1, SMTT(60)
    <3>2. Started(t)' <=> Started(t)
      BY <1>2, <2>1, <2>2, <3>1, SMTT(60) DEF Started
    <3>3. Taken(t)' = Taken(t)
      BY <1>1, <2>1, <3>1, SMTT(60) DEF Taken
    <3>4. LateTaken(t)' <=> LateTaken(t)
      BY <2>1, Zenon DEF LateTaken, Flushing
    <3> QED
      BY <3>2, <3>3, <3>4, Zenon
  <2> QED
    BY <2>1, <2>3, ToldMoved, Zenon DEF Live, Busy
<1>10. CASE AllocPacket \/ EndOfInput \/ PacketDone \/ WriteTrailer
  <2>1. /\ UNCHANGED <<tracks, written, cur, pos, seen>>
        /\ \/ pc = "packet" /\ pc' = "read"
           \/ pc = "read" /\ pc' = "flush" /\ ti' = 1
           \/ pc = "convert" /\ pc' = "read" /\ ti > Len(tracks)
           \/ pc = "flush" /\ pc' = "cleanup" /\ ti > Len(tracks)
    BY <1>5, <1>10, Zenon DEF AllocPacket, EndOfInput, PacketDone, WriteTrailer
  <2>2. ASSUME NEW t \in DOMAIN tracks
        PROVE  /\ Started(t)' <=> Started(t)
               /\ Taken(t)' = Taken(t)
               /\ LateTaken(t)' <=> LateTaken(t)
    <3>1. ~(t < 1) /\ (ti > Len(tracks) => t < ti)
      BY <1>1
    <3>2. Started(t)' <=> Started(t)
      BY <1>2, <2>1, Zenon DEF Started
    <3>3. Taken(t)' = Taken(t)
      BY <1>1, <2>1, <3>1, Zenon DEF Taken
    <3>4. LateTaken(t)' <=> LateTaken(t)
      BY <2>1, <3>1, Zenon DEF LateTaken, Flushing
    <3> QED
      BY <3>2, <3>3, <3>4
  <2> QED
    BY <2>1, <2>2, ToldMoved, SMTT(60) DEF Live, Busy
<1>11. CASE Convert \/ ConvertFails
  <2>1. \E bm, copied : Converted(Decoded, bm, copied)
    BY <1>5, <1>11, ZenonT(60) DEF Convert, ConvertFails
  <2>2. /\ pc' = "write" /\ UNCHANGED <<tracks, written, pos, seen, ti>>
        /\ (pc = "flush" => cur'.flush) /\ (pc # "flush" => ~cur'.flush)
    <3>1. pc' = "write" /\ UNCHANGED <<tracks, written, pos, seen, ti>> /\ cur'.flush = (pc = "flush")
      BY <2>1, SMTT(60) DEF Converted
    <3> QED
      BY <3>1, ZenonT(60)
  <2>3. pc \in {"convert", "flush"}
    BY <1>11, ZenonT(60) DEF Convert, ConvertFails
  <2>4. ASSUME NEW t \in DOMAIN tracks
        PROVE  /\ Started(t)' <=> Started(t)
               /\ Taken(t)' = Taken(t)
               /\ LateTaken(t)' <=> LateTaken(t)
    <3>1. Started(t)' <=> Started(t)
      BY <1>2, <2>2, <2>3, SMTT(60) DEF Started
    <3>2. Taken(t)' = Taken(t)
      BY <1>1, <2>2, <2>3, SMTT(60) DEF Taken
    <3>3. LateTaken(t)' <=> LateTaken(t)
      BY <2>2, <2>3, Zenon DEF LateTaken, Flushing
    <3> QED
      BY <3>1, <3>2, <3>3, Zenon
  <2> QED
    BY <2>2, <2>3, <2>4, ToldMoved, SMTT(60) DEF Live, Busy
<1>12. CASE Signal \/ UNCHANGED vars
  <2>1. UNCHANGED <<pc, tracks, written, pos, seen, ti, cur, ret>>
    BY <1>12, Zenon DEF Signal, vars
  <2>2. \A t \in DOMAIN tracks : /\ Started(t)' <=> Started(t)
                                 /\ Taken(t)' = Taken(t)
                                 /\ LateTaken(t)' <=> LateTaken(t)
    BY <1>2, <2>1, Zenon DEF Started, Taken, LateTaken, Flushing
  <2>3. Live
    BY <1>3, <2>1, Zenon DEF Live
  <2> QED
    BY <2>1, <2>2, <2>3, ToldMoved, SMTT(60)
<1> QED
  BY <1>6, <1>7, <1>8, <1>9, <1>10, <1>11, <1>12, ToldStart, ToldNextTrack,
     ZenonT(60) DEF Next, Steps, Over

\* Every step keeps the events of the tracks.
LEMMA StreamSteps ==
  ASSUME Place, CacheInv, TimesInv, StreamInv, [Next]_vars
  PROVE  StreamInv'
<1>1. VideoSeen' /\ HandDue'
  BY VideoSteps, HandSteps, Zenon DEF StreamInv
<1>2. InOrder'
  BY OrderSteps, Zenon
<1>3. Live' => \A t \in DOMAIN tracks' : TrackTold(t)'
  BY ToldWritten, ToldQuiet, Zenon
<1> QED
  BY <1>1, <1>2, <1>3, Zenon DEF StreamInv

-----------------------------------------------------------------------------
(* Steps: the pictures.                                                    *)

\* Only a packet that is written, a new track or the cleanup changes the tracks.
LEMMA TracksKept ==
  ASSUME [Next]_vars, ~WriteEvent, ~WriteBlank, pc \notin Early
  PROVE  UNCHANGED tracks \/ tracks' = <<>>
<1>1. CASE ParseOptions \/ OptionsFail \/ OpenInput \/ OpenFails \/ PickStream \/ FindEncoder
  BY <1>1, ZenonT(60)
  DEF ParseOptions, OptionsFail, OpenInput, OpenFails, PickStream, FindEncoder, Fail, Crash
<1>2. CASE AddTrack \/ TrackFails \/ StartOutput \/ OutputFails \/ AllocPacket \/ ReadPacket
  BY <1>2, ZenonT(60)
  DEF AddTrack, TrackFails, StartOutput, OutputFails, AllocPacket, ReadPacket, Fail, Crash, Early
<1>3. CASE BlanksDone \/ EndOfInput \/ NextTrack \/ PacketDone
  BY <1>3, ZenonT(60) DEF BlanksDone, EndOfInput, NextTrack, PacketDone
<1>4. CASE Convert \/ ConvertFails
  BY <1>4, ZenonT(60) DEF Convert, ConvertFails, Converted, Crash
<1>5. CASE WriteTrailer \/ Cleanup \/ Signal \/ UNCHANGED vars
  BY <1>5, ZenonT(60) DEF WriteTrailer, Cleanup, Signal, vars
<1> QED
  BY <1>1, <1>2, <1>3, <1>4, <1>5, ZenonT(60) DEF Next, Steps, Over

\* The bitmap in hand shows the picture of the event in hand.
LEMMA HandShows ==
  ASSUME Place, PictureInv, [Next]_vars, pc' = "write"
  PROVE  Blank(cur'.bm) \/ Shows(cur'.bm, cur'.event, cur'.flush)
<1>1. CASE UNCHANGED cur /\ pc = "write"
  BY <1>1, Zenon DEF PictureInv
<1>2. CASE Convert \/ ConvertFails
  <2>1. /\ Decoded # Nothing /\ IsEvent(Decoded)
        /\ cur'.event = Decoded /\ cur'.flush = (pc = "flush")
    BY <1>2, BitmapMade, Zenon
  <2>2. CASE cur'.bm = NoBitmap
    BY <2>2 DEF NoBitmap, Blank
  <2>3. ASSUME NEW scale, NEW k \in Nat, NEW flush \in BOOLEAN, flush => pc = "flush",
               \/ cur'.bm = Bitmap(Decoded, scale, k, flush)
               \/ cur'.bm = [Bitmap(Decoded, scale, k, flush) EXCEPT !.idx = <<>>]
        PROVE  Blank(cur'.bm) \/ Shows(cur'.bm, cur'.event, cur'.flush)
    <3>1. [Bitmap(Decoded, scale, k, flush) EXCEPT !.idx = <<>>].idx = <<>>
      BY Zenon DEF Bitmap
    <3>2. CASE cur'.bm = [Bitmap(Decoded, scale, k, flush) EXCEPT !.idx = <<>>]
      BY <3>1, <3>2, Zenon DEF Blank
    <3>3. CASE cur'.bm = Bitmap(Decoded, scale, k, flush) /\ ~Blank(cur'.bm)
      <4>1. PICK late \in BOOLEAN : late = (pc = "flush")
        BY ZenonT(60)
      <4>2. flush => late
        BY <2>3, <4>1, ZenonT(60)
      <4>3. Shows(Bitmap(Decoded, scale, k, flush), Decoded, late)
        BY <2>1, <3>3, <4>2, BitmapShows, SMTT(60)
      <4> QED
        BY <2>1, <3>3, <4>1, <4>3, ZenonT(60)
    <3> QED
      BY <2>3, <3>2, <3>3
  <2> QED
    BY <1>2, <2>2, <2>3, BitmapMade, ZenonT(60)
<1> QED
  BY <1>1, <1>2, WriteEntered

\* make_subtitle hands the picture on as it is.
LEMMA SubShows ==
  ASSUME NEW b, NEW bm, NEW from, NEW to, NEW failing, NEW sub,
         sub = make_subtitle(b, bm, from, to, failing).sub, sub.made, sub.idx # <<>>
  PROVE  ~Blank(bm) /\ sub.idx = bm.idx /\ sub.palette = bm.palette
<1> DEFINE good == [made |-> TRUE, idx |-> bm.idx, palette |-> bm.palette, x |-> bm.x, y |-> bm.y,
                    dur |-> Duration(from, to)]
<1>1. \/ sub = NoSubtitle
      \/ sub = Cleared(from, to)
      \/ ~Blank(bm) /\ sub = good
  BY Zenon DEF make_subtitle
<1>2. ~NoSubtitle.made /\ Cleared(from, to).idx = <<>>
  BY ZenonT(60) DEF NoSubtitle, Cleared
<1>3. good.idx = bm.idx /\ good.palette = bm.palette
  BY ZenonT(60)
<1> HIDE DEF good
<1> QED
  BY <1>1, <1>2, <1>3, ZenonT(60)

\* What is shown depends on the indices and the palette alone.
LEMMA ShowsToo ==
  ASSUME NEW a, NEW b, a.idx = b.idx, a.palette = b.palette, NEW e, NEW late, Shows(b, e, late)
  PROVE  Shows(a, e, late)
  BY ZenonT(60) DEF Shows

\* The event of a packet stays the same.
LEMMA EventKept ==
  ASSUME UNCHANGED media, NEW w, tracks'[w.track].stream = tracks[w.track].stream
  PROVE  EventOf(w)' = EventOf(w)
  BY Zenon DEF EventOf

\* What is in the file shows what it is of.
LEMMA PictureSteps ==
  ASSUME Place, CacheInv, TimesInv, HandDue, PictureInv, [Next]_vars
  PROVE  PictureInv'
<1> DEFINE Good(w) == w.of # 0 /\ w.sub.idx # <<>> => Shows(w.sub, EventOf(w), w.of > Len(media.packets))
<1>1. UNCHANGED media /\ Len(media.packets) \in Nat
  BY InputFixed, MediaTyped, Zenon DEF Place, IsMedia
<1>2. SUFFICES ASSUME tracks' # <<>>
               PROVE  \A w \in {written'[i] : i \in DOMAIN written'} : Good(w)'
  BY <1>1, HandShows, ZenonT(60) DEF PictureInv
<1>3. tracks # <<>> => \A w \in {written[i] : i \in DOMAIN written} : Good(w)
  BY ZenonT(60) DEF PictureInv
<1>4. CASE written' = <<>>
  BY <1>4, SMTT(60)
<1>5. CASE ~WriteBlank /\ ~WriteEvent /\ written' # <<>>
  <2>1. UNCHANGED written
    BY <1>5, FileKept, SMTT(60)
  <2>2. pc \notin Early
    BY <1>5, <2>1, SMTT(60) DEF TimesInv
  <2>3. UNCHANGED tracks
    BY <1>2, <1>5, <2>2, TracksKept, SMTT(60)
  <2>4. \A w : EventOf(w)' = EventOf(w)
    BY <1>1, <2>3, EventKept, SMTT(60)
  <2> QED
    BY <1>1, <1>2, <1>3, <2>1, <2>3, <2>4, ZenonT(60)
<1>6. CASE WriteBlank \/ WriteEvent
  <2>1. /\ DOMAIN tracks' = DOMAIN tracks
        /\ \A t \in DOMAIN tracks : tracks'[t].stream = tracks[t].stream
    BY <1>6, WriteOutcome, SMTT(60)
  <2>2. tracks \in Seq(Track) /\ ti \in DOMAIN tracks /\ tracks # <<>>
    <3>1. tracks \in Seq(Track) /\ ti \in 1..Len(tracks)
      BY <1>6, WriteCall, SMTT(60) DEF Shape
    <3> QED
      BY <3>1, SMTT(60)
  <2>3. ASSUME NEW w \in {written[i] : i \in DOMAIN written}
        PROVE  Good(w)'
    <3>1. w.track \in DOMAIN tracks
      BY <2>2, Zenon DEF TimesInv, PacketTimed
    <3>2. EventOf(w)' = EventOf(w)
      BY <1>1, <2>1, <3>1, EventKept, SMTT(60)
    <3> QED
      BY <1>1, <1>3, <2>2, <3>2, ZenonT(60)
  <2>4. CASE UNCHANGED written
    BY <2>3, <2>4
  <2>5. ASSUME NEW w, written' = Append(written, w), w.track = ti, w.of = Given, w.sub.made,
               pc = "write" => SubInHand(w.sub)
        PROVE  \A v \in {written'[i] : i \in DOMAIN written'} : Good(v)'
    <3>1. \A v \in {written'[i] : i \in DOMAIN written'} : v = w \/ v \in {written[i] : i \in DOMAIN written}
      <4>1. /\ Len(written) \in Nat
            /\ DOMAIN written = 1..Len(written) /\ DOMAIN written' = 1..(Len(written) + 1)
            /\ \A i \in DOMAIN written : written'[i] = written[i]
            /\ written'[Len(written) + 1] = w
        BY <2>5, Appended, SMTT(60) DEF TimesInv
      <4>2. \A i \in DOMAIN written' : i \in DOMAIN written \/ i = Len(written) + 1
        BY <4>1
      <4> QED
        BY <4>1, <4>2, ZenonT(60)
    <3>2. ASSUME w.of # 0, w.sub.idx # <<>>
          PROVE  Shows(w.sub, EventOf(w)', w.of > Len(media.packets))
      <4>1. pc = "write"
        BY <1>6, <2>5, <3>2, ZenonT(60) DEF WriteBlank, WriteEvent, Given
      <4>2. /\ cur.flush \in BOOLEAN /\ pos \in 0..Len(media.packets)
            /\ cur.event = IF cur.flush THEN media.flush[tracks[ti].stream] ELSE media.packets[pos].event
        BY <4>1, ZenonT(60) DEF Place, InHand, Shape
      <4>3. w.of = IF cur.flush THEN Len(media.packets) + 1 ELSE pos
        BY <2>5, <4>1, Zenon DEF Given
      <4>4. (w.of > Len(media.packets)) = cur.flush
        BY <1>1, <4>2, <4>3, SMTT(60)
      <4>5. EventOf(w)' = cur.event
        <5>1. EventOf(w) = cur.event
          BY <2>5, <3>2, <4>2, <4>3, <4>4, SMTT(60) DEF EventOf
        <5>2. EventOf(w)' = EventOf(w)
          BY <1>1, <2>1, <2>2, <2>5, EventKept, SMTT(60)
        <5> QED
          BY <5>1, <5>2, SMTT(60)
      <4>6. ~Blank(cur.bm) /\ w.sub.idx = cur.bm.idx /\ w.sub.palette = cur.bm.palette
        BY <2>5, <3>2, <4>1, SubShows DEF SubInHand
      <4>7. Shows(cur.bm, cur.event, cur.flush)
        BY <4>1, <4>6 DEF PictureInv
      <4>8. Shows(w.sub, cur.event, cur.flush)
        BY <4>6, <4>7, ShowsToo, ZenonT(60)
      <4> QED
        BY <4>4, <4>5, <4>8, ZenonT(60)
    <3>3. Good(w)'
      BY <1>1, <3>2, ZenonT(60)
    <3> HIDE DEF Good
    <3> QED
      BY <2>3, <3>1, <3>3, ZenonT(60)
  <2> QED
    BY <1>6, <2>4, <2>5, WriteOutcome, ZenonT(60)
<1> QED
  BY <1>4, <1>5, <1>6, ZenonT(60)

-----------------------------------------------------------------------------
(* The theorems.                                                           *)

\* In every run of main each track has got what the place of main tells.
THEOREM ConverterStream == Spec => []StreamInv
<1>1. ASSUME Init
      PROVE  StreamInv
  <2>1. /\ pc = "start" /\ seen = FALSE /\ written = <<>> /\ pos = 0
    BY <1>1, Zenon DEF Init
  <2>2. DOMAIN <<>> = {} /\ 1..0 = {}
    OBVIOUS
  <2>3. HandDue /\ ~Live
    BY <2>1, ZenonT(60) DEF HandDue, Live, Busy
  <2>5. VideoSeen
    <3>1. ~seen /\ seen \in BOOLEAN /\ pc # "blank" /\ \A p \in 1..pos : ~Begins(p)
      BY <2>1, <2>2
    <3> QED
      BY <3>1, ZenonT(60) DEF VideoSeen
  <2>4. InOrder
    BY <2>1, <2>2 DEF InOrder
  <2> QED
    BY <2>3, <2>4, <2>5, ZenonT(60) DEF StreamInv
<1>2. ASSUME ConverterInv, StreamInv, [Next]_vars
      PROVE  StreamInv'
  BY <1>2, StreamSteps, Zenon DEF ConverterInv
<1> QED
  BY <1>1, <1>2, ConverterInvariant, PTL DEF Spec

\* No track has two blanks, a blank in a place other than where the video begins, or an
\* event twice or out of order, and when no call fails every event main has read is in
\* the file, and in the end also what the decoders held back.
THEOREM ConverterStreamComplete == Spec => []StreamComplete
<1>1. ASSUME ConverterInv, StreamInv
      PROVE  StreamComplete
  <2>1. /\ Len(media.packets) \in Nat /\ pos \in 0..Len(media.packets) /\ tracks \in Seq(Track)
        /\ \A i \in DOMAIN written : PacketTimed(written[i])
    BY <1>1, MediaTyped, SMTT(60) DEF ConverterInv, Place, Shape, IsMedia, TimesInv
  <2>2. ASSUME faults = 0, pc = "read" \/ (pc = "cleanup" /\ ret = 0), NEW t \in DOMAIN tracks
        PROVE  LET of == {written[i].of : i \in {n \in DOMAIN written : written[n].track = t}}
               IN  /\ seen \/ video_index = 0 => 0 \in of
                   /\ of \ {0} = Due(t)
    <3> DEFINE of == {written[i].of : i \in {n \in DOMAIN written : written[n].track = t}}
               last == Len(media.packets) + 1
    <3>1. TrackTold(t)
      BY <1>1, <2>2, Zenon DEF StreamInv, Live, Busy
    <3>2. \A m : m \in of <=> Has(t, m)
      BY ZenonT(60) DEF Has
    <3>3. /\ Started(t) <=> seen \/ video_index = 0
          /\ Taken(t) = pos
          /\ LateTaken(t) <=> pc = "cleanup"
      BY <2>2, Zenon DEF Started, Taken, LateTaken, Flushing
    <3>4. seen \/ video_index = 0 => 0 \in of
      BY <2>2, <3>1, <3>2, <3>3, ZenonT(60) DEF TrackTold
    <3>5. \A m \in 1..pos : m \in 1..Len(media.packets) /\ m # 0 /\ m \in 1..last
      BY <2>1, SMTT(60)
    <3>6. \A m \in 1..pos : m \in Due(t) <=> Holds(t, m)
      <4>1. \A m \in 1..pos : m # last
        BY <2>1, SMTT(60)
      <4> QED
        BY <3>5, <4>1, SMTT(60) DEF Due, Holds
    <3>7. last \in Due(t) <=> pc = "cleanup" /\ Holds(t, last)
      <4>1. last \notin 1..pos /\ last \notin 1..Len(media.packets)
        BY <2>1, SMTT(60)
      <4> QED
        BY <4>1, SMTT(60) DEF Due, Holds
    <3>8. \A m \in Due(t) : m \in 1..pos \/ m = last
      BY Zenon DEF Due
    <3>9. last # 0 /\ last \in 1..last
      BY <2>1, SMTT(60)
    <3>10. ASSUME NEW m \in of, m # 0
           PROVE  m \in Due(t)
      <4>1. Has(t, m)
        BY <3>2, <3>10, SMTT(60)
      <4>2. m \in 1..last
        <5>1. PICK i \in DOMAIN written : written[i].of = m
          BY <3>10, Zenon
        <5>2. m \in 0..last
          BY <2>1, <5>1, ZenonT(60) DEF PacketTimed
        <5> QED
          BY <2>1, <3>10, <5>2, SMTT(60)
      <4>3. Holds(t, m) /\ (m <= pos \/ (m = last /\ pc = "cleanup"))
        BY <3>1, <3>3, <4>1, <4>2, SMTT(60) DEF TrackTold
      <4>4. m \in 1..pos \/ (m = last /\ pc = "cleanup")
        BY <2>1, <4>2, <4>3, SMTT(60)
      <4> QED
        BY <3>6, <3>7, <4>3, <4>4, SMTT(60)
    <3>11. ASSUME NEW m \in Due(t)
           PROVE  m \in of /\ m # 0
      <4>1. CASE m \in 1..pos
        BY <2>2, <3>1, <3>2, <3>3, <3>5, <3>6, <3>11, <4>1, ZenonT(60) DEF TrackTold
      <4>2. CASE m = last
        BY <2>2, <3>1, <3>2, <3>3, <3>7, <3>9, <3>11, <4>2, ZenonT(60) DEF TrackTold
      <4> QED
        BY <3>8, <4>1, <4>2, SMTT(60)
    <3> HIDE DEF of
    <3>12. of \ {0} = Due(t)
      BY <3>10, <3>11, Zenon
    <3> QED
      BY <3>4, <3>12, ZenonT(60) DEF of
  <2>3. InOrder
    BY <1>1, Zenon DEF StreamInv
  <2> QED
    BY <2>2, <2>3, ZenonT(60) DEF StreamComplete, InOrder
<1> QED
  BY <1>1, ConverterInvariant, ConverterStream, PTL

\* Each pixel in the file has the word of the pixel of the source it was scaled from, for
\* every picture that has no more colours than the palette.
THEOREM ConverterPictureExact == Spec => []PictureExact
<1>1. ASSUME Init
      PROVE  PictureInv
  BY <1>1, ZenonT(60) DEF Init, PictureInv
<1>2. ASSUME ConverterInv, StreamInv, PictureInv, [Next]_vars
      PROVE  PictureInv'
  BY <1>2, PictureSteps DEF ConverterInv, StreamInv
<1>3. ASSUME PictureInv
      PROVE  PictureExact
  <2>1. ASSUME NEW i \in DOMAIN written, tracks # <<>>, written[i].of # 0, written[i].sub.idx # <<>>
        PROVE  Shows(written[i].sub, EventOf(written[i]), written[i].of > Len(media.packets))
    BY <1>3, <2>1, ZenonT(60) DEF PictureInv
  <2> QED
    BY <2>1, ZenonT(60) DEF PictureExact, Shows
<1> QED
  BY <1>1, <1>2, <1>3, ConverterInvariant, ConverterStream, PTL DEF Spec

================================================================================
