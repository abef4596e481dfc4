---------------------------- MODULE Converter_proofs ----------------------------
(***************************************************************************)
(* Proofs about src/dvdbr2dvbsub.c, for every file it may read, every      *)
(* command line, and every number of failing calls: the buffer cache of    *)
(* make_subtitle, the packets written and their PTS, and what main returns *)
(* and leaves behind.                                                      *)
(*                                                                         *)
(* The inductive invariant has six parts.  Place ties the event in hand to *)
(* the track and the packet it came from.  CacheInv says that a bucket     *)
(* holds at most the one buffer of its size, and that the palette in hand  *)
(* is not refused, which is why no palette is ever given back.  HeldInv    *)
(* and ExitInv follow what main holds and how it ends, BenchInv its        *)
(* counters.  TimesInv relates each packet of the file to the last PTS of  *)
(* its track and to the time of its event.                                 *)
(***************************************************************************)
EXTENDS Converter_operators

-----------------------------------------------------------------------------
(* Types, and where main is.                                               *)

Streams == 1..Len(media.streams)

Subtitles == {i \in Streams : media.streams[i].type = "sub"}

Track == [stream : Subtitles, last : Int \cup {NoPts}, lang : {Language(i) : i \in Subtitles}]

\* The steps before a packet can be written, and the steps that use the tracks.
Early == {"start", "open", "pick", "tracks"}

Busy  == {"blank", "packet", "read", "convert", "write", "flush"}

Shape ==
  /\ opts \in CommandLines /\ media \in Media
  /\ pc \in Early \cup Busy \cup {"cleanup", "done", "crashed"}
  /\ src_fps \in Int
  /\ picked \in Seq(Subtitles) /\ tracks \in Seq(Track)
  /\ pos \in 0..Len(media.packets) /\ ti \in Nat \ {0}
  /\ faults \in Nat

\* The event in hand is the one track ti has got.
InHand ==
  pc = "write" =>
    /\ ti \in DOMAIN tracks
    /\ cur.flush \in BOOLEAN
    /\ cur.event # Nothing
    /\ cur.event = IF cur.flush THEN media.flush[tracks[ti].stream] ELSE media.packets[pos].event
    /\ ~cur.flush => pos > 0

\* The packet that is looked at was read; the one that starts the streams has a PTS.
PacketRead ==
  /\ pc \in Early => pos = 0
  /\ pc = "convert" => pos > 0
  /\ pc = "blank" /\ pos > 0 => media.packets[pos].pts # NoPts

-----------------------------------------------------------------------------
(* The buffers of make_subtitle.                                           *)

CacheInv ==
  /\ Cached(buckets)
  /\ pc = "write" => PaletteFits(cur.bm)

-----------------------------------------------------------------------------
(* What main holds and returns.                                            *)

Owned == {<<t, p>> : t \in DOMAIN tracks, p \in {"lang", "dec_ctx", "codec_ctx"}}

HeldInv ==
  /\ held \subseteq Owned \cup MainHolds({"lang_list", "srt_list", "in_fmt", "out_fmt", "pb",
                                         "pkt", "idxbuf", "palette", "last_png"})
  /\ pc # "write" => held \cap MainHolds({"idxbuf", "palette"}) = {}
  /\ pc = "start" => held = {}
  /\ pc = "done" /\ opts.ends = "" /\ ret # 1 => held \subseteq MainHolds({"last_png"})

ExitInv ==
  /\ out \in {"none", "open", "complete", "damaged"}
  /\ out \in {"complete", "damaged"} => pc \in {"cleanup", "done"} /\ ret = 0
  /\ pc \in {"cleanup", "done"} /\ opts.ends = "" /\ out \notin {"complete", "damaged"} => ret # 0
  /\ pc \notin {"start", "done"} => opts.ends = ""
  /\ pc = "crashed" =>
       \/ ~media.opens \/ faults > 0
       \/ /\ codec_width >= Uhd
          /\ \E s \in DOMAIN media.flush :
               media.flush[s].kind \notin {"none", "clear"} /\ media.flush[s].w = 0

BenchInv ==
  /\ bench \in [encoded : 0..IntMax, muxed : 0..IntMax]
  /\ opts.bench => /\ bench.muxed = (IF Len(written) > IntMax THEN IntMax ELSE Len(written))
                   /\ bench.encoded >= bench.muxed

-----------------------------------------------------------------------------
(* Times.                                                                  *)

\* off is time x at the new frame rate, to the nearest tick.
Nearest(off, x) ==
  IF opts.dst > 0 /\ src_fps > 0
  THEN 2 * (off * opts.dst - x * src_fps) \in (-opts.dst)..opts.dst
  ELSE off = x

\* A written packet: its PTS is not early, and at most the last of its track; the
\* time asked for is that of its event.
PacketTimed(w) ==
  /\ w.pts \in Int /\ w.asked \in Int /\ w.pts >= w.asked
  /\ w.of \in 0..(Len(media.packets) + 1)
  /\ tracks # <<>> =>
       /\ w.track \in DOMAIN tracks
       /\ tracks[w.track].last \in Int /\ w.pts <= tracks[w.track].last
       /\ w.of # 0 /\ OwnTime(w) # NoPts => Nearest(w.asked - opts.delay * 90, OwnTime(w))

\* The packets in the file are a sequence.
Listed == written \in Seq({written[i] : i \in DOMAIN written})

TimesInv ==
  /\ Listed
  /\ pc \in Early => written = <<>>
  /\ \A w \in {written[i] : i \in DOMAIN written} : PacketTimed(w)
  /\ \A i, j \in DOMAIN written :
       j < i /\ written[j].track = written[i].track => written[j].pts < written[i].pts
  /\ faults = 0 =>
       /\ \A i \in DOMAIN written : written[i].pts > written[i].asked =>
            \E j \in 1..(i - 1) : /\ written[j].track = written[i].track
                                  /\ written[j].pts + 90 = written[i].pts
       /\ \A t \in DOMAIN tracks : tracks[t].last # NoPts =>
            \E i \in DOMAIN written : written[i].track = t /\ written[i].pts = tracks[t].last

-----------------------------------------------------------------------------
(* Steps: types and what is in hand.                                       *)

Place == Shape /\ InHand /\ PacketRead

\* The options and the file stay what they are.
LEMMA InputFixed ==
  ASSUME [Next]_vars
  PROVE  UNCHANGED <<opts, media>>
<1>1. CASE ParseOptions \/ OptionsFail \/ OpenInput \/ OpenFails \/ PickStream \/ FindEncoder
  BY <1>1, ZenonT(60)
  DEF ParseOptions, OptionsFail, OpenInput, OpenFails, PickStream, FindEncoder, Fail, Crash
<1>2. CASE AddTrack \/ TrackFails \/ StartOutput \/ OutputFails \/ AllocPacket \/ ReadPacket
  BY <1>2, ZenonT(60)
  DEF AddTrack, TrackFails, StartOutput, OutputFails, AllocPacket, ReadPacket, Fail, Crash
<1>3. CASE WriteBlank \/ BlanksDone \/ EndOfInput \/ NextTrack \/ WriteEvent \/ PacketDone
  BY <1>3, ZenonT(60) DEF WriteBlank, BlanksDone, EndOfInput, NextTrack, WriteEvent, PacketDone
<1>4. CASE Convert \/ ConvertFails
  BY <1>4, ZenonT(60) DEF Convert, ConvertFails, Converted, Crash
<1>5. CASE WriteTrailer \/ Cleanup \/ Signal \/ UNCHANGED vars
  BY <1>5, ZenonT(60) DEF WriteTrailer, Cleanup, Signal, vars
<1> QED
  BY <1>1, <1>2, <1>3, <1>4, <1>5, ZenonT(60) DEF Next, Steps, Over

\* The file is one that can be read.
LEMMA MediaTyped ==
  ASSUME Shape
  PROVE  /\ IsMedia(media)
         /\ opts.delay \in Int /\ opts.src \in Int /\ opts.dst \in Int
  BY ConverterAssumption, Zenon DEF Shape

\* What track ti gets from its decoder.
LEMMA DecodedEvent ==
  ASSUME Place, pc \in {"convert", "flush"}, ti <= Len(tracks)
  PROVE  /\ ti \in DOMAIN tracks /\ ti \in 1..Len(tracks)
         /\ tracks[ti] \in Track /\ tracks[ti].stream \in DOMAIN media.flush
         /\ pc = "flush" => Decoded = media.flush[tracks[ti].stream]
         /\ pc = "convert" /\ Decoded # Nothing => Decoded = media.packets[pos].event
         /\ IsEvent(Decoded)
<1>1. /\ tracks \in Seq(Track) /\ ti \in Nat \ {0} /\ pos \in 0..Len(media.packets)
      /\ pc = "convert" => pos > 0
  BY Zenon DEF Place, Shape, PacketRead
<1>2. /\ Len(media.packets) \in Nat /\ DOMAIN media.flush = Streams
      /\ \A i \in 1..Len(media.packets) : IsEvent(media.packets[i].event)
      /\ \A i \in DOMAIN media.flush : IsEvent(media.flush[i])
  BY MediaTyped, Zenon DEF Place, IsMedia, Streams
<1>3. ti \in DOMAIN tracks /\ ti \in 1..Len(tracks) /\ tracks[ti] \in Track
  BY <1>1
<1>4. tracks[ti].stream \in Streams
  BY <1>3, Zenon DEF Track, Subtitles
<1>5. pc = "flush" => Decoded = media.flush[tracks[ti].stream]
  BY Zenon DEF Decoded
<1>6. pc = "convert" /\ Decoded # Nothing => Decoded = media.packets[pos].event
  BY Zenon DEF Decoded
<1>7. pc = "convert" => pos \in 1..Len(media.packets)
  BY <1>1, <1>2
<1>8. IsEvent(Nothing)
  BY Zenon DEF IsEvent
<1> QED
  BY <1>2, <1>3, <1>4, <1>5, <1>6, <1>7, <1>8

\* What a call of encode_and_write_subtitle changes: the PTS of its track, unless it
\* ends early, and then the file, unless the write fails.
LEMMA EncodeEffect ==
  ASSUME Shape, UNCHANGED media, ti \in 1..Len(tracks), NEW sub, NEW of, NEW pts \in Int, NEW how,
         Written(encode_and_write_subtitle(Output, ti, sub, of, pts, how))
  PROVE  LET at == Later(tracks[ti].last, pts)
             w == [track |-> ti, of |-> of, pts |-> at, asked |-> pts, sub |-> sub]
         IN  \/ UNCHANGED <<tracks, written>> /\ (sub.made => how # "done")
             \/ /\ tracks' = [tracks EXCEPT ![ti].last = at] /\ sub.made
                /\ \/ how = "write" /\ UNCHANGED written
                   \/ how # "write" /\ written' = Append(written, w)
<1> DEFINE at == Later(tracks[ti].last, pts)
           w == [track |-> ti, of |-> of, pts |-> at, asked |-> pts, sub |-> sub]
           b == IF opts.bench THEN bench_inc_cues_encoded(bench) ELSE bench
           e == encode_and_write_subtitle(Output, ti, sub, of, pts, how)
<1>1. tracks' = e.tracks /\ written' = e.written
  BY Zenon DEF Written
<1>2. Output.tracks = tracks /\ Output.written = written /\ Output.bench = bench
  BY Zenon DEF Output
<1>3. CASE ~sub.made \/ how \in {"buffer", "encode"}
  <2>1. e = Output
    BY <1>3, Zenon DEF encode_and_write_subtitle
  <2> QED
    BY <1>1, <1>2, <1>3, <2>1, Zenon
<1>4. CASE sub.made /\ how \notin {"buffer", "encode"} /\ how = "packet"
  <2>1. e = [Output EXCEPT !.bench = b]
    BY <1>2, <1>4, Zenon DEF encode_and_write_subtitle
  <2>2. e.tracks = tracks /\ e.written = written
    <3> HIDE DEF b, e
    <3> QED
      BY <2>1, Zenon DEF Output
  <2> QED
    BY <1>1, <1>4, <2>2, Zenon
<1>5. CASE sub.made /\ how \notin {"buffer", "encode", "packet"}
  <2>1. /\ e.tracks = [tracks EXCEPT ![ti].last = at]
        /\ e.written = IF how = "write" THEN written ELSE Append(written, w)
    BY <1>2, <1>5, Zenon DEF encode_and_write_subtitle
  <2> HIDE DEF e, at, w
  <2> QED
    BY <1>1, <1>5, <2>1, Zenon DEF at, w
<1> QED
  BY <1>3, <1>4, <1>5, Zenon

\* The tracks keep their types and their streams.
LEMMA EncodeTracks ==
  ASSUME Shape, UNCHANGED media, ti \in 1..Len(tracks), NEW at \in Int,
         tracks' = [tracks EXCEPT ![ti].last = at]
  PROVE  /\ tracks' \in Seq(Track)' /\ DOMAIN tracks' = DOMAIN tracks /\ Len(tracks') = Len(tracks)
         /\ tracks'[ti].last = at
         /\ \A t \in DOMAIN tracks : /\ tracks'[t].stream = tracks[t].stream
                                     /\ t # ti => tracks'[t] = tracks[t]
<1>1. tracks \in Seq(Track) /\ DOMAIN tracks = 1..Len(tracks) /\ Len(tracks) \in Nat
  BY DEF Shape
<1>2. Track' = Track
  BY Zenon DEF Track, Subtitles, Streams, Language
<1>3. tracks[ti] \in Track
  BY <1>1
<1>4. [tracks[ti] EXCEPT !.last = at] \in Track
  BY <1>3, Zenon DEF Track
<1>5. tracks' = [tracks EXCEPT ![ti] = [tracks[ti] EXCEPT !.last = at]]
  BY <1>1, Zenon
<1>6. [tracks[ti] EXCEPT !.last = at].last = at /\ [tracks[ti] EXCEPT !.last = at].stream = tracks[ti].stream
  BY <1>3, Zenon DEF Track
<1> DEFINE r == [tracks[ti] EXCEPT !.last = at]
<1> HIDE DEF r
<1>7. tracks' \in Seq(Track) /\ DOMAIN tracks' = DOMAIN tracks /\ Len(tracks') = Len(tracks)
  BY <1>1, <1>4, <1>5, ExceptSeq DEF r
<1>8. tracks'[ti] = r /\ \A t \in DOMAIN tracks : t # ti => tracks'[t] = tracks[t]
  BY <1>1, <1>5, Zenon DEF r
<1> QED
  BY <1>2, <1>6, <1>7, <1>8, Zenon DEF r

-----------------------------------------------------------------------------
(* Numbers.                                                                *)

\* The time at the new frame rate is the nearest tick.
LEMMA ScaledNearest ==
  ASSUME opts.dst \in Int, src_fps \in Int, NEW x \in Int
  PROVE  Scaled(x) \in Int /\ Nearest(Scaled(x), x)
<1>1. CASE opts.dst <= 0 \/ src_fps <= 0
  BY <1>1 DEF Scaled, Nearest
<1>2. CASE opts.dst > 0 /\ src_fps > 0 /\ x >= 0
  <2>1. Scaled(x) = (2 * x * src_fps + opts.dst) \div (2 * opts.dst)
    BY <1>2 DEF Scaled
  <2>2. opts.dst \in Nat /\ opts.dst > 0
    BY <1>2
  <2> QED
    BY <1>2, <2>1, <2>2, Rounded, Zenon DEF Nearest
<1>3. CASE opts.dst > 0 /\ src_fps > 0 /\ ~(x >= 0)
  <2> DEFINE q == (2 * (-x) * src_fps + opts.dst) \div (2 * opts.dst)
  <2>1. Scaled(x) = -q
    BY <1>3 DEF Scaled
  <2>2. opts.dst \in Nat /\ opts.dst > 0 /\ -x \in Int
    BY <1>3
  <2>3. q \in Int /\ 2 * (q * opts.dst - (-x) * src_fps) \in (-opts.dst)..opts.dst
    BY <2>2, Rounded, ZenonT(60)
  <2> HIDE DEF q
  <2>4. PICK d \in Int, s \in Int : d = opts.dst /\ s = src_fps
    BY Zenon
  <2>5. 2 * ((-q) * d - x * s) = -(2 * (q * d - (-x) * s))
    BY <2>3, SMTT(60)
  <2>6. PICK z \in Int : z = 2 * (q * d - (-x) * s)
    BY <2>3, <2>4
  <2>7. 2 * ((-q) * d - x * s) \in (-d)..d
    BY <2>3, <2>4, <2>5, <2>6
  <2> QED
    BY <1>3, <2>1, <2>3, <2>4, <2>7 DEF Nearest
<1> QED
  BY <1>1, <1>2, <1>3

\* The PTS of a packet of the file in 90 kHz.
LEMMA PacketPts ==
  ASSUME Shape, NEW i \in 1..Len(media.packets)
  PROVE  LET p == media.packets[i]
         IN  /\ p.pts \in Int \cup {NoPts}
             /\ p.pts = NoPts => Pts90(p) = NoPts
             /\ p.pts # NoPts => Pts90(p) \in Int
<1>1. /\ media.packets[i].stream \in Streams /\ media.packets[i].pts \in Int \cup {NoPts}
      /\ \A s \in Streams : media.streams[s].tick \in Nat
  BY MediaTyped, Zenon DEF IsMedia, Streams
<1>2. media.streams[media.packets[i].stream].tick \in Nat
  BY <1>1, Zenon
<1> QED
  BY <1>1, <1>2, SMTT(60) DEF Pts90

\* The event in hand has a PTS or none.
LEMMA EventTimed ==
  ASSUME Place, pc = "write"
  PROVE  IsEvent(cur.event) /\ cur.event.pts \in Int \cup {NoPts}
<1>1. /\ ti \in DOMAIN tracks /\ cur.flush \in BOOLEAN /\ cur.event # Nothing
      /\ cur.event = IF cur.flush THEN media.flush[tracks[ti].stream] ELSE media.packets[pos].event
      /\ ~cur.flush => pos > 0
      /\ pos \in 0..Len(media.packets) /\ Shape /\ tracks \in Seq(Track)
  BY Zenon DEF Place, InHand, Shape
<1>2. /\ Len(media.packets) \in Nat /\ DOMAIN media.flush = Streams
      /\ \A i \in 1..Len(media.packets) : IsEvent(media.packets[i].event)
      /\ \A i \in DOMAIN media.flush : IsEvent(media.flush[i])
  BY <1>1, MediaTyped, Zenon DEF IsMedia, Streams
<1>3. tracks[ti].stream \in Streams
  <2>1. tracks[ti] \in Track
    BY <1>1
  <2> QED
    BY <2>1, Zenon DEF Track, Subtitles
<1>4. ~cur.flush => pos \in 1..Len(media.packets)
  BY <1>1, <1>2
<1>5. IsEvent(cur.event)
  BY <1>1, <1>2, <1>3, <1>4, Zenon
<1> QED
  BY <1>1, <1>5, ZenonT(60) DEF IsEvent

\* The time asked for is a number.
LEMMA AskedTyped ==
  ASSUME Place
  PROVE  /\ pc = "write" => Timed(ChosenPts(cur.event, cur.flush)) \in Int
         /\ pc = "blank" => BlankPts \in Int
<1>1. /\ opts.delay \in Int /\ opts.dst \in Int /\ src_fps \in Int /\ tracks \in Seq(Track)
      /\ Shape /\ pos \in 0..Len(media.packets) /\ Len(media.packets) \in Nat
  BY MediaTyped, Zenon DEF Place, Shape, IsMedia
<1>2. ASSUME pc = "write"
      PROVE  Timed(ChosenPts(cur.event, cur.flush)) \in Int
  <2>1. /\ ti \in DOMAIN tracks /\ cur.flush \in BOOLEAN /\ cur.event # Nothing
        /\ cur.event = IF cur.flush THEN media.flush[tracks[ti].stream] ELSE media.packets[pos].event
        /\ ~cur.flush => pos \in 1..Len(media.packets)
    BY <1>1, <1>2 DEF Place, InHand
  <2>2. tracks[ti].last \in Int \cup {NoPts} /\ tracks[ti].stream \in Streams
    <3>1. tracks[ti] \in Track
      BY <1>1, <2>1
    <3> QED
      BY <3>1, Zenon DEF Track, Subtitles
  <2>4. cur.event.pts \in Int \cup {NoPts}
    BY <1>2, EventTimed, Zenon
  <2>5. ChosenPts(cur.event, cur.flush) \in Int
    <3>1. CASE cur.event.pts \notin {NoPts, 0}
      <4>1. cur.event.pts \in Int
        BY <2>4, <3>1, Zenon
      <4>2. Rescaled(cur.event.pts) \in Int
        BY <4>1, SMTT(60) DEF Rescaled
      <4> QED
        BY <3>1, <4>2, Zenon DEF ChosenPts
    <3>2. CASE cur.event.pts \in {NoPts, 0} /\ ~cur.flush /\ Pts90(media.packets[pos]) # NoPts
      <4>1. Pts90(media.packets[pos]) \in Int
        BY <1>1, <2>1, <3>2, PacketPts, Zenon
      <4> QED
        BY <3>2, <4>1, Zenon DEF ChosenPts
    <3>3. CASE cur.event.pts \in {NoPts, 0} /\ ~(~cur.flush /\ Pts90(media.packets[pos]) # NoPts)
      BY <2>2, <3>3 DEF ChosenPts
    <3> QED
      BY <3>1, <3>2, <3>3, Zenon
  <2>6. Scaled(ChosenPts(cur.event, cur.flush)) \in Int
    BY <1>1, <2>5, ScaledNearest, Zenon
  <2> QED
    BY <1>1, <2>6 DEF Timed
<1>3. ASSUME pc = "blank"
      PROVE  BlankPts \in Int
  <2>1. CASE pos = 0
    BY <2>1 DEF BlankPts
  <2>2. CASE pos # 0
    <3>1. pos > 0 /\ pos \in 1..Len(media.packets)
      BY <1>1, <2>2
    <3>2. media.packets[pos].pts # NoPts
      BY <1>3, <3>1, Zenon DEF Place, PacketRead
    <3>3. Pts90(media.packets[pos]) \in Int
      BY <1>1, <3>1, <3>2, PacketPts, Zenon
    <3> QED
      BY <2>2, <3>3 DEF BlankPts
  <2> QED
    BY <2>1, <2>2, Zenon
<1> QED
  BY <1>2, <1>3, Zenon

-----------------------------------------------------------------------------
(* The steps of main keep the types.                                       *)

\* The stream found for a language is a subtitle stream of the file.
LEMMA MatchingStream ==
  ASSUME Shape, NEW lang, Matching(lang) # 0
  PROVE  Matching(lang) \in Subtitles
<1> DEFINE m == {i \in DOMAIN media.streams : media.streams[i].type = "sub" /\ Language(i) = lang}
<1>1. DOMAIN media.streams = Streams /\ Len(media.streams) \in Nat
  BY MediaTyped, Zenon DEF IsMedia, Streams
<1>2. m \subseteq Nat /\ m \subseteq Subtitles
  BY <1>1 DEF Subtitles, Streams
<1>3. m # {} /\ Matching(lang) = CHOOSE i \in m : \A j \in m : i <= j
  BY Zenon DEF Matching
<1> HIDE DEF m
<1>4. \E i \in m : \A j \in m : i <= j
  BY <1>2, <1>3, Smallest, ZenonT(60)
<1>5. Matching(lang) \in m
  BY <1>3, <1>4, ZenonT(60)
<1> QED
  BY <1>2, <1>5, ZenonT(60)

\* A step adds the calls that failed in it.
LEMMA FaultsGrow ==
  ASSUME faults \in Nat, [Next]_vars
  PROVE  faults' \in Nat /\ faults' >= faults
<1>1. ASSUME NEW k \in Nat, Fails(k) \/ NoFault
      PROVE  faults' \in Nat /\ faults' >= faults
  BY <1>1 DEF Fails, NoFault
<1>2. 1 \in Nat
  BY Zenon
<1>3. CASE WriteEvent
  <2>1. PICK failing \in SUBSET Allocations, how \in Failures \cup {"done"} :
          LET k == Cardinality(failing) + (IF how = "done" THEN 0 ELSE 1)
          IN  IF k = 0 THEN NoFault ELSE Fails(k)
    BY <1>3, Zenon DEF WriteEvent
  <2>3. Cardinality(failing) \in Nat
    BY AllocationsFinite, FS_Subset, FS_CardinalityType, Zenon
  <2> DEFINE k == Cardinality(failing) + (IF how = "done" THEN 0 ELSE 1)
  <2>4. k \in Nat
    BY <2>3
  <2>5. Fails(k) \/ NoFault
    BY <2>1, Zenon
  <2> HIDE DEF k
  <2> QED
    BY <1>1, <2>4, <2>5, Zenon
<1>4. CASE ParseOptions \/ OptionsFail \/ OpenInput \/ OpenFails \/ PickStream \/ FindEncoder
  <2>1. Fails(1) \/ NoFault
    BY <1>4, ZenonT(60)
    DEF ParseOptions, OptionsFail, OpenInput, OpenFails, PickStream, FindEncoder, NoFault
  <2> QED
    BY <1>1, <1>2, <2>1, Zenon
<1>5. CASE AddTrack \/ TrackFails \/ StartOutput \/ OutputFails \/ AllocPacket \/ ReadPacket
  <2>1. Fails(1) \/ NoFault
    BY <1>5, ZenonT(60)
    DEF AddTrack, TrackFails, StartOutput, OutputFails, AllocPacket, ReadPacket, NoFault
  <2> QED
    BY <1>1, <1>2, <2>1, Zenon
<1>6. CASE WriteBlank \/ BlanksDone \/ EndOfInput \/ NextTrack \/ PacketDone
  <2>1. Fails(1) \/ NoFault
    BY <1>6, ZenonT(60) DEF WriteBlank, BlanksDone, EndOfInput, NextTrack, PacketDone, NoFault
  <2> QED
    BY <1>1, <1>2, <2>1, Zenon
<1>7. CASE Convert \/ ConvertFails
  <2>1. Fails(1) \/ NoFault
    BY <1>7, ZenonT(60) DEF Convert, ConvertFails
  <2> QED
    BY <1>1, <1>2, <2>1, Zenon
<1>8. CASE WriteTrailer \/ Cleanup \/ Signal \/ UNCHANGED vars
  <2>1. Fails(1) \/ NoFault
    BY <1>8, ZenonT(60) DEF WriteTrailer, Cleanup, Signal, vars, NoFault
  <2> QED
    BY <1>1, <1>2, <2>1, Zenon
<1> QED
  BY <1>3, <1>4, <1>5, <1>6, <1>7, <1>8, ZenonT(60) DEF Next, Steps, Over

\* Place again after a step that leaves the tracks of the file what they are.
LEMMA PlaceAgain ==
  ASSUME Place, [Next]_vars,
         pc' \in Early \cup Busy \cup {"cleanup", "done", "crashed"},
         src_fps' \in Int, picked' \in Seq(Subtitles), tracks' \in Seq(Track),
         pos' \in 0..Len(media.packets), ti' \in Nat \ {0},
         InHand', PacketRead'
  PROVE  Place'
<1>1. UNCHANGED <<opts, media>>
  BY InputFixed, Zenon
<1>2. faults' \in Nat
  BY FaultsGrow, Zenon DEF Place, Shape
<1>3. Track' = Track /\ Subtitles' = Subtitles
  BY <1>1, Zenon DEF Track, Subtitles, Streams, Language
<1>4. Shape'
  BY <1>1, <1>2, <1>3, ZenonT(60) DEF Place, Shape, Early, Busy
<1> QED
  BY <1>4, Zenon DEF Place

\* A step that only goes on.
LEMMA PlaceMoved ==
  ASSUME Place, [Next]_vars, UNCHANGED <<src_fps, picked, tracks, pos>>, ti' \in Nat \ {0},
         pc' \in Early \cup Busy \cup {"cleanup", "done", "crashed"}, pc' # "write",
         pc' \in Early => pc \in Early, pc' = "convert" => pos > 0,
         pc' = "blank" => pos = 0 \/ pc = "blank"
  PROVE  Place'
<1>1. UNCHANGED <<opts, media>>
  BY InputFixed, Zenon
<1>2. /\ src_fps \in Int /\ picked \in Seq(Subtitles) /\ tracks \in Seq(Track)
      /\ pos \in 0..Len(media.packets)
  BY Zenon DEF Place, Shape
<1>3. InHand'
  BY Zenon DEF InHand
<1>4. PacketRead'
  <2>1. pos = 0 => ~(pos > 0)
    OBVIOUS
  <2> QED
    BY <1>1, <2>1, ZenonT(60) DEF Place, PacketRead
<1> QED
  BY <1>2, <1>3, <1>4, PlaceAgain, Zenon

\* main starts with nothing in hand.
LEMMA InitPlace ==
  ASSUME Init
  PROVE  Place
<1>1. opts \in CommandLines /\ media \in Media
  BY Zenon DEF Init
<1>2. Len(media.packets) \in Nat
  BY <1>1, ConverterAssumption, Zenon DEF IsMedia
<1>3. <<>> \in Seq(Subtitles) /\ <<>> \in Seq(Track)
  OBVIOUS
<1>4. Shape
  BY <1>1, <1>2, <1>3 DEF Init, Shape, Early
<1> QED
  BY <1>4, Zenon DEF Init, Place, InHand, PacketRead, Early

\* The types, the event in hand and the packet that was read are kept by every step.
LEMMA PlaceSteps ==
  ASSUME Place, [Next]_vars
  PROVE  Place'
<1>1. /\ opts \in CommandLines /\ media \in Media /\ src_fps \in Int
      /\ picked \in Seq(Subtitles) /\ tracks \in Seq(Track)
      /\ pos \in 0..Len(media.packets) /\ ti \in Nat \ {0} /\ Len(media.packets) \in Nat
      /\ Shape /\ IsMedia(media)
  BY MediaTyped, Zenon DEF Place, Shape, IsMedia
<1>2. UNCHANGED <<opts, media>>
  BY InputFixed, Zenon
<1>3. ti + 1 \in Nat \ {0} /\ 1 \in Nat \ {0}
  BY <1>1
<1>4. CASE ParseOptions \/ OptionsFail \/ OpenFails \/ FindEncoder
  <2>1. UNCHANGED <<src_fps, picked, tracks, pos, ti>> /\ pc' \in {"open", "done", "tracks", "cleanup", "crashed"}
    BY <1>4, ZenonT(60) DEF ParseOptions, OptionsFail, OpenFails, FindEncoder, Fail, Crash
  <2>2. pc \in Early
    BY <1>4, ZenonT(60) DEF ParseOptions, OptionsFail, OpenFails, FindEncoder, Early
  <2> QED
    BY <1>1, <2>1, <2>2, PlaceMoved, Zenon DEF Early
<1>5. CASE OpenInput
  <2>1. SourceFps \in Int
    BY <1>1, MediaTyped DEF SourceFps, IsMedia
  <2> QED
    BY <1>1, <1>5, <2>1, PlaceAgain, Zenon DEF OpenInput, InHand, Place, PacketRead, Early
<1>6. CASE PickStream
  <2>1. picked' \in Seq(Subtitles)
    <3>1. CASE Matching(opts.langs[ti]) = 0
      BY <1>1, <1>6, <3>1, Zenon DEF PickStream
    <3>2. CASE Matching(opts.langs[ti]) # 0
      <4>1. Matching(opts.langs[ti]) \in Subtitles
        BY <1>1, <3>2, MatchingStream, Zenon
      <4>2. picked' = Append(picked, Matching(opts.langs[ti]))
        BY <1>6, <3>2, Zenon DEF PickStream
      <4> QED
        BY <1>1, <4>1, <4>2
    <3> QED
      BY <3>1, <3>2, Zenon
  <2>2. pc' = "pick" /\ UNCHANGED <<src_fps, tracks, pos>> /\ ti' = ti + 1
    BY <1>6, Zenon DEF PickStream
  <2>3. pos = 0
    BY <1>6, Zenon DEF PickStream, Place, PacketRead, Early
  <2> QED
    BY <1>1, <1>3, <2>1, <2>2, <2>3, PlaceAgain, Zenon DEF InHand, PacketRead, Early
<1>7. CASE AddTrack
  <2> DEFINE n == Len(tracks) + 1
             r == [stream |-> picked[n], last |-> NoPts, lang |-> Language(picked[n])]
  <2>1. picked[n] \in Subtitles
    BY <1>1, <1>7 DEF AddTrack
  <2>2. r \in Track
    BY <2>1, Zenon DEF Track
  <2>3. tracks' = Append(tracks, r)
    BY <1>7, Zenon DEF AddTrack
  <2> HIDE DEF r
  <2>4. tracks' \in Seq(Track)
    BY <1>1, <2>2, <2>3
  <2>5. pc' = "tracks" /\ UNCHANGED <<src_fps, picked, pos, ti>>
    BY <1>7, Zenon DEF AddTrack
  <2>6. pos = 0
    BY <1>7, Zenon DEF AddTrack, Place, PacketRead, Early
  <2> QED
    BY <1>1, <2>4, <2>5, <2>6, PlaceAgain, Zenon DEF InHand, PacketRead, Early
<1>8. CASE TrackFails \/ OutputFails \/ AllocPacket
  <2>1. UNCHANGED <<src_fps, picked, tracks, pos, ti>> /\ pc' \in {"read", "cleanup", "crashed"}
    BY <1>8, ZenonT(60) DEF TrackFails, OutputFails, AllocPacket, Fail, Crash
  <2> QED
    BY <1>1, <2>1, PlaceMoved, Zenon DEF Busy, Early
<1>9. CASE StartOutput
  <2>1. PacketRead'
    <3>1. pos' = 0
      BY <1>9, Zenon DEF StartOutput, Place, PacketRead, Early
    <3> QED
      BY <1>9, <3>1 DEF StartOutput, PacketRead, Early
  <2> QED
    BY <1>1, <1>3, <1>9, <2>1, PlaceAgain, Zenon DEF StartOutput, InHand, Busy
<1>10. CASE ReadPacket
  <2>1. pos' = pos + 1 /\ pos' \in 1..Len(media.packets)
    BY <1>1, <1>10 DEF ReadPacket
  <2>2. pc' \in {"blank", "convert"} /\ (pc' = "blank" => media.packets[pos'].pts # NoPts)
    BY <1>10, Zenon DEF ReadPacket, StartsStreams
  <2>3. PacketRead'
    BY <1>2, <2>1, <2>2 DEF PacketRead, Early
  <2>4. UNCHANGED <<src_fps, picked, tracks>> /\ ti' = 1
    BY <1>10, Zenon DEF ReadPacket
  <2> QED
    BY <1>1, <1>3, <2>1, <2>2, <2>3, <2>4, PlaceAgain DEF InHand, Busy
<1>11. CASE BlanksDone \/ EndOfInput \/ NextTrack \/ PacketDone
  <2>1. /\ UNCHANGED <<src_fps, picked, tracks, pos>> /\ ti' \in {1, ti, ti + 1}
        /\ pc' \in {"packet", "convert", "flush", "read"}
        /\ pc' = "convert" => pc = "convert" \/ pos # 0
    BY <1>11, ZenonT(60) DEF BlanksDone, EndOfInput, NextTrack, PacketDone
  <2>2. pc' = "convert" => pos > 0
    BY <1>1, <2>1 DEF Place, PacketRead
  <2> QED
    BY <1>1, <1>3, <2>1, <2>2, PlaceMoved, Zenon DEF Busy, Early
<1>12. CASE Signal \/ UNCHANGED vars
  <2>1. UNCHANGED <<pc, src_fps, picked, tracks, pos, ti, cur>>
    BY <1>12, Zenon DEF Signal, vars
  <2>2. InHand' /\ PacketRead' /\ pc \in Early \cup Busy \cup {"cleanup", "done", "crashed"}
    BY <1>2, <2>1, ZenonT(60) DEF Place, Shape, InHand, PacketRead
  <2> QED
    BY <1>1, <2>1, <2>2, PlaceAgain, Zenon
<1>13. CASE WriteTrailer
  BY <1>1, <1>13, PlaceMoved, Zenon DEF WriteTrailer, Early
<1>14. CASE Cleanup
  <2>1. tracks' \in Seq(Track)
    BY <1>14 DEF Cleanup
  <2> QED
    BY <1>1, <1>14, <2>1, PlaceAgain, Zenon DEF Cleanup, InHand, PacketRead, Early
<1>15. CASE Convert \/ ConvertFails
  <2>1. pc \in {"convert", "flush"} /\ ti <= Len(tracks) /\ Decoded # Nothing
    BY <1>15, ZenonT(60) DEF Convert, ConvertFails
  <2>2. \/ Crash
        \/ \E bm, copied : Converted(Decoded, bm, copied)
    BY <1>15, ZenonT(60) DEF Convert, ConvertFails
  <2>3. CASE Crash
    BY <1>1, <2>3, PlaceMoved, Zenon DEF Crash, Early
  <2>4. CASE \E bm, copied : Converted(Decoded, bm, copied)
    <3>1. PICK bm, copied : Converted(Decoded, bm, copied)
      BY <2>4, Zenon
    <3>2. /\ cur' = [kind |-> "event", event |-> Decoded, bm |-> bm, flush |-> pc = "flush"]
          /\ pc' = "write" /\ UNCHANGED <<src_fps, picked, tracks, pos, ti>>
      BY <3>1, Zenon DEF Converted
    <3>3. cur'.event = Decoded /\ cur'.flush = (pc = "flush")
      BY <3>2, Zenon
    <3>4. InHand'
      <4>1. ti \in DOMAIN tracks
        BY <2>1, DecodedEvent, Zenon
      <4>2. pc = "flush" => Decoded = media.flush[tracks[ti].stream]
        BY <2>1, DecodedEvent, Zenon
      <4>3. pc = "convert" => Decoded = media.packets[pos].event /\ pos > 0
        BY <2>1, DecodedEvent, Zenon DEF Place, PacketRead
      <4> QED
        BY <1>2, <2>1, <3>2, <3>3, <4>1, <4>2, <4>3, ZenonT(60) DEF InHand
    <3> QED
      BY <1>1, <3>2, <3>4, PlaceAgain, Zenon DEF PacketRead, Busy, Early
  <2> QED
    BY <2>2, <2>3, <2>4, Zenon
<1>16. ASSUME ti \in 1..Len(tracks), NEW sub, NEW of, NEW pts \in Int, NEW how,
              Written(encode_and_write_subtitle(Output, ti, sub, of, pts, how))
       PROVE  tracks' \in Seq(Track)
  <2>1. tracks[ti].last \in Int \cup {NoPts}
    <3>1. tracks[ti] \in Track
      BY <1>1, <1>16
    <3> QED
      BY <3>1, Zenon DEF Track
  <2>2. Later(tracks[ti].last, pts) \in Int
    BY <1>16, <2>1, LaterFacts, ZenonT(60)
  <2>3. \/ UNCHANGED tracks
        \/ tracks' = [tracks EXCEPT ![ti].last = Later(tracks[ti].last, pts)]
    BY <1>1, <1>2, <1>16, EncodeEffect, ZenonT(60)
  <2>4. Track' = Track
    BY <1>2, Zenon DEF Track, Subtitles, Streams, Language
  <2>5. ASSUME tracks' = [tracks EXCEPT ![ti].last = Later(tracks[ti].last, pts)]
        PROVE  tracks' \in Seq(Track)
    BY <1>1, <1>2, <1>16, <2>2, <2>4, <2>5, EncodeTracks, ZenonT(60)
  <2> QED
    BY <1>1, <2>3, <2>5, Zenon
<1>17. CASE WriteBlank
  <2>1. PICK how : Written(encode_and_write_subtitle(Output, ti, Cleared(0, 2), 0, BlankPts, how))
    BY <1>17, Zenon DEF WriteBlank
  <2>2. pc = "blank" /\ ti \in 1..Len(tracks) /\ UNCHANGED <<pc, src_fps, picked, pos>> /\ ti' = ti + 1
    BY <1>1, <1>17 DEF WriteBlank
  <2>3. BlankPts \in Int
    BY <2>2, AskedTyped, Zenon
  <2>4. tracks' \in Seq(Track)
    BY <1>16, <2>1, <2>2, <2>3, Zenon
  <2>5. InHand' /\ PacketRead'
    BY <1>2, <2>2, Zenon DEF Place, InHand, PacketRead, Early
  <2> QED
    BY <1>1, <1>3, <2>2, <2>4, <2>5, PlaceAgain, Zenon DEF Busy
<1>18. CASE WriteEvent
  <2>1. PICK sub, of, how :
          Written(encode_and_write_subtitle(Output, ti, sub, of, Timed(ChosenPts(cur.event, cur.flush)), how))
    BY <1>18, ZenonT(60) DEF WriteEvent
  <2>2. /\ pc = "write" /\ UNCHANGED <<src_fps, picked, pos>> /\ ti' = ti + 1
        /\ pc' = IF cur.flush THEN "flush" ELSE "convert"
    BY <1>18, Zenon DEF WriteEvent
  <2>3. ti \in 1..Len(tracks) /\ (~cur.flush => pos > 0)
    BY <1>1, <2>2 DEF Place, InHand
  <2>4. Timed(ChosenPts(cur.event, cur.flush)) \in Int
    BY <2>2, AskedTyped, Zenon
  <2>5. tracks' \in Seq(Track)
    <3> DEFINE p == Timed(ChosenPts(cur.event, cur.flush))
    <3> HIDE DEF p
    <3> QED
      BY <1>16, <2>1, <2>3, <2>4, Zenon DEF p
  <2>6. InHand' /\ PacketRead'
    BY <2>2, <2>3, Zenon DEF InHand, PacketRead, Early
  <2> QED
    BY <1>1, <1>3, <2>2, <2>5, <2>6, PlaceAgain, Zenon DEF Busy
<1> QED
  BY <1>4, <1>5, <1>6, <1>7, <1>8, <1>9, <1>10, <1>11, <1>12, <1>13, <1>14, <1>15, <1>17, <1>18,
     ZenonT(60) DEF Next, Steps, Over

-----------------------------------------------------------------------------
(* Steps: the buffers.                                                     *)

\* The width of the encoder and the scale of a picture.
LEMMA ScaleTyped ==
  ASSUME Place, NEW e, IsEvent(e), e # Nothing, ~Divides(e)
  PROVE  ScaleOf(e) \in Nat
<1>1. codec_width \in Nat
  BY MediaTyped, ConverterAssumption, Zenon DEF Place, codec_width, IsMedia
<1>2. e.w \in Nat /\ e.stride \in Int
  BY Zenon DEF IsEvent
<1>3. \A a \in Nat, b \in Nat : b > 0 => a \div b \in Nat
  BY SMTT(60)
<1>4. SourceWidth(e) \in Int
  BY <1>2, SMTT(60) DEF SourceWidth
<1>5. CASE pc = "flush"
  <2>1. ScaleOf(e) = FlushScale(e, codec_width)
    BY <1>5, Zenon DEF ScaleOf
  <2>2. codec_width >= Uhd => e.w > 0
    BY <1>2, <1>5 DEF Divides
  <2> HIDE DEF codec_width
  <2> QED
    BY <1>1, <1>2, <1>3, <2>1, <2>2 DEF FlushScale
<1>6. CASE pc # "flush"
  <2>1. ScaleOf(e) = Scale(e, codec_width)
    BY <1>6, Zenon DEF ScaleOf
  <2>2. Hd \in Nat /\ Hd > 0
    BY ConverterAssumption
  <2>3. codec_width \div Hd \in Nat
    BY <1>1, <1>3, <2>2, Zenon
  <2>4. SourceWidth(e) > 0 => codec_width \div SourceWidth(e) \in Nat
    BY <1>1, <1>3, <1>4
  <2>5. 1 \in Nat
    BY Zenon
  <2> QED
    BY <2>1, <2>3, <2>4, <2>5, ZenonT(60) DEF Scale
<1> QED
  BY <1>5, <1>6, Zenon

\* Only WriteEvent touches the buffers.
LEMMA BuffersKept ==
  ASSUME [Next]_vars, ~WriteEvent
  PROVE  UNCHANGED buckets
<1>1. CASE ParseOptions \/ OptionsFail \/ OpenInput \/ OpenFails \/ PickStream \/ FindEncoder
  BY <1>1, ZenonT(60)
  DEF ParseOptions, OptionsFail, OpenInput, OpenFails, PickStream, FindEncoder, Fail, Crash
<1>2. CASE AddTrack \/ TrackFails \/ StartOutput \/ OutputFails \/ AllocPacket \/ ReadPacket
  BY <1>2, ZenonT(60)
  DEF AddTrack, TrackFails, StartOutput, OutputFails, AllocPacket, ReadPacket, Fail, Crash
<1>3. CASE WriteBlank \/ BlanksDone \/ EndOfInput \/ NextTrack \/ PacketDone
  BY <1>3, ZenonT(60) DEF WriteBlank, BlanksDone, EndOfInput, NextTrack, PacketDone
<1>4. CASE Convert \/ ConvertFails
  BY <1>4, ZenonT(60) DEF Convert, ConvertFails, Converted, Crash
<1>5. CASE WriteTrailer \/ Cleanup \/ Signal \/ UNCHANGED vars
  BY <1>5, ZenonT(60) DEF WriteTrailer, Cleanup, Signal, vars
<1> QED
  BY <1>1, <1>2, <1>3, <1>4, <1>5, ZenonT(60) DEF Next, Steps, Over

\* An event comes into hand when it is converted.
LEMMA WriteEntered ==
  ASSUME [Next]_vars, pc' = "write"
  PROVE  \/ UNCHANGED <<pc, cur, ti, pos, tracks>> /\ pc = "write"
         \/ Convert \/ ConvertFails
<1>1. CASE ParseOptions \/ OptionsFail \/ OpenInput \/ OpenFails \/ PickStream \/ FindEncoder
  BY <1>1, ZenonT(60)
  DEF ParseOptions, OptionsFail, OpenInput, OpenFails, PickStream, FindEncoder, Fail, Crash
<1>2. CASE AddTrack \/ TrackFails \/ StartOutput \/ OutputFails \/ AllocPacket \/ ReadPacket
  BY <1>2, ZenonT(60)
  DEF AddTrack, TrackFails, StartOutput, OutputFails, AllocPacket, ReadPacket, Fail, Crash
<1>3. CASE WriteBlank \/ BlanksDone \/ EndOfInput \/ NextTrack \/ PacketDone
  BY <1>3, Zenon DEF WriteBlank, BlanksDone, EndOfInput, NextTrack, PacketDone
<1>4. CASE WriteEvent \/ WriteTrailer \/ Cleanup \/ Signal \/ UNCHANGED vars
  BY <1>4, Zenon DEF WriteEvent, WriteTrailer, Cleanup, Signal, vars
<1> QED
  BY <1>1, <1>2, <1>3, <1>4, ZenonT(60) DEF Next, Steps, Over

\* What comes into hand: the event track ti has got, and its picture, converted.
LEMMA BitmapMade ==
  ASSUME Place, Convert \/ ConvertFails, pc' = "write"
  PROVE  /\ pc \in {"convert", "flush"} /\ ti <= Len(tracks) /\ Decoded # Nothing /\ IsEvent(Decoded)
         /\ UNCHANGED <<tracks, pos, ti, written>>
         /\ cur'.event = Decoded /\ cur'.flush = (pc = "flush")
         /\ \/ cur'.bm = NoBitmap
            \/ \E scale : \E k \in Nat, flush \in BOOLEAN :
                 /\ flush => pc = "flush"
                 /\ \/ cur'.bm = Bitmap(Decoded, scale, k, flush)
                    \/ cur'.bm = [Bitmap(Decoded, scale, k, flush) EXCEPT !.idx = <<>>]
<1>1. pc \in {"convert", "flush"} /\ ti <= Len(tracks) /\ Decoded # Nothing
  BY ZenonT(60) DEF Convert, ConvertFails
<1>2. IsEvent(Decoded)
  BY <1>1, DecodedEvent, Zenon
<1>3. ~Crash
  BY Zenon DEF Crash
<1>4. \A e, bm, copied : Converted(e, bm, copied) =>
        /\ UNCHANGED <<tracks, pos, ti, written>>
        /\ cur'.bm = bm /\ cur'.event = e /\ cur'.flush = (pc = "flush")
  BY SMTT(60) DEF Converted
<1>5. 1 \in Nat
  BY Zenon
<1>6. \/ Converted(Decoded, NoBitmap, FALSE)
      \/ \E scale : \E k \in Nat, flush \in BOOLEAN :
           /\ flush => pc = "flush"
           /\ \/ Converted(Decoded, Bitmap(Decoded, scale, k, flush), TRUE)
              \/ Converted(Decoded, [Bitmap(Decoded, scale, k, flush) EXCEPT !.idx = <<>>], FALSE)
  <2>1. CASE Convert
    <3>1. \/ Converted(Decoded, NoBitmap, FALSE)
          \/ /\ ~Divides(Decoded)
             /\ LET k == ScaleOf(Decoded)
                IN  Converted(Decoded, Bitmap(Decoded, k, k, pc = "flush"), TRUE)
      BY <1>3, <2>1, ZenonT(60) DEF Convert
    <3>2. ~Divides(Decoded) => ScaleOf(Decoded) \in Nat
      BY <1>1, <1>2, ScaleTyped, Zenon
    <3>3. (pc = "flush") \in BOOLEAN
      BY Zenon
    <3> QED
      BY <3>1, <3>2, <3>3, ZenonT(60)
  <2>2. CASE ConvertFails
    <3>1. \/ Converted(Decoded, Bitmap(Decoded, ScaleOf(Decoded), 1, pc = "flush"), TRUE)
          \/ Converted(Decoded, [Bitmap(Decoded, 1, 1, FALSE) EXCEPT !.idx = <<>>], FALSE)
      BY <1>3, <2>2, ZenonT(60) DEF ConvertFails
    <3>2. (pc = "flush") \in BOOLEAN /\ FALSE \in BOOLEAN
      BY Zenon
    <3> QED
      BY <1>5, <3>1, <3>2, ZenonT(60)
  <2> QED
    BY <2>1, <2>2, ZenonT(60)
<1>7. CASE Converted(Decoded, NoBitmap, FALSE)
  BY <1>1, <1>2, <1>4, <1>7, ZenonT(60)
<1>8. CASE \E scale : \E k \in Nat, flush \in BOOLEAN :
             /\ flush => pc = "flush"
             /\ \/ Converted(Decoded, Bitmap(Decoded, scale, k, flush), TRUE)
                \/ Converted(Decoded, [Bitmap(Decoded, scale, k, flush) EXCEPT !.idx = <<>>], FALSE)
  <2>0. PICK scale : \E k \in Nat, flush \in BOOLEAN :
          /\ flush => pc = "flush"
          /\ \/ Converted(Decoded, Bitmap(Decoded, scale, k, flush), TRUE)
             \/ Converted(Decoded, [Bitmap(Decoded, scale, k, flush) EXCEPT !.idx = <<>>], FALSE)
    BY <1>8, ZenonT(60)
  <2>1. PICK k \in Nat, flush \in BOOLEAN :
          /\ flush => pc = "flush"
          /\ \/ Converted(Decoded, Bitmap(Decoded, scale, k, flush), TRUE)
             \/ Converted(Decoded, [Bitmap(Decoded, scale, k, flush) EXCEPT !.idx = <<>>], FALSE)
    BY <2>0, ZenonT(60)
  <2>2. /\ UNCHANGED <<tracks, pos, ti, written>>
        /\ cur'.event = Decoded /\ cur'.flush = (pc = "flush")
        /\ \/ cur'.bm = Bitmap(Decoded, scale, k, flush)
           \/ cur'.bm = [Bitmap(Decoded, scale, k, flush) EXCEPT !.idx = <<>>]
    <3>1. CASE Converted(Decoded, Bitmap(Decoded, scale, k, flush), TRUE)
      BY <1>4, <3>1, ZenonT(60)
    <3>2. CASE Converted(Decoded, [Bitmap(Decoded, scale, k, flush) EXCEPT !.idx = <<>>], FALSE)
      BY <1>4, <3>2, ZenonT(60)
    <3> QED
      BY <2>1, <3>1, <3>2, ZenonT(60)
  <2>3. \E l \in Nat, f \in BOOLEAN :
          /\ f => pc = "flush"
          /\ \/ cur'.bm = Bitmap(Decoded, scale, l, f)
             \/ cur'.bm = [Bitmap(Decoded, scale, l, f) EXCEPT !.idx = <<>>]
    BY <2>1, <2>2, ZenonT(60)
  <2> QED
    BY <1>1, <1>2, <2>2, <2>3, ZenonT(60)
<1> QED
  BY <1>6, <1>7, <1>8, ZenonT(60)

\* The cache holds at most one buffer of a size, in its own bucket, after every step.
LEMMA CacheSteps ==
  ASSUME Place, CacheInv, [Next]_vars
  PROVE  CacheInv'
<1>1. Cached(buckets')
  <2>1. CASE WriteEvent
    <3>1. PICK failing : buckets' = make_subtitle(buckets, cur.bm, cur.event.from, cur.event.to, failing).buckets
      BY <2>1, ZenonT(60) DEF WriteEvent
    <3>2. Cached(buckets) /\ PaletteFits(cur.bm)
      BY <2>1, Zenon DEF WriteEvent, CacheInv
    <3> QED
      BY <3>1, <3>2, MakeCached, Zenon
  <2>2. CASE ~WriteEvent
    BY <2>2, BuffersKept, Zenon DEF CacheInv
  <2> QED
    BY <2>1, <2>2, Zenon
<1>2. ASSUME pc' = "write"
      PROVE  PaletteFits(cur'.bm)
  <2>1. CASE UNCHANGED cur /\ pc = "write"
    BY <2>1, Zenon DEF CacheInv
  <2>2. CASE Convert \/ ConvertFails
    <3>1. CASE cur'.bm = NoBitmap
      BY <3>1 DEF NoBitmap, PaletteFits, Blank
    <3>2. ASSUME NEW scale, NEW k \in Nat, NEW flush \in BOOLEAN,
                 \/ cur'.bm = Bitmap(Decoded, scale, k, flush)
                 \/ cur'.bm = [Bitmap(Decoded, scale, k, flush) EXCEPT !.idx = <<>>]
          PROVE  PaletteFits(cur'.bm)
      <4>1. PaletteFits(Bitmap(Decoded, scale, k, flush))
        BY <1>2, <2>2, BitmapMade, BitmapFits, Zenon
      <4>2. [Bitmap(Decoded, scale, k, flush) EXCEPT !.idx = <<>>].idx = <<>>
        BY Zenon DEF Bitmap
      <4>3. PaletteFits([Bitmap(Decoded, scale, k, flush) EXCEPT !.idx = <<>>])
        BY <4>2, Zenon DEF PaletteFits, Blank
      <4> QED
        BY <3>2, <4>1, <4>3, Zenon
    <3> QED
      BY <1>2, <2>2, <3>1, <3>2, BitmapMade, ZenonT(60)
  <2> QED
    BY <1>2, <2>1, <2>2, WriteEntered, Zenon
<1> QED
  BY <1>1, <1>2, Zenon DEF CacheInv

-----------------------------------------------------------------------------
(* Steps: what main holds.                                                 *)

\* What main itself may hold.
MainParts == {"lang_list", "srt_list", "in_fmt", "out_fmt", "pb", "pkt", "idxbuf", "palette", "last_png"}

\* A step that takes nothing but parts of main's own.
LEMMA HeldMain ==
  ASSUME HeldInv, DOMAIN tracks' = DOMAIN tracks, NEW s \in SUBSET MainParts,
         held' \subseteq held \cup MainHolds(s),
         s \cap {"idxbuf", "palette"} = {} \/ pc' = "write",
         pc' \notin {"start", "done"}, pc = "write" => pc' = "write"
  PROVE  HeldInv'
<1>1. Owned' = Owned
  BY DEF Owned
<1>2. held' \subseteq Owned \cup MainHolds(MainParts)
  BY Zenon DEF HeldInv, MainHolds, MainParts
<1>3. pc' # "write" => held' \cap MainHolds({"idxbuf", "palette"}) = {}
  BY Zenon DEF HeldInv, MainHolds
<1> QED
  BY <1>1, <1>2, <1>3, Zenon DEF HeldInv, MainParts, MainHolds

\* A call of encode_and_write_subtitle keeps the tracks there are.
LEMMA EncodeDomain ==
  ASSUME Shape, UNCHANGED media, ti \in 1..Len(tracks), NEW sub, NEW of, NEW pts \in Int, NEW how,
         Written(encode_and_write_subtitle(Output, ti, sub, of, pts, how))
  PROVE  DOMAIN tracks' = DOMAIN tracks
<1>1. tracks[ti].last \in Int \cup {NoPts}
  <2>1. tracks[ti] \in Track
    BY DEF Shape
  <2> QED
    BY <2>1, Zenon DEF Track
<1>2. Later(tracks[ti].last, pts) \in Int
  BY <1>1, LaterFacts, ZenonT(60)
<1>3. \/ UNCHANGED tracks
      \/ tracks' = [tracks EXCEPT ![ti].last = Later(tracks[ti].last, pts)]
  BY EncodeEffect, ZenonT(60)
<1>4. ASSUME tracks' = [tracks EXCEPT ![ti].last = Later(tracks[ti].last, pts)]
      PROVE  DOMAIN tracks' = DOMAIN tracks
  BY <1>2, <1>4, EncodeTracks, Zenon
<1> QED
  BY <1>3, <1>4, Zenon

\* make_subtitle made sub of the bitmap in hand, and all it needed when no call failed.
SubInHand(sub) ==
  \E failing : /\ sub = make_subtitle(buckets, cur.bm, cur.event.from, cur.event.to, failing).sub
               /\ faults' = 0 => failing = {}

\* The two steps that call it: what they write, for which track, and when.
LEMMA WriteCall ==
  ASSUME Place, [Next]_vars, WriteBlank \/ WriteEvent
  PROVE  /\ Shape /\ UNCHANGED <<opts, media, src_fps, pos>> /\ ti \in 1..Len(tracks)
         /\ \E sub, of, how :
              \E pts \in Int :
                /\ Written(encode_and_write_subtitle(Output, ti, sub, of, pts, how))
                /\ faults' = 0 => how = "done" /\ faults = 0
                /\ \/ WriteBlank /\ of = 0 /\ sub = Cleared(0, 2)
                   \/ /\ WriteEvent /\ SubInHand(sub) /\ pts = Timed(ChosenPts(cur.event, cur.flush))
                      /\ of = IF cur.flush THEN Len(media.packets) + 1 ELSE pos
<1>1. /\ Shape /\ UNCHANGED <<opts, media>> /\ faults \in Nat /\ tracks \in Seq(Track) /\ ti \in Nat \ {0}
  BY InputFixed, Zenon DEF Place, Shape
<1>2. CASE WriteBlank
  <2>1. PICK how \in Failures \cup {"done"} :
          /\ IF how = "done" THEN NoFault ELSE Fails(1)
          /\ Written(encode_and_write_subtitle(Output, ti, Cleared(0, 2), 0, BlankPts, how))
    BY <1>2, Zenon DEF WriteBlank
  <2>2. pc = "blank" /\ ti \in 1..Len(tracks) /\ UNCHANGED <<src_fps, pos>>
    BY <1>1, <1>2 DEF WriteBlank
  <2>3. BlankPts \in Int
    BY <2>2, AskedTyped, Zenon
  <2>4. faults' = 0 => how = "done" /\ faults = 0
    BY <1>1, <2>1 DEF Fails, NoFault
  <2> QED
    BY <1>1, <1>2, <2>1, <2>2, <2>3, <2>4, ZenonT(60)
<1>3. CASE WriteEvent
  <2> DEFINE p == Timed(ChosenPts(cur.event, cur.flush))
             o == IF cur.flush THEN Len(media.packets) + 1 ELSE pos
  <2>1. PICK failing \in {f \in SUBSET Allocations : Cardinality(f) + faults <= MaxFaults},
             how \in Failures \cup {"done"} :
          LET m == make_subtitle(buckets, cur.bm, cur.event.from, cur.event.to, failing)
              k == Cardinality(failing) + (IF how = "done" THEN 0 ELSE 1)
          IN  /\ IF k = 0 THEN NoFault ELSE Fails(k)
              /\ Written(encode_and_write_subtitle(Output, ti, m.sub, o, p, how))
    BY <1>3, ZenonT(60) DEF WriteEvent
  <2>2. pc = "write" /\ UNCHANGED <<src_fps, pos>>
    BY <1>3, Zenon DEF WriteEvent
  <2>3. ti \in 1..Len(tracks)
    BY <1>1, <2>2 DEF Place, InHand
  <2>4. p \in Int
    BY <2>2, AskedTyped, Zenon
  <2>5. Cardinality(failing) \in Nat
    BY AllocationsFinite, FS_Subset, FS_CardinalityType, Zenon
  <2> HIDE DEF p, o
  <2>6. faults' = 0 => how = "done" /\ faults = 0
    <3> DEFINE c == Cardinality(failing)
               k == c + (IF how = "done" THEN 0 ELSE 1)
    <3>1. c \in Nat
      BY <2>5, Zenon
    <3>2. IF k = 0 THEN NoFault ELSE Fails(k)
      BY <2>1, Zenon
    <3> HIDE DEF c
    <3> QED
      BY <1>1, <3>1, <3>2 DEF Fails, NoFault
  <2>7. faults' = 0 => failing = {}
    <3> DEFINE c == Cardinality(failing)
               k == c + (IF how = "done" THEN 0 ELSE 1)
    <3>1. c \in Nat
      BY <2>5, Zenon
    <3>2. IF k = 0 THEN NoFault ELSE Fails(k)
      BY <2>1, Zenon
    <3>3. faults' = 0 => c = 0
      <4> HIDE DEF c
      <4> QED
        BY <1>1, <3>1, <3>2 DEF Fails, NoFault
    <3>4. IsFiniteSet(failing)
      BY AllocationsFinite, FS_Subset, Zenon
    <3> QED
      BY <3>3, <3>4, FS_EmptySet, Zenon
  <2>8. PICK sub : /\ sub = make_subtitle(buckets, cur.bm, cur.event.from, cur.event.to, failing).sub
                   /\ Written(encode_and_write_subtitle(Output, ti, sub, o, p, how))
    BY <2>1, Zenon
  <2>9. SubInHand(sub)
    BY <2>7, <2>8, Zenon DEF SubInHand
  <2> QED
    BY <1>1, <1>3, <2>2, <2>3, <2>4, <2>6, <2>8, <2>9, ZenonT(60) DEF p, o
<1> QED
  BY <1>2, <1>3, Zenon

\* What main holds is its own or a track's; bitmaps only while an event is in hand.
LEMMA HeldSteps ==
  ASSUME Place, HeldInv, [Next]_vars
  PROVE  HeldInv'
<1>0. ASSUME NEW a \in SUBSET Arguments, held' = MainHolds(a),
             pc' = "open" \/ (pc' = "done" /\ (opts'.ends = "" => ret' = 1))
      PROVE  HeldInv'
  <2>1. a \subseteq {"lang_list", "srt_list"}
    BY ZenonT(60) DEF Arguments
  <2>2. held' \subseteq MainHolds({"lang_list", "srt_list"})
    BY <1>0, <2>1, Zenon DEF MainHolds
  <2>3. held' \cap MainHolds({"idxbuf", "palette"}) = {}
    BY <2>2 DEF MainHolds
  <2>4. MainHolds({"lang_list", "srt_list"}) \subseteq MainHolds(MainParts)
    BY Zenon DEF MainHolds, MainParts
  <2> QED
    BY <1>0, <2>2, <2>3, <2>4, Zenon DEF HeldInv, MainParts
<1>1. CASE ParseOptions
  <2>1. /\ \E a \in SUBSET Arguments : held' = MainHolds(a)
        /\ pc' = "open" \/ (pc' = "done" /\ (opts'.ends = "" => ret' = 1))
    <3>1. Arguments \in SUBSET Arguments
      BY Zenon
    <3> QED
      BY <1>1, <3>1, ZenonT(60) DEF ParseOptions, Before
  <2> QED
    BY <1>0, <2>1, ZenonT(60)
<1>2. CASE OptionsFail
  <2>1. (\E a \in SUBSET Arguments : held' = MainHolds(a)) /\ pc' = "done" /\ ret' = 1
    BY <1>2, ZenonT(60) DEF OptionsFail, Before
  <2> QED
    BY <1>0, <2>1, ZenonT(60)
<1>3. ASSUME NEW s \in SUBSET {"lang_list", "in_fmt", "out_fmt", "pb", "pkt"}, UNCHANGED tracks,
             held' \subseteq held \cup MainHolds(s), pc' \notin {"start", "done"}, pc # "write"
      PROVE  HeldInv'
  <2>1. s \in SUBSET MainParts /\ s \cap {"idxbuf", "palette"} = {}
    BY Zenon DEF MainParts
  <2> QED
    BY <1>3, <2>1, HeldMain, Zenon
<1>4. CASE OpenInput \/ OpenFails \/ FindEncoder
  <2>1. \E s \in SUBSET {"lang_list", "in_fmt", "out_fmt", "pb", "pkt"} : held' \subseteq held \cup MainHolds(s)
    <3>1. \E s \in {{"in_fmt"}, {"out_fmt"}, {}} : held' \in {held, held \cup MainHolds(s)}
      BY <1>4, ZenonT(60) DEF OpenInput, OpenFails, FindEncoder, Fail, Crash
    <3> QED
      BY <3>1, Zenon
  <2>2. UNCHANGED tracks /\ pc' \notin {"start", "done"} /\ pc # "write"
    BY <1>4, Zenon DEF OpenInput, OpenFails, FindEncoder, Fail, Crash
  <2> QED
    BY <1>3, <2>1, <2>2, Zenon
<1>5. CASE StartOutput \/ OutputFails \/ AllocPacket
  <2>1. \E s \in SUBSET {"lang_list", "in_fmt", "out_fmt", "pb", "pkt"} : held' \subseteq held \cup MainHolds(s)
    <3>1. \E s \in {{"pb"}, {"pkt"}} : held' \in {held, held \cup MainHolds(s)}
      BY <1>5, ZenonT(60) DEF StartOutput, OutputFails, AllocPacket, Fail, Crash
    <3> QED
      BY <3>1, Zenon
  <2>2. UNCHANGED tracks /\ pc' \notin {"start", "done"} /\ pc # "write"
    BY <1>5, Zenon DEF StartOutput, OutputFails, AllocPacket, Fail, Crash
  <2> QED
    BY <1>3, <2>1, <2>2, Zenon
<1>6. CASE PickStream \/ ReadPacket \/ BlanksDone \/ EndOfInput \/ NextTrack \/ PacketDone \/ WriteTrailer
  <2>1. UNCHANGED <<tracks, held>> /\ pc' \notin {"start", "done"} /\ pc # "write"
    BY <1>6, Zenon
    DEF PickStream, ReadPacket, BlanksDone, EndOfInput, NextTrack, PacketDone, WriteTrailer
  <2>2. held' \subseteq held \cup MainHolds({})
    BY <2>1, Zenon
  <2> QED
    BY <1>3, <2>1, <2>2, Zenon
<1>7. CASE TrackFails
  <2>1. \A t, n : graphic_subtrack_clear(held \cup TrackHolds(t, n), t) \subseteq held
    BY DEF graphic_subtrack_clear, TrackHolds
  <2>2. held' \subseteq held /\ UNCHANGED tracks /\ pc' = "cleanup" /\ pc # "write"
    BY <1>7, <2>1, ZenonT(60) DEF TrackFails, Fail
  <2>3. held' \subseteq held \cup MainHolds({})
    BY <2>2, Zenon
  <2> QED
    BY <1>3, <2>2, <2>3, Zenon
<1>8. CASE AddTrack
  <2> DEFINE n == Len(tracks) + 1
  <2>1. tracks \in Seq(Track)
    BY Zenon DEF Place, Shape
  <2>2. PICK r : tracks' = Append(tracks, r) /\ held' = held \cup TrackHolds(n, 4) /\ UNCHANGED pc /\ pc = "tracks"
    BY <1>8, Zenon DEF AddTrack
  <2>3. tracks \in Seq(Track \cup {r}) /\ r \in Track \cup {r}
    BY <2>1
  <2>4. DOMAIN tracks \subseteq DOMAIN tracks' /\ n \in DOMAIN tracks'
    BY <2>2, <2>3
  <2>5. TrackHolds(n, 4) \subseteq Owned'
    <3>1. TrackHolds(n, 4) \subseteq {<<n, p>> : p \in {"lang", "dec_ctx", "codec_ctx"}}
      BY DEF TrackHolds, Parts
    <3> QED
      BY <2>4, <3>1 DEF Owned
  <2>6. Owned \subseteq Owned'
    BY <2>4 DEF Owned
  <2>7. TrackHolds(n, 4) \cap MainHolds({"idxbuf", "palette"}) = {}
    BY DEF TrackHolds, MainHolds, Parts
  <2> QED
    BY <2>2, <2>5, <2>6, <2>7, Zenon DEF HeldInv
<1>9. CASE WriteBlank
  <2>1. DOMAIN tracks' = DOMAIN tracks
    <3>1. PICK sub, of, how : \E pts \in Int :
            Written(encode_and_write_subtitle(Output, ti, sub, of, pts, how))
      BY <1>9, WriteCall, Zenon
    <3>2. Shape /\ UNCHANGED media /\ ti \in 1..Len(tracks)
      BY <1>9, WriteCall, Zenon
    <3> QED
      BY <3>1, <3>2, EncodeDomain, Zenon
  <2>2. UNCHANGED <<pc, held>> /\ pc = "blank"
    BY <1>9, Zenon DEF WriteBlank
  <2>3. held' \subseteq held \cup MainHolds({}) /\ {} \in SUBSET MainParts
    BY <2>2, Zenon
  <2> QED
    BY <2>1, <2>2, <2>3, HeldMain, Zenon
<1>10. CASE WriteEvent
  <2>1. DOMAIN tracks' = DOMAIN tracks
    <3>1. PICK sub, of, how : \E pts \in Int :
            Written(encode_and_write_subtitle(Output, ti, sub, of, pts, how))
      BY <1>10, WriteCall, Zenon
    <3>2. Shape /\ UNCHANGED media /\ ti \in 1..Len(tracks)
      BY <1>10, WriteCall, Zenon
    <3> QED
      BY <3>1, <3>2, EncodeDomain, Zenon
  <2>2. held' = held \ MainHolds({"idxbuf", "palette"}) /\ pc' \in {"flush", "convert"}
    BY <1>10, Zenon DEF WriteEvent
  <2>3. Owned' = Owned
    BY <2>1 DEF Owned
  <2> QED
    BY <2>2, <2>3, Zenon DEF HeldInv
<1>11. CASE Convert \/ ConvertFails
  <2>1. Crash \/ \E bm, copied : Converted(Decoded, bm, copied)
    BY <1>11, ZenonT(60) DEF Convert, ConvertFails
  <2>2. pc # "write"
    BY <1>11, ZenonT(60) DEF Convert, ConvertFails
  <2>3. CASE Crash
    <3>1. held' \subseteq held \cup MainHolds({}) /\ UNCHANGED tracks /\ pc' = "crashed"
      BY <2>3, Zenon DEF Crash
    <3> QED
      BY <1>3, <2>2, <3>1, Zenon
  <2>4. CASE \E bm, copied : Converted(Decoded, bm, copied)
    <3> DEFINE s == {"idxbuf", "palette", "last_png"}
    <3>1. held' \subseteq held \cup MainHolds(s) /\ UNCHANGED tracks /\ pc' = "write"
      BY <2>4, Zenon DEF Converted, MainHolds
    <3>2. s \in SUBSET MainParts
      BY Zenon DEF MainParts
    <3> HIDE DEF s
    <3> QED
      BY <3>1, <3>2, HeldMain, Zenon
  <2> QED
    BY <2>1, <2>3, <2>4, Zenon
<1>12. CASE Cleanup
  <2>1. /\ held' = {r \in held : r[1] \notin DOMAIN tracks}
                    \ MainHolds({"pkt", "pb", "out_fmt", "in_fmt", "lang_list", "srt_list"})
        /\ pc = "cleanup" /\ pc' = "done"
    BY <1>12, Zenon DEF Cleanup
  <2>2. \A r \in Owned : r[1] \in DOMAIN tracks
    BY DEF Owned
  <2>3. held' \subseteq MainHolds(MainParts) /\ held \cap MainHolds({"idxbuf", "palette"}) = {}
    BY <2>1, <2>2, Zenon DEF HeldInv, MainParts
  <2>4. held' \subseteq MainHolds({"last_png"})
    BY <2>1, <2>3, Zenon DEF MainHolds, MainParts
  <2> QED
    BY <2>1, <2>4, Zenon DEF HeldInv, MainHolds
<1>13. CASE Signal \/ UNCHANGED vars
  <2>1. UNCHANGED <<pc, tracks, held, opts, ret>>
    BY <1>13, Zenon DEF Signal, vars
  <2>2. Owned' = Owned
    BY <2>1 DEF Owned
  <2> QED
    BY <2>1, <2>2, Zenon DEF HeldInv
<1> QED
  BY <1>1, <1>2, <1>4, <1>5, <1>6, <1>7, <1>8, <1>9, <1>10, <1>11, <1>12, <1>13,
     ZenonT(60) DEF Next, Steps, Over

-----------------------------------------------------------------------------
(* Steps: what main returns, and the benchmark.                            *)

\* Why main may crash.
Fatal ==
  \/ ~media.opens \/ faults > 0
  \/ /\ codec_width >= Uhd
     /\ \E s \in DOMAIN media.flush :
          media.flush[s].kind \notin {"none", "clear"} /\ media.flush[s].w = 0

\* What is fatal once stays so.
LEMMA FatalStays ==
  ASSUME faults \in Nat, [Next]_vars, Fatal
  PROVE  Fatal'
<1>1. UNCHANGED media /\ faults' \in Nat /\ faults' >= faults
  BY InputFixed, FaultsGrow, Zenon
<1>2. codec_width' = codec_width
  BY <1>1, Zenon DEF codec_width, video_index
<1>3. faults > 0 => faults' > 0
  BY <1>1
<1> QED
  BY <1>1, <1>2, <1>3, Zenon DEF Fatal

\* A step that has not to do with the end of main.
LEMMA ExitKept ==
  ASSUME Place, ExitInv, [Next]_vars, UNCHANGED <<out, ret>>,
         \/ UNCHANGED pc
         \/ pc \notin {"start", "cleanup", "done"} /\ pc' \in Early \cup Busy /\ pc' # "start"
         \/ pc \notin {"start", "cleanup", "done"} /\ pc' = "crashed" /\ Fatal'
         \/ pc = "cleanup" /\ pc' = "done"
  PROVE  ExitInv'
<1>1. UNCHANGED <<opts, media>> /\ faults \in Nat /\ faults' \in Nat /\ faults' >= faults
  BY InputFixed, FaultsGrow, Zenon DEF Place, Shape
<1>2. Fatal => Fatal'
  BY <1>1, FatalStays, Zenon
<1>3. pc' = "crashed" => Fatal'
  <2>1. pc = "crashed" => Fatal
    BY ZenonT(60) DEF ExitInv, Fatal
  <2> QED
    BY <1>2, <2>1, Zenon DEF Early, Busy
<1>4. /\ out' \in {"complete", "damaged"} => pc' \in {"cleanup", "done"} /\ ret' = 0
      /\ pc' \in {"cleanup", "done"} /\ opts'.ends = "" /\ out' \notin {"complete", "damaged"} => ret' # 0
      /\ pc' \notin {"start", "done"} => opts'.ends = ""
      /\ out' \in {"none", "open", "complete", "damaged"}
  BY <1>1, ZenonT(60) DEF ExitInv, Early, Busy
<1> QED
  BY <1>3, <1>4, ZenonT(60) DEF ExitInv, Fatal

\* main returns 0 after the trailer and only then; it crashes only as Fatal says.
LEMMA ExitSteps ==
  ASSUME Place, ExitInv, [Next]_vars
  PROVE  ExitInv'
<1>1. UNCHANGED <<opts, media>> /\ faults \in Nat /\ faults' \in Nat /\ faults' >= faults
  BY InputFixed, FaultsGrow, Zenon DEF Place, Shape
<1>2. CASE ParseOptions \/ OptionsFail
  <2>1. /\ pc = "start" /\ UNCHANGED out
        /\ \/ pc' = "open" /\ opts.ends = ""
           \/ pc' = "done" /\ (opts.ends = "" => ret' = 1)
    BY <1>2, ZenonT(60) DEF ParseOptions, OptionsFail
  <2>2. out \in {"none", "open"}
    BY <2>1, ZenonT(60) DEF ExitInv
  <2>3. pc' # "crashed" /\ out' = out
    BY <2>1, ZenonT(60)
  <2>4. out' \notin {"complete", "damaged"}
    BY <2>2, <2>3, Zenon
  <2>5. 1 # 0
    OBVIOUS
  <2> QED
    BY <1>1, <2>1, <2>2, <2>3, <2>4, <2>5, ZenonT(60) DEF ExitInv
<1>3. ASSUME NEW h, Fail(-1, h), pc \notin {"start", "cleanup", "done", "crashed"}
      PROVE  ExitInv'
  <2>1. pc' = "cleanup" /\ ret' = -1 /\ UNCHANGED out
    BY <1>3, Zenon DEF Fail
  <2>2. out \in {"none", "open"} /\ opts.ends = ""
    BY <1>3, ZenonT(60) DEF ExitInv
  <2>3. pc' # "crashed" /\ out' = out
    BY <2>1, Zenon
  <2>4. out' \notin {"complete", "damaged"}
    BY <2>2, <2>3, ZenonT(60)
  <2>5. -1 # 0
    OBVIOUS
  <2> QED
    BY <1>1, <2>1, <2>2, <2>3, <2>4, <2>5, ZenonT(60) DEF ExitInv
<1>4. CASE OpenFails
  <2>1. pc = "open" /\ ~media.opens /\ (Fail(-1, held) \/ Crash)
    BY <1>4, Zenon DEF OpenFails
  <2>2. CASE Fail(-1, held)
    BY <1>3, <2>1, <2>2, Zenon
  <2>3. CASE Crash
    <3>1. Fatal'
      BY <1>1, <2>1, Zenon DEF Fatal
    <3> QED
      BY <2>1, <2>3, <3>1, ExitKept, Zenon DEF Crash
  <2> QED
    BY <2>1, <2>2, <2>3, Zenon
<1>5. CASE AllocPacket /\ Crash
  <2>1. faults' > 0 \/ UNCHANGED pc
    <3>1. CASE Fails(1)
      BY <1>1, <3>1 DEF Fails
    <3>2. CASE pc' = "read"
      BY <1>5, <3>2, Zenon DEF Crash
    <3> QED
      BY <1>5, <3>1, <3>2, Zenon DEF AllocPacket
  <2>2. pc = "packet" /\ pc' = "crashed"
    BY <1>5, Zenon DEF AllocPacket, Crash
  <2>3. Fatal'
    BY <2>1, <2>2, Zenon DEF Fatal
  <2> QED
    BY <1>5, <2>2, <2>3, ExitKept DEF Crash
<1>6. CASE TrackFails \/ OutputFails
  <2>1. pc = "tracks" /\ \E h : Fail(-1, h)
    BY <1>6, ZenonT(60) DEF TrackFails, OutputFails
  <2> QED
    BY <1>3, <2>1, Zenon
<1>7. CASE FindEncoder
  <2>1. CASE \E h : Fail(-1, h)
    BY <1>3, <1>7, <2>1, Zenon DEF FindEncoder
  <2>2. CASE pc' = "tracks" /\ UNCHANGED <<out, ret>>
    BY <1>7, <2>2, ExitKept, Zenon DEF FindEncoder, Early
  <2> QED
    BY <1>7, <2>1, <2>2, Zenon DEF FindEncoder
<1>8. CASE OpenInput \/ PickStream \/ AddTrack \/ ReadPacket \/ (AllocPacket /\ ~Crash)
  <2>1. UNCHANGED <<out, ret>> /\ pc \notin {"start", "cleanup", "done"} /\ pc' \in Early \cup Busy /\ pc' # "start"
    BY <1>8, Zenon DEF OpenInput, PickStream, AddTrack, ReadPacket, AllocPacket, Early, Busy
  <2> QED
    BY <2>1, ExitKept, Zenon
<1>9. CASE WriteBlank \/ BlanksDone \/ EndOfInput \/ NextTrack \/ WriteEvent \/ PacketDone
  <2>1. UNCHANGED <<out, ret>> /\ pc \notin {"start", "cleanup", "done"} /\ pc' \in Early \cup Busy /\ pc' # "start"
    BY <1>9, Zenon
    DEF WriteBlank, BlanksDone, EndOfInput, NextTrack, WriteEvent, PacketDone, Early, Busy
  <2> QED
    BY <2>1, ExitKept, Zenon
<1>10. CASE StartOutput
  BY <1>1, <1>10, ZenonT(60) DEF StartOutput, ExitInv
<1>11. CASE Convert \/ ConvertFails
  <2>1. pc \in {"convert", "flush"} /\ ti <= Len(tracks) /\ Decoded # Nothing
    BY <1>11, ZenonT(60) DEF Convert, ConvertFails
  <2>2. CASE Crash
    <3>1. Fatal'
      <4>1. CASE ConvertFails
        <5>1. faults' > 0
          BY <1>1, <4>1 DEF ConvertFails, Fails
        <5> QED
          BY <5>1, Zenon DEF Fatal
      <4>2. CASE Convert
        <5>1. Decoded.kind # "clear" /\ Divides(Decoded)
          BY <2>2, <4>2, ZenonT(60) DEF Convert, Converted, Crash
        <5>2. IsEvent(Decoded) /\ Decoded = media.flush[tracks[ti].stream] /\ tracks[ti].stream \in DOMAIN media.flush
          BY <2>1, <5>1, DecodedEvent, Zenon DEF Divides
        <5>3. Decoded.kind \notin {"none", "clear"} /\ Decoded.w = 0 /\ codec_width >= Uhd
          BY <2>1, <5>1, <5>2, ZenonT(60) DEF IsEvent, Divides
        <5>4. Fatal
          BY <5>2, <5>3, Zenon DEF Fatal
        <5> QED
          BY <1>1, <5>4, FatalStays, Zenon
      <4> QED
        BY <1>11, <4>1, <4>2, Zenon
    <3> QED
      BY <2>1, <2>2, <3>1, ExitKept, Zenon DEF Crash
  <2>3. CASE \E bm, copied : Converted(Decoded, bm, copied)
    <3>1. UNCHANGED <<out, ret>> /\ pc' = "write"
      BY <2>3, Zenon DEF Converted
    <3> QED
      BY <2>1, <3>1, ExitKept, Zenon DEF Busy
  <2>4. Crash \/ \E bm, copied : Converted(Decoded, bm, copied)
    BY <1>11, ZenonT(60) DEF Convert, ConvertFails
  <2> QED
    BY <2>2, <2>3, <2>4, Zenon
<1>12. CASE WriteTrailer
  <2>1. out' \in {"complete", "damaged"} /\ ret' = 0 /\ pc = "flush" /\ pc' = "cleanup"
    BY <1>12, Zenon DEF WriteTrailer
  <2> QED
    BY <1>1, <2>1, ZenonT(60) DEF ExitInv
<1>13. CASE Cleanup \/ Signal \/ UNCHANGED vars
  <2>1. UNCHANGED <<out, ret>> /\ (UNCHANGED pc \/ (pc = "cleanup" /\ pc' = "done"))
    BY <1>13, Zenon DEF Cleanup, Signal, vars
  <2> QED
    BY <2>1, ExitKept, Zenon
<1> QED
  BY <1>2, <1>4, <1>5, <1>6, <1>7, <1>8, <1>9, <1>10, <1>11, <1>12, <1>13,
     ZenonT(60) DEF Next, Steps, Over

\* A packet more in the file.
LEMMA Appended ==
  ASSUME Listed, NEW w, written' = Append(written, w)
  PROVE  /\ Listed'
         /\ Len(written) \in Nat /\ Len(written') = Len(written) + 1
         /\ DOMAIN written = 1..Len(written) /\ DOMAIN written' = 1..(Len(written) + 1)
         /\ \A i \in DOMAIN written : written'[i] = written[i]
         /\ written'[Len(written) + 1] = w
<1> DEFINE S == {written[i] : i \in DOMAIN written} \cup {w}
<1>1. written \in Seq(S) /\ w \in S
  BY DEF Listed
<1> HIDE DEF S
<1>2. written' \in Seq(S) /\ Len(written) \in Nat /\ Len(written') = Len(written) + 1
  BY <1>1
<1>3. /\ DOMAIN written = 1..Len(written) /\ DOMAIN written' = 1..(Len(written) + 1)
      /\ \A i \in DOMAIN written : written'[i] = written[i]
      /\ written'[Len(written) + 1] = w
  BY <1>1
<1>4. Len(written') \in Nat /\ DOMAIN written' = 1..Len(written') /\ written' = [i \in 1..Len(written') |-> written'[i]]
  BY <1>2, LenProperties, ZenonT(60)
<1>5. Listed'
  BY <1>4, IsASeq DEF Listed
<1> QED
  BY <1>2, <1>3, <1>5, Zenon

\* What a call of encode_and_write_subtitle counts.
LEMMA EncodeCounts ==
  ASSUME BenchInv, Listed, UNCHANGED opts, NEW t, NEW sub, NEW of, NEW pts, NEW how,
         Written(encode_and_write_subtitle(Output, t, sub, of, pts, how))
  PROVE  BenchInv'
<1> DEFINE e == encode_and_write_subtitle(Output, t, sub, of, pts, how)
           b == IF opts.bench THEN bench_inc_cues_encoded(bench) ELSE bench
<1>1. written' = e.written /\ bench' = e.bench
  BY Zenon DEF Written
<1>2. Output.tracks = tracks /\ Output.written = written /\ Output.bench = bench
  BY Zenon DEF Output
<1>3. IntMax \in Nat \ {0} /\ bench \in [encoded : 0..IntMax, muxed : 0..IntMax]
  BY ConverterAssumption, Zenon DEF BenchInv
<1>4. /\ b \in [encoded : 0..IntMax, muxed : 0..IntMax]
      /\ b.muxed = bench.muxed /\ b.encoded >= bench.encoded
      /\ opts.bench => b.encoded = IF bench.encoded < IntMax THEN bench.encoded + 1 ELSE bench.encoded
  BY <1>3, SMTT(60) DEF bench_inc_cues_encoded
<1> HIDE DEF b
<1>5. CASE written' = written /\ bench' \in {bench, b}
  BY <1>3, <1>4, <1>5, SMTT(60) DEF BenchInv
<1>6. CASE /\ \E w : written' = Append(written, w)
           /\ bench' = IF opts.bench THEN bench_inc_packets_muxed(b) ELSE b
  <2>1. Len(written) \in Nat /\ Len(written') = Len(written) + 1
    BY <1>6, Appended, Zenon
  <2>2. CASE opts.bench
    <3>1. /\ bench.muxed = (IF Len(written) > IntMax THEN IntMax ELSE Len(written))
          /\ bench.encoded >= bench.muxed
      BY <2>2, Zenon DEF BenchInv
    <3>2. bench' = bench_inc_packets_muxed(b)
      BY <1>6, <2>2, Zenon
    <3>3. /\ bench' \in [encoded : 0..IntMax, muxed : 0..IntMax] /\ bench'.encoded = b.encoded
          /\ bench'.muxed = IF b.muxed < IntMax THEN b.muxed + 1 ELSE b.muxed
      BY <1>3, <1>4, <3>2, SMTT(60) DEF bench_inc_packets_muxed
    <3>4. bench'.muxed = (IF Len(written') > IntMax THEN IntMax ELSE Len(written'))
      BY <1>3, <1>4, <2>1, <3>1, <3>3, SMTT(60)
    <3>5. bench'.encoded >= bench'.muxed
      <4>1. bench.encoded \in 0..IntMax /\ bench.muxed \in 0..IntMax
        BY <1>3, Zenon
      <4> QED
        BY <1>3, <1>4, <2>2, <3>1, <3>3, <4>1, SMTT(60)
    <3> QED
      BY <3>3, <3>4, <3>5, Zenon DEF BenchInv
  <2>3. CASE ~opts.bench
    BY <1>4, <1>6, <2>3, Zenon DEF BenchInv
  <2> QED
    BY <2>2, <2>3, Zenon
<1>7. CASE ~sub.made \/ how \in {"buffer", "encode"}
  <2>1. e = Output
    BY <1>7, Zenon DEF encode_and_write_subtitle
  <2> QED
    BY <1>1, <1>2, <1>5, <2>1, Zenon
<1>8. CASE sub.made /\ how \notin {"buffer", "encode"} /\ how = "packet"
  <2>1. e = [Output EXCEPT !.bench = b]
    BY <1>2, <1>8, Zenon DEF encode_and_write_subtitle, b
  <2>2. e.bench = b /\ e.written = written
    <3> HIDE DEF e
    <3> QED
      BY <2>1, Zenon DEF Output
  <2> QED
    BY <1>1, <1>5, <2>2, Zenon
<1>9. CASE sub.made /\ how \notin {"buffer", "encode", "packet"}
  <2>1. /\ e.bench = IF opts.bench /\ how # "write" THEN bench_inc_packets_muxed(b) ELSE b
        /\ how = "write" => e.written = written
        /\ how # "write" => \E w : e.written = Append(written, w)
    BY <1>2, <1>9, Zenon DEF encode_and_write_subtitle, b
  <2> HIDE DEF e
  <2> QED
    BY <1>1, <1>5, <1>6, <2>1, Zenon
<1> QED
  BY <1>7, <1>8, <1>9, Zenon

\* Only the calls of encode_and_write_subtitle write and count.
LEMMA FileKept ==
  ASSUME [Next]_vars, ~WriteEvent, ~WriteBlank
  PROVE  UNCHANGED <<written, bench>>
<1>1. CASE ParseOptions \/ OptionsFail \/ OpenInput \/ OpenFails \/ PickStream \/ FindEncoder
  BY <1>1, ZenonT(60)
  DEF ParseOptions, OptionsFail, OpenInput, OpenFails, PickStream, FindEncoder, Fail, Crash
<1>2. CASE AddTrack \/ TrackFails \/ StartOutput \/ OutputFails \/ AllocPacket \/ ReadPacket
  BY <1>2, ZenonT(60)
  DEF AddTrack, TrackFails, StartOutput, OutputFails, AllocPacket, ReadPacket, Fail, Crash
<1>3. CASE BlanksDone \/ EndOfInput \/ NextTrack \/ PacketDone
  BY <1>3, ZenonT(60) DEF BlanksDone, EndOfInput, NextTrack, PacketDone
<1>4. CASE Convert \/ ConvertFails
  BY <1>4, ZenonT(60) DEF Convert, ConvertFails, Converted, Crash
<1>5. CASE WriteTrailer \/ Cleanup \/ Signal \/ UNCHANGED vars
  BY <1>5, ZenonT(60) DEF WriteTrailer, Cleanup, Signal, vars
<1> QED
  BY <1>1, <1>2, <1>3, <1>4, <1>5, ZenonT(60) DEF Next, Steps, Over

\* The counters of the benchmark follow the file.
LEMMA BenchSteps ==
  ASSUME Place, BenchInv, Listed, [Next]_vars
  PROVE  BenchInv'
<1>1. UNCHANGED opts
  BY InputFixed, Zenon
<1>2. CASE WriteBlank \/ WriteEvent
  <2>1. PICK sub, of, how : \E pts \in Int :
          Written(encode_and_write_subtitle(Output, ti, sub, of, pts, how))
    BY <1>2, WriteCall, Zenon
  <2> QED
    BY <1>1, <2>1, EncodeCounts, Zenon
<1>3. CASE ~WriteBlank /\ ~WriteEvent
  BY <1>1, <1>3, FileKept, Zenon DEF BenchInv
<1> QED
  BY <1>2, <1>3, Zenon

-----------------------------------------------------------------------------
(* Steps: the times.                                                       *)

\* The time of an event does not depend on the last PTS of its track.
LEMMA OwnTimeKept ==
  ASSUME UNCHANGED media, NEW w, w.track \in DOMAIN tracks,
         tracks'[w.track].stream = tracks[w.track].stream
  PROVE  OwnTime(w)' = OwnTime(w)
<1>1. EventOf(w)' = EventOf(w)
  BY Zenon DEF EventOf
<1>2. \A p : Pts90(p)' = Pts90(p)
  BY Zenon DEF Pts90
<1> QED
  BY <1>1, <1>2, Zenon DEF OwnTime

\* The tracks may go on or go away, never back.
LEMMA TimedKept ==
  ASSUME UNCHANGED <<opts, media, src_fps>>, NEW w, PacketTimed(w),
         \/ tracks' = <<>>
         \/ /\ tracks # <<>> /\ DOMAIN tracks' = DOMAIN tracks
            /\ \A t \in DOMAIN tracks :
                 /\ tracks'[t].stream = tracks[t].stream
                 /\ tracks[t].last \in Int => tracks'[t].last \in Int /\ tracks'[t].last >= tracks[t].last
  PROVE  PacketTimed(w)'
<1>1. CASE tracks' = <<>>
  BY <1>1, Zenon DEF PacketTimed
<1>2. CASE /\ tracks # <<>> /\ DOMAIN tracks' = DOMAIN tracks
           /\ \A t \in DOMAIN tracks :
                /\ tracks'[t].stream = tracks[t].stream
                /\ tracks[t].last \in Int => tracks'[t].last \in Int /\ tracks'[t].last >= tracks[t].last
  <2>1. /\ w.track \in DOMAIN tracks /\ tracks[w.track].last \in Int
        /\ w.pts <= tracks[w.track].last /\ w.pts \in Int
    BY <1>2, Zenon DEF PacketTimed
  <2>2. OwnTime(w)' = OwnTime(w)
    BY <1>2, <2>1, OwnTimeKept, Zenon
  <2>3. tracks'[w.track].last \in Int /\ w.pts <= tracks'[w.track].last
    BY <1>2, <2>1
  <2>4. \A a, b : Nearest(a, b)' <=> Nearest(a, b)
    BY Zenon DEF Nearest
  <2>5. w.of # 0 /\ OwnTime(w)' # NoPts => Nearest(w.asked - opts.delay * 90, OwnTime(w))'
    BY <1>2, <2>2, <2>4, Zenon DEF PacketTimed
  <2> QED
    BY <1>2, <2>1, <2>3, <2>5, ZenonT(60) DEF PacketTimed
<1> QED
  BY <1>1, <1>2, Zenon

\* A step that writes nothing, and leaves the tracks or drops them.
LEMMA TimesKept ==
  ASSUME Place, TimesInv, [Next]_vars, UNCHANGED <<src_fps, written>>,
         pc' \in Early => pc \in Early,
         UNCHANGED tracks \/ tracks' = <<>>
  PROVE  TimesInv'
<1>1. UNCHANGED <<opts, media>> /\ faults \in Nat /\ faults' \in Nat /\ faults' >= faults
  BY InputFixed, FaultsGrow, Zenon DEF Place, Shape
<1>2. Listed' /\ (pc' \in Early => written' = <<>>)
  BY DEF TimesInv, Listed
<1>3. ASSUME NEW w \in {written[i] : i \in DOMAIN written}
      PROVE  PacketTimed(w)'
  <2>1. PacketTimed(w)
    BY Zenon DEF TimesInv
  <2>2. tracks \in Seq(Track)
    BY Zenon DEF Place, Shape
  <2>3. ASSUME UNCHANGED tracks
        PROVE  \A t \in DOMAIN tracks : tracks'[t].last = tracks[t].last /\ tracks'[t].stream = tracks[t].stream
    BY <2>3, Zenon
  <2>4. \A t \in DOMAIN tracks : tracks[t].last \in Int => tracks[t].last >= tracks[t].last
    OBVIOUS
  <2> QED
    BY <1>1, <2>1, <2>3, <2>4, TimedKept, Zenon
<1>4. \A i, j \in DOMAIN written' :
        j < i /\ written'[j].track = written'[i].track => written'[j].pts < written'[i].pts
  BY Zenon DEF TimesInv
<1>5. ASSUME faults' = 0
      PROVE  /\ \A i \in DOMAIN written' : written'[i].pts > written'[i].asked =>
                  \E j \in 1..(i - 1) : /\ written'[j].track = written'[i].track
                                        /\ written'[j].pts + 90 = written'[i].pts
             /\ \A t \in DOMAIN tracks' : tracks'[t].last # NoPts =>
                  \E i \in DOMAIN written' : written'[i].track = t /\ written'[i].pts = tracks'[t].last
  <2>1. faults = 0
    BY <1>1, <1>5
  <2>2. DOMAIN <<>> = {}
    OBVIOUS
  <2> QED
    BY <2>1, <2>2, ZenonT(60) DEF TimesInv
<1> QED
  BY <1>2, <1>3, <1>4, <1>5 DEF TimesInv

\* Packet w is made of the event in hand.
MadeInHand(w) ==
  /\ w.of = (IF cur.flush THEN Len(media.packets) + 1 ELSE pos) /\ w.track = ti
  /\ w.asked = Timed(ChosenPts(cur.event, cur.flush))

\* Where such a packet comes from.
LEMMA InHandSource ==
  ASSUME Place, pc = "write", NEW w, MadeInHand(w)
  PROVE  /\ w.track \in DOMAIN tracks
         /\ w.of \in 0..(Len(media.packets) + 1) /\ w.of # 0
         /\ w.of <= Len(media.packets) => ~cur.flush /\ w.of = pos /\ pos \in 1..Len(media.packets)
         /\ EventOf(w) = cur.event
<1>1. /\ ti \in DOMAIN tracks /\ cur.flush \in BOOLEAN
      /\ cur.event = IF cur.flush THEN media.flush[tracks[ti].stream] ELSE media.packets[pos].event
      /\ ~cur.flush => pos > 0
  BY Zenon DEF Place, InHand
<1>2. pos \in 0..Len(media.packets) /\ Len(media.packets) \in Nat
  <2>1. pos \in 0..Len(media.packets) /\ Shape
    BY Zenon DEF Place, Shape
  <2> QED
    BY <2>1, MediaTyped, Zenon DEF IsMedia
<1>3. w.track = ti
  BY Zenon DEF MadeInHand
<1>4. CASE cur.flush
  <2>1. w.of = Len(media.packets) + 1
    BY <1>4, Zenon DEF MadeInHand
  <2>2. w.of \in 0..(Len(media.packets) + 1) /\ w.of # 0 /\ w.of > Len(media.packets)
    BY <1>2, <2>1, SMTT(60)
  <2>3. EventOf(w) = cur.event
    BY <1>1, <1>3, <1>4, <2>2, Zenon DEF EventOf
  <2> QED
    BY <1>1, <1>2, <1>3, <2>2, <2>3
<1>5. CASE ~cur.flush
  <2>1. w.of = pos /\ pos > 0
    BY <1>1, <1>5, Zenon DEF MadeInHand
  <2>2. /\ w.of \in 0..(Len(media.packets) + 1) /\ w.of # 0 /\ ~(w.of > Len(media.packets))
        /\ pos \in 1..Len(media.packets)
    BY <1>2, <2>1, SMTT(60)
  <2>3. EventOf(w) = cur.event
    BY <1>1, <1>5, <2>1, <2>2, Zenon DEF EventOf
  <2> QED
    BY <1>1, <1>3, <1>5, <2>1, <2>2, <2>3, Zenon
<1> QED
  BY <1>1, <1>4, <1>5, Zenon

\* The time chosen for it is its own, where it has one.
LEMMA ChosenOwn ==
  ASSUME Place, pc = "write", NEW w, MadeInHand(w), OwnTime(w) # NoPts
  PROVE  ChosenPts(cur.event, cur.flush) = OwnTime(w) /\ OwnTime(w) \in Int
<1>1. EventOf(w) = cur.event
  BY InHandSource, Zenon
<1>2. CASE cur.event.pts \notin {NoPts, 0}
  <2>1. ChosenPts(cur.event, cur.flush) = Rescaled(cur.event.pts) /\ OwnTime(w) = Rescaled(cur.event.pts)
    BY <1>1, <1>2, Zenon DEF ChosenPts, OwnTime
  <2>2. cur.event.pts \in Int
    BY <1>2, EventTimed, Zenon
  <2>3. Rescaled(cur.event.pts) \in Int
    BY <2>2, SMTT(60) DEF Rescaled
  <2> QED
    BY <2>1, <2>3, Zenon
<1>3. CASE cur.event.pts \in {NoPts, 0}
  <2>1. w.of <= Len(media.packets) /\ OwnTime(w) = Pts90(media.packets[w.of])
    BY <1>1, <1>3, ZenonT(60) DEF OwnTime
  <2>2. ~cur.flush /\ w.of = pos /\ pos \in 1..Len(media.packets)
    BY <2>1, InHandSource, Zenon
  <2>3. ChosenPts(cur.event, cur.flush) = OwnTime(w)
    BY <1>3, <2>1, <2>2, Zenon DEF ChosenPts
  <2>4. Shape
    BY Zenon DEF Place
  <2>5. OwnTime(w) \in Int
    BY <2>1, <2>2, <2>4, PacketPts, Zenon
  <2> QED
    BY <2>3, <2>5, Zenon
<1> QED
  BY <1>2, <1>3, Zenon

\* The time of the event in hand: what OwnTime tells of the packet made of it.
LEMMA AskedOwn ==
  ASSUME Place, pc = "write", UNCHANGED <<opts, media, src_fps>>, NEW w, MadeInHand(w),
         tracks'[ti].stream = tracks[ti].stream
  PROVE  /\ w.of \in 0..(Len(media.packets) + 1)
         /\ OwnTime(w)' # NoPts => Nearest(w.asked - opts.delay * 90, OwnTime(w))'
<1>1. w.of \in 0..(Len(media.packets) + 1) /\ w.track \in DOMAIN tracks /\ w.track = ti
  BY InHandSource, Zenon DEF MadeInHand
<1>2. OwnTime(w)' = OwnTime(w)
  BY <1>1, OwnTimeKept, Zenon
<1>3. ASSUME OwnTime(w) # NoPts
      PROVE  Nearest(w.asked - opts.delay * 90, OwnTime(w))
  <2> DEFINE c == ChosenPts(cur.event, cur.flush)
  <2>1. c = OwnTime(w) /\ c \in Int
    BY <1>3, ChosenOwn, Zenon
  <2>2. w.asked = Timed(c)
    BY Zenon DEF MadeInHand
  <2> HIDE DEF c
  <2>3. opts.delay \in Int /\ opts.dst \in Int /\ src_fps \in Int
    BY MediaTyped, Zenon DEF Place, Shape
  <2>4. Scaled(c) \in Int /\ Nearest(Scaled(c), c)
    BY <2>1, <2>3, ScaledNearest, Zenon
  <2>5. w.asked - opts.delay * 90 = Scaled(c)
    BY <2>2, <2>3, <2>4 DEF Timed
  <2> QED
    BY <2>1, <2>4, <2>5, Zenon
<1>4. \A a, b : Nearest(a, b)' <=> Nearest(a, b)
  BY Zenon DEF Nearest
<1> QED
  BY <1>1, <1>2, <1>3, <1>4, ZenonT(60)

\* A call of encode_and_write_subtitle that goes as far as to set the PTS of its track
\* keeps the packets before it timed.
LEMMA TimedBefore ==
  ASSUME Place, TimesInv, UNCHANGED <<opts, media, src_fps>>, ti \in 1..Len(tracks),
         NEW pts \in Int, tracks' = [tracks EXCEPT ![ti].last = Later(tracks[ti].last, pts)],
         NEW w \in {written[i] : i \in DOMAIN written}
  PROVE  PacketTimed(w)'
<1>1. Shape /\ tracks \in Seq(Track)
  BY Zenon DEF Place, Shape
<1>2. tracks[ti].last \in Int \cup {NoPts}
  <2>1. tracks[ti] \in Track
    BY <1>1
  <2> QED
    BY <2>1, Zenon DEF Track
<1> DEFINE at == Later(tracks[ti].last, pts)
<1>3. at \in Int /\ (tracks[ti].last # NoPts => at > tracks[ti].last)
  BY <1>2, LaterFacts, ZenonT(60)
<1> HIDE DEF at
<1>4. /\ DOMAIN tracks' = DOMAIN tracks /\ tracks'[ti].last = at
      /\ \A t \in DOMAIN tracks : /\ tracks'[t].stream = tracks[t].stream
                                  /\ t # ti => tracks'[t] = tracks[t]
  BY <1>1, <1>3, EncodeTracks, Zenon DEF at
<1>5. tracks # <<>> /\ NoPts \notin Int
  BY <1>1, ConverterAssumption
<1>6. ASSUME NEW t \in DOMAIN tracks, tracks[t].last \in Int
      PROVE  tracks'[t].last \in Int /\ tracks'[t].last >= tracks[t].last
  <2>1. CASE t = ti
    BY <1>3, <1>4, <1>5, <1>6, <2>1, SMTT(60)
  <2>2. CASE t # ti
    BY <1>4, <1>6, <2>2
  <2> QED
    BY <2>1, <2>2, Zenon
<1>7. PacketTimed(w)
  BY Zenon DEF TimesInv
<1> QED
  BY <1>4, <1>5, <1>6, <1>7, TimedKept, Zenon

\* A call that ends with a failing write: only the PTS of the track goes on.
LEMMA TimesUnwritten ==
  ASSUME Place, TimesInv, UNCHANGED <<opts, media, src_fps, written>>, ti \in 1..Len(tracks),
         NEW pts \in Int, tracks' = [tracks EXCEPT ![ti].last = Later(tracks[ti].last, pts)],
         faults' # 0, pc' \notin Early
  PROVE  TimesInv'
<1>1. Listed'
  BY DEF TimesInv, Listed
<1>2. \A w \in {written[i] : i \in DOMAIN written} : PacketTimed(w)'
  BY TimedBefore, ZenonT(60)
<1>3. \A i, j \in DOMAIN written' :
        j < i /\ written'[j].track = written'[i].track => written'[j].pts < written'[i].pts
  BY Zenon DEF TimesInv
<1> QED
  BY <1>1, <1>2, <1>3, Zenon DEF TimesInv

\* A packet more: later than those of its track before it, and not early.
LEMMA TimesWritten ==
  ASSUME Place, TimesInv, UNCHANGED <<opts, media, src_fps>>, ti \in 1..Len(tracks),
         faults \in Nat, faults' \in Nat, faults' = 0 => faults = 0, pc' \notin Early,
         NEW pts \in Int, tracks' = [tracks EXCEPT ![ti].last = Later(tracks[ti].last, pts)],
         NEW w, w.track = ti, w.pts = Later(tracks[ti].last, pts), w.asked = pts,
         w.of \in 0..(Len(media.packets) + 1),
         w.of # 0 /\ OwnTime(w)' # NoPts => Nearest(w.asked - opts.delay * 90, OwnTime(w))',
         written' = Append(written, w)
  PROVE  TimesInv'
<1> DEFINE n == Len(written)
           at == Later(tracks[ti].last, pts)
<1>1. Shape /\ tracks \in Seq(Track) /\ Listed
  BY Zenon DEF Place, Shape, TimesInv
<1>2. tracks[ti].last \in Int \cup {NoPts}
  <2>1. tracks[ti] \in Track
    BY <1>1
  <2> QED
    BY <2>1, Zenon DEF Track
<1>3. /\ at \in Int /\ at >= pts
      /\ tracks[ti].last # NoPts => at > tracks[ti].last
      /\ at > pts => tracks[ti].last # NoPts /\ at = tracks[ti].last + 90
  BY <1>2, LaterFacts, ZenonT(60)
<1>4. at = w.pts
  BY Zenon
<1> HIDE DEF at
<1>5. /\ DOMAIN tracks' = DOMAIN tracks /\ tracks'[ti].last = at
      /\ \A t \in DOMAIN tracks : t # ti => tracks'[t] = tracks[t]
  BY <1>1, <1>3, EncodeTracks, Zenon DEF at
<1>6. tracks # <<>> /\ NoPts \notin Int /\ ti \in DOMAIN tracks
  BY <1>1, ConverterAssumption
<1>7. /\ Listed' /\ n \in Nat
      /\ DOMAIN written = 1..n /\ DOMAIN written' = 1..(n + 1)
      /\ \A i \in DOMAIN written : written'[i] = written[i]
      /\ written'[n + 1] = w
  BY <1>1, Appended, Zenon
<1> HIDE DEF n
<1>8. ASSUME NEW v \in {written'[i] : i \in DOMAIN written'}
      PROVE  PacketTimed(v)'
  <2>1. CASE v \in {written[i] : i \in DOMAIN written}
    BY <2>1, TimedBefore, ZenonT(60)
  <2>2. CASE v = w
    <3>1. /\ w.pts \in Int /\ w.asked \in Int /\ w.pts >= w.asked
          /\ w.track \in DOMAIN tracks' /\ tracks'[w.track].last \in Int
          /\ w.pts <= tracks'[w.track].last
      BY <1>3, <1>4, <1>5, <1>6
    <3>2. PacketTimed(w)'
      BY <3>1, ZenonT(60) DEF PacketTimed
    <3> QED
      BY <2>2, <3>2, Zenon
  <2>3. v \in {written[i] : i \in DOMAIN written} \/ v = w
    <3>1. PICK i \in 1..(n + 1) : v = written'[i]
      BY <1>7, Zenon
    <3>2. i \in 1..n \/ i = n + 1
      BY <1>7
    <3> QED
      BY <1>7, <3>1, <3>2, Zenon
  <2> QED
    BY <2>1, <2>2, <2>3, Zenon
<1>9. ASSUME NEW j \in 1..n, written[j].track = ti
      PROVE  written[j].pts < at
  <2>1. PacketTimed(written[j])
    BY <1>7, Zenon DEF TimesInv
  <2>2. written[j].pts \in Int /\ tracks[ti].last \in Int /\ written[j].pts <= tracks[ti].last
    BY <1>6, <1>9, <2>1, Zenon DEF PacketTimed
  <2> QED
    BY <1>3, <1>6, <2>2
<1>10. ASSUME NEW i \in DOMAIN written', NEW j \in DOMAIN written', j < i,
              written'[j].track = written'[i].track
       PROVE  written'[j].pts < written'[i].pts
  <2>1. (i \in 1..n \/ i = n + 1) /\ j \in 1..n
    BY <1>7, <1>10
  <2>2. CASE i \in 1..n
    BY <1>7, <1>10, <2>1, <2>2, SMTT(60) DEF TimesInv
  <2>3. CASE i = n + 1
    <3>1. written'[i] = w /\ written'[j] = written[j]
      BY <1>7, <2>1, <2>3, Zenon
    <3>2. written[j].track = ti
      BY <1>10, <3>1, Zenon
    <3> QED
      BY <1>4, <1>9, <2>1, <3>1, <3>2
  <2> QED
    BY <2>1, <2>2, <2>3
<1>11. ASSUME faults' = 0, NEW i \in DOMAIN written', written'[i].pts > written'[i].asked
       PROVE  \E j \in 1..(i - 1) : /\ written'[j].track = written'[i].track
                                    /\ written'[j].pts + 90 = written'[i].pts
  <2>1. faults = 0
    BY <1>11, Zenon
  <2>2. i \in 1..n \/ i = n + 1
    BY <1>7
  <2>3. CASE i \in 1..n
    <3>1. PICK j \in 1..(i - 1) : /\ written[j].track = written[i].track
                                  /\ written[j].pts + 90 = written[i].pts
      BY <1>7, <1>11, <2>1, <2>3 DEF TimesInv
    <3>2. j \in 1..n
      BY <1>7, <2>3
    <3> QED
      BY <1>7, <2>3, <3>1, <3>2, ZenonT(60)
  <2>4. CASE i = n + 1
    <3>1. at > pts
      BY <1>4, <1>7, <1>11, <2>4, Zenon
    <3>2. tracks[ti].last # NoPts /\ at = tracks[ti].last + 90
      BY <1>3, <3>1, Zenon
    <3>3. PICK j \in DOMAIN written : written[j].track = ti /\ written[j].pts = tracks[ti].last
      BY <1>6, <2>1, <3>2, Zenon DEF TimesInv
    <3>4. j \in 1..(i - 1) /\ written'[j] = written[j] /\ written'[i] = w
      BY <1>7, <2>4, <3>3
    <3> QED
      BY <1>4, <3>2, <3>3, <3>4, ZenonT(60)
  <2> QED
    BY <2>2, <2>3, <2>4, Zenon
<1>12. ASSUME faults' = 0, NEW t \in DOMAIN tracks', tracks'[t].last # NoPts
       PROVE  \E i \in DOMAIN written' : written'[i].track = t /\ written'[i].pts = tracks'[t].last
  <2>1. faults = 0
    BY <1>12, Zenon
  <2>2. CASE t = ti
    <3>1. n + 1 \in DOMAIN written'
      BY <1>7
    <3> QED
      BY <1>4, <1>5, <1>7, <2>2, <3>1
  <2>3. CASE t # ti
    <3>1. tracks'[t] = tracks[t] /\ t \in DOMAIN tracks
      BY <1>5, <2>3, Zenon
    <3>2. PICK i \in DOMAIN written : written[i].track = t /\ written[i].pts = tracks[t].last
      BY <1>12, <2>1, <3>1, ZenonT(60) DEF TimesInv
    <3>3. i \in DOMAIN written' /\ written'[i] = written[i]
      BY <1>7
    <3> QED
      BY <3>1, <3>2, <3>3, Zenon
  <2> QED
    BY <2>2, <2>3, Zenon
<1> QED
  BY <1>7, <1>8, <1>10, <1>11, <1>12, ZenonT(60) DEF TimesInv

\* The steps that write nothing.
LEMMA TimesQuiet ==
  ASSUME Place, TimesInv, [Next]_vars, ~WriteBlank, ~WriteEvent
  PROVE  TimesInv'
<1>1. UNCHANGED <<written, opts, media>>
  BY FileKept, InputFixed, Zenon
<1>2. CASE OpenInput
  <2>1. written = <<>> /\ UNCHANGED tracks
    BY <1>2, Zenon DEF OpenInput, TimesInv, Early
  <2>2. faults' = faults
    BY <1>2, Zenon DEF OpenInput
  <2> QED
    BY <1>1, <2>1, <2>2, SMTT(60) DEF TimesInv, Listed
<1>3. CASE AddTrack
  <2>1. /\ written = <<>> /\ tracks \in Seq(Track) /\ UNCHANGED faults
    BY <1>3, ZenonT(60) DEF AddTrack, TimesInv, Early, Place, Shape
  <2>2. PICK r : r.last = NoPts /\ tracks' = Append(tracks, r)
    BY <1>3, Zenon DEF AddTrack
  <2>3. tracks \in Seq(Track \cup {r}) /\ r \in Track \cup {r}
    BY <2>1
  <2>4. \A t \in DOMAIN tracks' : (t \in DOMAIN tracks /\ tracks'[t] = tracks[t]) \/ tracks'[t] = r
    BY <2>2, <2>3, SMTT(60)
  <2>5. faults = 0 => \A t \in DOMAIN tracks : tracks[t].last = NoPts
    BY <2>1 DEF TimesInv
  <2>6. faults' = 0 => \A t \in DOMAIN tracks' : tracks'[t].last = NoPts
    BY <2>1, <2>2, <2>4, <2>5, Zenon
  <2> QED
    BY <1>1, <2>1, <2>6, SMTT(60) DEF TimesInv, Listed
<1>4. CASE ParseOptions \/ OptionsFail \/ OpenFails \/ PickStream \/ FindEncoder \/ TrackFails
           \/ StartOutput \/ OutputFails
  <2>1. UNCHANGED <<src_fps, tracks>>
    BY <1>4, ZenonT(60)
    DEF ParseOptions, OptionsFail, OpenFails, PickStream, FindEncoder, TrackFails, StartOutput,
        OutputFails, Fail, Crash
  <2>2. pc \in Early
    BY <1>4, ZenonT(60)
    DEF ParseOptions, OptionsFail, OpenFails, PickStream, FindEncoder, TrackFails, StartOutput,
        OutputFails, Early
  <2> QED
    BY <1>1, <2>1, <2>2, TimesKept, Zenon
<1>5. CASE AllocPacket \/ ReadPacket \/ BlanksDone \/ EndOfInput \/ NextTrack \/ PacketDone \/ WriteTrailer
  <2>1. UNCHANGED <<src_fps, tracks>> /\ pc' \notin Early
    BY <1>5, ZenonT(60)
    DEF AllocPacket, ReadPacket, BlanksDone, EndOfInput, NextTrack, PacketDone, WriteTrailer, Crash, Early
  <2> QED
    BY <1>1, <2>1, TimesKept, Zenon
<1>6. CASE Convert \/ ConvertFails
  <2>1. Crash \/ \E bm, copied : Converted(Decoded, bm, copied)
    BY <1>6, ZenonT(60) DEF Convert, ConvertFails
  <2>2. UNCHANGED <<src_fps, tracks>> /\ pc' \notin Early
    BY <2>1, Zenon DEF Crash, Converted, Early
  <2> QED
    BY <1>1, <2>2, TimesKept, Zenon
<1>7. CASE Cleanup
  <2>1. UNCHANGED src_fps /\ tracks' = <<>> /\ pc' \notin Early
    BY <1>7, Zenon DEF Cleanup, Early
  <2> QED
    BY <1>1, <2>1, TimesKept, Zenon
<1>8. CASE Signal \/ UNCHANGED vars
  <2>1. UNCHANGED <<pc, src_fps, tracks>>
    BY <1>8, Zenon DEF Signal, vars
  <2> QED
    BY <1>1, <2>1, TimesKept, Zenon
<1> QED
  BY <1>2, <1>3, <1>4, <1>5, <1>6, <1>7, <1>8, ZenonT(60) DEF Next, Steps, Over

\* Every step keeps the times of the packets.
LEMMA TimesSteps ==
  ASSUME Place, TimesInv, [Next]_vars
  PROVE  TimesInv'
<1>1. CASE WriteBlank \/ WriteEvent
  <2>1. /\ Shape /\ UNCHANGED <<opts, media, src_fps, pos>> /\ ti \in 1..Len(tracks)
        /\ faults \in Nat /\ faults' \in Nat
    BY <1>1, WriteCall, FaultsGrow, Zenon DEF Place, Shape
  <2>2. PICK sub, of, how :
          \E pts \in Int :
            /\ Written(encode_and_write_subtitle(Output, ti, sub, of, pts, how))
            /\ faults' = 0 => how = "done" /\ faults = 0
            /\ \/ WriteBlank /\ of = 0
               \/ /\ WriteEvent /\ pts = Timed(ChosenPts(cur.event, cur.flush))
                  /\ of = IF cur.flush THEN Len(media.packets) + 1 ELSE pos
    BY <1>1, WriteCall, Zenon
  <2>3. PICK pts \in Int :
          /\ Written(encode_and_write_subtitle(Output, ti, sub, of, pts, how))
          /\ faults' = 0 => how = "done" /\ faults = 0
          /\ \/ WriteBlank /\ of = 0
             \/ /\ WriteEvent /\ pts = Timed(ChosenPts(cur.event, cur.flush))
                /\ of = IF cur.flush THEN Len(media.packets) + 1 ELSE pos
    BY <2>2, Zenon
  <2>4. pc' \notin Early
    BY <1>1, Zenon DEF WriteBlank, WriteEvent, Early
  <2> DEFINE at == Later(tracks[ti].last, pts)
             w == [track |-> ti, of |-> of, pts |-> at, asked |-> pts, sub |-> sub]
  <2>5. \/ UNCHANGED <<tracks, written>>
        \/ /\ tracks' = [tracks EXCEPT ![ti].last = at]
           /\ \/ how = "write" /\ UNCHANGED written
              \/ how # "write" /\ written' = Append(written, w)
    BY <2>1, <2>3, EncodeEffect, Zenon
  <2>6. CASE UNCHANGED <<tracks, written>>
    BY <2>1, <2>4, <2>6, TimesKept, Zenon
  <2>7. CASE tracks' = [tracks EXCEPT ![ti].last = at] /\ how = "write" /\ UNCHANGED written
    <3>1. faults' # 0
      BY <2>3, <2>7, Zenon
    <3> QED
      BY <2>1, <2>4, <2>7, <3>1, TimesUnwritten, ZenonT(60)
  <2>8. CASE tracks' = [tracks EXCEPT ![ti].last = at] /\ written' = Append(written, w)
    <3>1. w.track = ti /\ w.of = of /\ w.pts = at /\ w.asked = pts
      BY Zenon
    <3>2. PICK v : v = w
      BY ZenonT(60)
    <3> HIDE DEF w
    <3>3. tracks # <<>> /\ tracks \in Seq(Track) /\ Len(media.packets) \in Nat
      <4>1. tracks \in Seq(Track)
        BY <2>1, Zenon DEF Shape
      <4>2. tracks # <<>>
        BY <2>1, <4>1
      <4>3. Len(media.packets) \in Nat
        BY <2>1, MediaTyped, Zenon DEF IsMedia
      <4> QED
        BY <4>1, <4>2, <4>3, Zenon
    <3>4. tracks'[ti].stream = tracks[ti].stream
      <4>1. tracks[ti].last \in Int \cup {NoPts}
        <5>1. tracks[ti] \in Track
          BY <2>1, <3>3
        <5> QED
          BY <5>1, Zenon DEF Track
      <4>2. at \in Int
        BY <4>1, LaterFacts, ZenonT(60)
      <4> HIDE DEF at
      <4> QED
        BY <2>1, <2>8, <3>3, <4>2, EncodeTracks
    <3>5. /\ v.of \in 0..(Len(media.packets) + 1)
          /\ v.of # 0 /\ OwnTime(v)' # NoPts => Nearest(v.asked - opts.delay * 90, OwnTime(v))'
      <4>1. CASE of = 0
        BY <3>1, <3>2, <3>3, <4>1, SMTT(60)
      <4>2. CASE /\ WriteEvent /\ pts = Timed(ChosenPts(cur.event, cur.flush))
                 /\ of = IF cur.flush THEN Len(media.packets) + 1 ELSE pos
        <5>1. pc = "write"
          BY <4>2, Zenon DEF WriteEvent
        <5>2. MadeInHand(v)
          BY <3>1, <3>2, <4>2, ZenonT(60) DEF MadeInHand
        <5> QED
          BY <2>1, <3>3, <3>4, <5>1, <5>2, AskedOwn, SMTT(60)
      <4> QED
        BY <2>3, <4>1, <4>2, Zenon
    <3>6. v.track = ti /\ v.pts = at /\ v.asked = pts /\ written' = Append(written, v)
      BY <2>8, <3>1, <3>2, Zenon
    <3>7. faults' = 0 => faults = 0
      BY <2>3, Zenon
    <3> QED
      BY <2>1, <2>4, <2>8, <3>5, <3>6, <3>7, TimesWritten, ZenonT(60)
  <2> QED
    BY <2>5, <2>6, <2>7, <2>8, Zenon
<1>2. CASE ~WriteBlank /\ ~WriteEvent
  BY <1>2, TimesQuiet, Zenon
<1> QED
  BY <1>1, <1>2, Zenon

-----------------------------------------------------------------------------
(* The theorems.                                                           *)

ConverterInv == Place /\ CacheInv /\ HeldInv /\ ExitInv /\ BenchInv /\ TimesInv

\* In every run of main the event in hand is the one its track has got, the cache
\* holds at most one buffer of a size, what is allocated is known, and the packets of
\* the file are timed.
THEOREM ConverterInvariant == Spec => []ConverterInv
<1>1. ASSUME Init
      PROVE  ConverterInv
  <2>1. Place
    BY <1>1, InitPlace, Zenon
  <2>2. CacheInv
    BY <1>1, Zenon DEF Init, CacheInv, Cached, NoBuckets
  <2>3. HeldInv /\ ExitInv
    BY <1>1, ZenonT(60) DEF Init, HeldInv, ExitInv
  <2>4. written = <<>> /\ tracks = <<>> /\ bench = [encoded |-> 0, muxed |-> 0] /\ faults = 0
    BY <1>1, Zenon DEF Init
  <2>5. BenchInv
    BY <2>4, ConverterAssumption, SMTT(60) DEF BenchInv
  <2>6. TimesInv
    <3>1. DOMAIN <<>> = {} /\ <<>> \in Seq({})
      OBVIOUS
    <3> QED
      BY <2>4, <3>1, Zenon DEF TimesInv, Listed
  <2> QED
    BY <2>1, <2>2, <2>3, <2>5, <2>6, Zenon DEF ConverterInv
<1>2. ASSUME ConverterInv, [Next]_vars
      PROVE  ConverterInv'
  <2>1. Place' /\ CacheInv' /\ HeldInv' /\ ExitInv'
    BY <1>2, PlaceSteps, CacheSteps, HeldSteps, ExitSteps, Zenon DEF ConverterInv
  <2>2. TimesInv' /\ BenchInv'
    BY <1>2, TimesSteps, BenchSteps, ZenonT(60) DEF ConverterInv, TimesInv
  <2> QED
    BY <2>1, <2>2, Zenon DEF ConverterInv
<1> QED
  BY <1>1, <1>2, PTL DEF Spec

\* A buffer pool_alloc hands out was cached under its own size, and no size has two,
\* whichever allocations of make_subtitle fail.
THEOREM ConverterCacheSound == Spec => []CacheSound
<1>1. ASSUME ConverterInv
      PROVE  CacheSound
  <2>1. Cached(buckets)
    BY <1>1, Zenon DEF ConverterInv, CacheInv
  <2>2. ASSUME NEW s \in DOMAIN buckets
        PROVE  Len(buckets[s]) <= 1 /\ \A i \in DOMAIN buckets[s] : buckets[s][i] = s
    <3>1. CASE buckets[s] = <<>>
      BY <3>1
    <3>2. CASE buckets[s] = <<s>>
      BY <3>2
    <3> QED
      BY <2>1, <3>1, <3>2, Zenon DEF Cached
  <2> QED
    BY <2>2, Zenon DEF CacheSound
<1> QED
  BY <1>1, ConverterInvariant, PTL

\* Once its options are accepted main returns 0 just when it came to the trailer, frees
\* what it took, crashes only for the reasons given, and its benchmark tells what is in
\* the file.
THEOREM ConverterExitTruthful == Spec => []ExitTruthful
<1>1. ASSUME ConverterInv
      PROVE  ExitTruthful
  <2>1. pc = "done" /\ opts.ends = "" => (ret = 0 <=> out \in {"complete", "damaged"})
    BY <1>1, ZenonT(60) DEF ConverterInv, ExitInv
  <2>2. /\ pc = "done" /\ opts.ends = "" /\ ret # 1 => held \subseteq MainHolds({"last_png"})
        /\ pc \in {"read", "cleanup"} => held \cap MainHolds({"idxbuf", "palette"}) = {}
    BY <1>1, Zenon DEF ConverterInv, HeldInv
  <2>3. pc = "crashed" =>
          \/ ~media.opens \/ faults > 0
          \/ /\ codec_width >= Uhd
             /\ \E s \in DOMAIN media.flush :
                  media.flush[s].kind \notin {"none", "clear"} /\ media.flush[s].w = 0
    BY <1>1, ZenonT(60) DEF ConverterInv, ExitInv
  <2>4. opts.bench => /\ bench.muxed = (IF Len(written) > IntMax THEN IntMax ELSE Len(written))
                      /\ bench.encoded >= bench.muxed
    BY <1>1, Zenon DEF ConverterInv, BenchInv
  <2> QED
    BY <2>1, <2>2, <2>3, <2>4, ZenonT(60) DEF ExitTruthful
<1> QED
  BY <1>1, ConverterInvariant, PTL

\* The packets of a track have increasing PTS, each at the time of its event in the
\* new frame rate or 1 ms after the packet before it, for every file, delay and pair
\* of frame rates.
THEOREM ConverterTimesSound == Spec => []TimesSound
<1>1. ASSUME ConverterInv
      PROVE  TimesSound
  <2>1. TimesInv /\ Listed
    BY <1>1, Zenon DEF ConverterInv, TimesInv
  <2>2. DOMAIN written = 1..Len(written) /\ Len(written) \in Nat
    BY <2>1 DEF Listed
  <2>3. ASSUME NEW i \in DOMAIN written
        PROVE  LET w == written[i]
                   off == w.asked - opts.delay * 90
                   prev == {j \in 1..(i - 1) : written[j].track = w.track /\ written[j].pts + 90 = w.pts}
               IN  /\ \A j \in 1..(i - 1) : written[j].track = w.track => written[j].pts < w.pts
                   /\ tracks # <<>> /\ w.of # 0 /\ OwnTime(w) # NoPts =>
                        /\ IF opts.dst > 0 /\ src_fps > 0
                           THEN 2 * (off * opts.dst - OwnTime(w) * src_fps) \in (-opts.dst)..opts.dst
                           ELSE off = OwnTime(w)
                        /\ w.pts >= w.asked
                        /\ w.pts > w.asked /\ faults = 0 => prev # {}
    <3>1. PacketTimed(written[i])
      BY <2>1, ZenonT(60) DEF TimesInv
    <3>2. ASSUME NEW j \in 1..(i - 1), written[j].track = written[i].track
          PROVE  written[j].pts < written[i].pts
      <4>1. j \in DOMAIN written /\ j < i
        BY <2>2, SMTT(60)
      <4> QED
        BY <2>1, <3>2, <4>1, Zenon DEF TimesInv
    <3>3. written[i].pts >= written[i].asked
      BY <3>1, Zenon DEF PacketTimed
    <3>4. ASSUME tracks # <<>>, written[i].of # 0, OwnTime(written[i]) # NoPts
          PROVE  Nearest(written[i].asked - opts.delay * 90, OwnTime(written[i]))
      BY <3>1, <3>4, ZenonT(60) DEF PacketTimed
    <3>5. ASSUME faults = 0, written[i].pts > written[i].asked
          PROVE  \E j \in 1..(i - 1) : /\ written[j].track = written[i].track
                                       /\ written[j].pts + 90 = written[i].pts
      BY <2>1, <3>5, Zenon DEF TimesInv
    <3> QED
      BY <3>2, <3>3, <3>4, <3>5, ZenonT(60) DEF Nearest
  <2> QED
    BY <2>3, Zenon DEF TimesSound
<1> QED
  BY <1>1, ConverterInvariant, PTL

================================================================================
