-------------------------------- MODULE Converter --------------------------------
(***************************************************************************)
(* src/dvdbr2dvbsub.c, the program that turns the bitmap subtitles of a    *)
(* DVD or Blu-ray into DVB subtitles: main from its options to its         *)
(* cleanup, with the conversion of pictures, the choice of PTS and         *)
(* encode_and_write_subtitle.                                              *)
(*                                                                         *)
(* A picture is rows of pixels: bytes of red, green, blue and alpha when   *)
(* the decoder gives RGBA, indices into a palette of 32-bit words          *)
(* otherwise.  main looks at the first rectangle of an event only, and     *)
(* drops any other (lines 809 and 1084): an event here is its first one.   *)
(* What the encoder and the muxer put into the file is recorded in         *)
(* written.                                                                *)
(***************************************************************************)
EXTENDS SubtitleBuffers, FiniteSets, Functions

CONSTANTS
  CommandLines,  \* the options the program may be called with
  Media,         \* the files it may read
  MaxTracks,     \* length of tracks[], 8 in the code
  MaxColors,     \* colours of a converted RGBA picture, 16 in the code
  Hd, Uhd,       \* the widths 1920 and 3840 of the code
  Width,         \* the width before a video is seen, video_w
  IntMax,        \* INT_MAX
  MaxFaults,     \* bound on the library calls and allocations that fail
  NoPts          \* AV_NOPTS_VALUE

Nothing == [kind |-> "none"]

\* What a decoder gives: nothing, or an event with a picture of w columns and h rows.
\* A palette of libavcodec has room for AVPALETTE_SIZE bytes, whatever it tells; an event
\* without a picture has no width.
IsEvent(e) ==
  \/ e = Nothing
  \/ /\ e.kind \in {"rgba", "indexed", "clear", "text"}
     /\ e.w \in Nat /\ e.h \in Nat /\ e.stride \in Int
     /\ e.colors \in 0..PaletteMax /\ e.linesize \in 0..(4 * PaletteMax)
     /\ e.kind = "indexed" => DOMAIN e.palette = 1..PaletteMax
     /\ e.kind \in {"clear", "text"} => e.w = 0
     /\ e.pts \in Int \cup {NoPts}
     /\ Len(e.img) = e.h /\ DOMAIN e.img = 1..e.h
     /\ \A y \in 1..e.h : Len(e.img[y]) = e.w /\ DOMAIN e.img[y] = 1..e.w

\* An input file: its streams, its packets with what their decoder makes of them, and
\* what the decoder of a stream holds back until the end.
IsMedia(m) ==
  /\ Len(m.streams) \in Nat /\ DOMAIN m.streams = 1..Len(m.streams)
  /\ \A i \in DOMAIN m.streams : m.streams[i].tick \in Nat
  /\ Len(m.packets) \in Nat
  /\ \A i \in 1..Len(m.packets) :
       LET p == m.packets[i]
       IN  p.stream \in 1..Len(m.streams) /\ p.pts \in Int \cup {NoPts} /\ IsEvent(p.event)
  /\ DOMAIN m.flush = 1..Len(m.streams) /\ \A i \in DOMAIN m.flush : IsEvent(m.flush[i])
  /\ m.fps \in Nat /\ m.width \in Nat

ASSUME ConverterAssumption ==
  /\ MaxTracks \in Nat \ {0} /\ MaxColors \in 1..PaletteMax
  /\ Hd \in Nat \ {0} /\ Uhd \in Nat /\ Hd <= Uhd /\ Width \in Nat
  /\ IntMax \in Nat \ {0} /\ MaxFaults \in Nat
  /\ NoPts \notin Int
  /\ \A o \in CommandLines : o.delay \in Int /\ o.src \in Int /\ o.dst \in Int
  /\ \A m \in Media : IsMedia(m)

VARIABLES
  pc,        \* where main is
  opts,      \* the options
  media,     \* the input file
  src_fps,   \* the source's frame rate, 0 when unknown
  picked,    \* sub_stream_indices
  tracks,    \* for each track its input stream and last_pts
  pos,       \* packets read
  ti,        \* the language or the track main looks at
  cur,       \* the decoded event and its bitmap
  seen,      \* seen_first_video
  held,      \* what is allocated: <<track, or 0 for main; what>>
  out,       \* the output file
  written,   \* the subtitle packets in it
  bench,     \* the counters of src/bench.c
  stop,      \* stop_requested
  ret,       \* what main returns
  faults     \* calls that failed

vars == <<pc, opts, media, src_fps, picked, tracks, pos, ti, cur, seen, held, out, written, bench,
          stop, ret, faults, buckets>>

Init ==
  /\ pc = "start"
  /\ opts \in CommandLines
  /\ media \in Media
  /\ src_fps = 0
  /\ picked = <<>> /\ tracks = <<>>
  /\ pos = 0 /\ ti = 1 /\ cur = Nothing /\ seen = FALSE
  /\ held = {}
  /\ out = "none" /\ written = <<>>
  /\ bench = [encoded |-> 0, muxed |-> 0]
  /\ stop = FALSE
  /\ ret = 0 /\ faults = 0
  /\ buckets = NoBuckets

\* n calls fail.
Fails(n) == faults + n <= MaxFaults /\ faults' = faults + n

NoFault == UNCHANGED faults

-----------------------------------------------------------------------------
(* The conversion of a decoded picture.                                    *)

\* The pixels of an image, row by row.
Pixels(img) ==
  LET w == Len(img[1])
  IN  [n \in 1..(w * Len(img)) |-> img[1 + ((n - 1) \div w)][1 + ((n - 1) % w)]]

\* How many of n colours the palette takes.
Room(n) == IF n < MaxColors THEN n ELSE MaxColors

\* The pixels of s that bring a new colour, and the i-th of them.
Firsts(s) == {n \in DOMAIN s : \A m \in 1..(n - 1) : s[m] # s[n]}
First(s, i) == CHOOSE n \in Firsts(s) : Cardinality({m \in Firsts(s) : m <= n}) = i

\* The 32-bit word of a pixel, as its bytes from the highest to the lowest.
Packed(px) == <<px.r, px.g, px.b, px.a>>

\* An RGBA image as words.
PackedImage(img) == [y \in DOMAIN img |-> [x \in DOMAIN img[y] |-> Packed(img[y][x])]]

\* The palette of an image of words: its colours in the order they appear.
PaletteOf(img) ==
  LET s == Pixels(img)
  IN  [i \in 1..Room(Cardinality(Firsts(s))) |-> s[First(s, i)]]

\* The index of a colour; one that finds no room becomes the first.
IndexOf(pal, color) == IF \E i \in DOMAIN pal : pal[i] = color
                       THEN CHOOSE i \in DOMAIN pal : pal[i] = color ELSE 1

rgba_to_indexed(img) ==
  LET words == PackedImage(img)
  IN  [palette |-> PaletteOf(words),
       idx |-> [y \in DOMAIN img |-> [x \in DOMAIN img[y] |-> IndexOf(PaletteOf(words), words[y][x])]]]

\* Mutant: the columns of the source are taken without scaling.
resize_nn_Plain(img, w, h, k) ==
  [y \in 1..(h * k) |-> [x \in 1..(w * k) |-> img[1 + ((y - 1) * h) \div (h * k)]
                                                 [1 + ((x - 1) % w)]]]

\* The nearest neighbour in an image of w columns and h rows, scaled k times.
resize_nn(img, w, h, k) ==
  [y \in 1..(h * k) |-> [x \in 1..(w * k) |-> img[1 + ((y - 1) * h) \div (h * k)]
                                                 [1 + ((x - 1) * w) \div (w * k)]]]

\* The width of the image as its line size tells it.
SourceWidth(e) ==
  IF e.stride <= 0 THEN e.w ELSE IF e.kind = "rgba" THEN e.stride \div 4 ELSE e.stride

\* The scale of a picture decoded from a packet, for an encoder of width cw.
Scale(e, cw) ==
  LET sw == SourceWidth(e)
  IN  IF cw >= Uhd /\ sw <= Hd THEN IF cw % Hd = 0 THEN cw \div Hd ELSE 1
      ELSE IF sw > 0 /\ cw >= sw /\ cw % sw = 0 THEN cw \div sw
      ELSE 1

\* The scale of a picture the decoder gives up at the end.
FlushScale(e, cw) == IF cw >= Uhd /\ e.w <= Hd THEN cw \div e.w ELSE 1

\* The palette entries of an indexed picture.
Entries(e) ==
  IF e.colors # 0 THEN e.colors
  ELSE IF e.linesize # 0 /\ e.linesize \div 4 > 0 THEN e.linesize \div 4 ELSE DefaultColors

\* The length recorded for the indices of a picture scaled k times.
LengthOf(e, k) == e.w * k * e.h * k

\* Mutant: the scaled branches record no length.
PaletteBytes_Scaled(e, n, scale, k, flush) == IF scale > 1 /\ k > 1 THEN 0 ELSE 4 * n

\* The length recorded for a palette of n colours.  Where there is no palette to copy
\* and the picture should be scaled, only the flush that could not scale it records one.
PaletteBytes(e, n, scale, k, flush) ==
  IF e.kind = "text" /\ scale > 1 /\ ~(flush /\ k = 1) THEN 0 ELSE 4 * n

\* At the end of an unscaled stream, indices past the palette become the first.
Clamped(idx, n) == [y \in DOMAIN idx |-> [x \in DOMAIN idx[y] |->
                      IF idx[y][x] > n THEN 1 ELSE idx[y][x]]]

\* The first n entries of the palette of an indexed picture, zeros for a text.
Copied(e, n) == [i \in 1..n |-> IF e.kind = "indexed" THEN e.palette[i] ELSE <<0, 0, 0, 0>>]

\* The bitmap for event e that should be scaled, and was scaled k times: k is the scale
\* or, when there is no memory for it, 1.  That of a text is empty.
Bitmap(e, scale, k, flush) ==
  LET img == IF k > 1 THEN resize_nn(e.img, e.w, e.h, k) ELSE e.img
      rgba == rgba_to_indexed(img)
      n == IF e.kind = "rgba" THEN Len(rgba.palette) ELSE Entries(e)
  IN  [w |-> e.w * k, h |-> e.h * k, x |-> e.x * k, y |-> e.y * k,
       idx |-> IF e.kind = "rgba" THEN rgba.idx ELSE IF flush /\ k = 1 THEN Clamped(img, n) ELSE img,
       palette |-> IF e.kind = "rgba" THEN rgba.palette ELSE Copied(e, n),
       len |-> LengthOf(e, k), colors |-> n, bytes |-> PaletteBytes(e, n, scale, k, flush)]

NoBitmap == [w |-> 0, h |-> 0, x |-> 0, y |-> 0, idx |-> <<>>, palette |-> <<>>, len |-> 0,
             colors |-> 0, bytes |-> 0]

-----------------------------------------------------------------------------
(* encode_and_write_subtitle.  s is [tracks, written, bench]; how says how *)
(* far the call gets.  A written packet remembers the packet it is of: 0   *)
(* for a blank, one past the last for an event given up at the end.        *)

Failures == {"buffer", "encode", "packet", "write"}

\* bench_inc_cues_encoded and bench_inc_packets_muxed stop at INT_MAX.
bench_inc_cues_encoded(b) == IF b.encoded < IntMax THEN [b EXCEPT !.encoded = @ + 1] ELSE b

bench_inc_packets_muxed(b) == IF b.muxed < IntMax THEN [b EXCEPT !.muxed = @ + 1] ELSE b

\* Mutant: a packet at the PTS of the last one is let through.
Later_Equal(last, pts) == IF last # NoPts /\ pts < last THEN last + 90 ELSE pts

\* The PTS of a packet after one at last: at least 1 ms later.
Later(last, pts) == IF last # NoPts /\ pts <= last THEN last + 90 ELSE pts

encode_and_write_subtitle(s, t, sub, of, pts, how) ==
  IF ~sub.made \/ how \in {"buffer", "encode"} THEN s
  ELSE LET b == IF opts.bench THEN bench_inc_cues_encoded(s.bench) ELSE s.bench
           at == Later(s.tracks[t].last, pts)
       IN  IF how = "packet" THEN [s EXCEPT !.bench = b]
           ELSE [tracks |-> [s.tracks EXCEPT ![t].last = at],
                 written |-> IF how = "write" THEN s.written
                             ELSE Append(s.written, [track |-> t, of |-> of, pts |-> at, asked |-> pts, sub |-> sub]),
                 bench |-> IF opts.bench /\ how # "write" THEN bench_inc_packets_muxed(b) ELSE b]

Output == [tracks |-> tracks, written |-> written, bench |-> bench]

Written(s) == tracks' = s.tracks /\ written' = s.written /\ bench' = s.bench

-----------------------------------------------------------------------------
(* main up to its loop.                                                    *)

MainHolds(s) == {<<0, x>> : x \in s}

\* The process ends without a cleanup.
Crash ==
  /\ pc' = "crashed"
  /\ UNCHANGED <<opts, media, src_fps, picked, tracks, pos, ti, cur, seen, held, out, written, bench,
                 stop, ret, buckets>>

\* Mutant: the code is not recorded.
Fail_Zero(code, h) ==
  /\ pc' = "cleanup"
  /\ held' = h
  /\ UNCHANGED <<opts, media, src_fps, picked, tracks, pos, ti, cur, seen, out, written, bench, stop,
                 ret, buckets>>

\* FAIL: the cleanup follows.
Fail(code, h) ==
  /\ pc' = "cleanup"
  /\ ret' = code
  /\ held' = h
  /\ UNCHANGED <<opts, media, src_fps, picked, tracks, pos, ti, cur, seen, out, written, bench, stop, buckets>>

Complete == opts.input /\ opts.output /\ opts.langs # <<>>

\* The arguments that are duplicated, and those of them met before some option: the
\* options come in any order.
Arguments == (IF opts.langs # <<>> THEN {"lang_list"} ELSE {})
             \cup (IF opts.srt THEN {"srt_list"} ELSE {})
Before == {MainHolds(a) : a \in SUBSET Arguments}

\* --version and --help end with 0, anything unknown or missing with 1; main returns
\* on the spot, with what it has duplicated by then.
ParseOptions ==
  /\ pc = "start"
  /\ IF opts.ends = ""
     THEN /\ held' = MainHolds(Arguments)
          /\ IF Complete THEN pc' = "open" /\ UNCHANGED ret ELSE pc' = "done" /\ ret' = 1
     ELSE /\ held' \in Before
          /\ pc' = "done" /\ ret' = IF opts.ends \in {"version", "help"} THEN 0 ELSE 1
  /\ UNCHANGED <<opts, media, src_fps, picked, tracks, pos, ti, cur, seen, out, written, bench, stop,
                 faults, buckets>>

\* No memory to duplicate an argument.
OptionsFail ==
  /\ pc = "start" /\ Arguments # {}
  /\ held' \in Before
  /\ pc' = "done" /\ ret' = 1
  /\ Fails(1)
  /\ UNCHANGED <<opts, media, src_fps, picked, tracks, pos, ti, cur, seen, out, written, bench,
                 stop, buckets>>

\* The first video stream, 0 when there is none.
video_index ==
  LET v == {i \in DOMAIN media.streams : media.streams[i].type = "video"}
  IN  IF v = {} THEN 0 ELSE CHOOSE i \in v : \A j \in v : i <= j

codec_width == IF video_index # 0 /\ media.width > 0 THEN media.width ELSE Width

\* A frame rate found in the input replaces that of --src-fps.
SourceFps == IF video_index # 0 /\ media.fps # 0 THEN media.fps ELSE opts.src

Language(i) == media.streams[i].lang

\* The first subtitle stream of a language, 0 when there is none.
Matching(lang) ==
  LET m == {i \in DOMAIN media.streams : media.streams[i].type = "sub" /\ Language(i) = lang}
  IN  IF m = {} THEN 0 ELSE CHOOSE i \in m : \A j \in m : i <= j

OpenInput ==
  /\ pc = "open" /\ media.opens
  /\ pc' = "pick"
  /\ src_fps' = SourceFps
  /\ held' = held \cup MainHolds({"in_fmt"})
  /\ UNCHANGED <<opts, media, picked, tracks, pos, ti, cur, seen, out, written, bench, stop, ret, faults,
                 buckets>>

\* The cleanup after a failing open reads out_fmt before its declaration is
\* reached, so anything may follow.
OpenFails ==
  /\ pc = "open" /\ ~media.opens
  /\ NoFault
  /\ Fail(-1, held) \/ Crash

Picking == ti <= Len(opts.langs) /\ Len(picked) < MaxTracks

\* One stream for each language that has one, as long as there is room.
PickStream ==
  /\ pc = "pick" /\ Picking
  /\ picked' = IF Matching(opts.langs[ti]) = 0 THEN picked ELSE Append(picked, Matching(opts.langs[ti]))
  /\ ti' = ti + 1
  /\ UNCHANGED <<pc, opts, media, src_fps, tracks, pos, cur, seen, held, out, written, bench, stop, ret,
                 faults, buckets>>

\* out_fmt may fail to be allocated, or the encoder not be there.
FindEncoder ==
  /\ pc = "pick" /\ ~Picking
  /\ \/ /\ NoFault
        /\ pc' = "tracks"
        /\ held' = held \cup MainHolds({"out_fmt"})
        /\ UNCHANGED <<opts, media, src_fps, picked, tracks, pos, ti, cur, seen, out, written, bench, stop,
                       ret, buckets>>
     \/ /\ Fails(1)
        /\ \E h \in {{}, {"out_fmt"}} : Fail(-1, held \cup MainHolds(h))

Parts == <<"lang", "dec_ctx", "stream", "codec_ctx">>

\* The stream belongs to out_fmt.
TrackHolds(t, n) == {<<t, Parts[i]>> : i \in 1..n} \ {<<t, "stream">>}

Decodable(t) == media.streams[picked[t]].decodes

AddTrack ==
  /\ pc = "tracks" /\ Len(tracks) < Len(picked)
  /\ Decodable(Len(tracks) + 1)
  /\ tracks' = Append(tracks, [stream |-> picked[Len(tracks) + 1], last |-> NoPts,
                               lang |-> Language(picked[Len(tracks) + 1])])
  /\ held' = held \cup TrackHolds(Len(tracks) + 1, 4)
  /\ UNCHANGED <<pc, opts, media, src_fps, picked, pos, ti, cur, seen, out, written, bench, stop, ret,
                 faults, buckets>>

\* What is held without what track t holds.
graphic_subtrack_clear(h, t) == {r \in h : r[1] # t}

\* No decoder, or an allocation fails: this track is cleared on the spot.
TrackFails ==
  /\ pc = "tracks" /\ Len(tracks) < Len(picked)
  /\ LET t == Len(tracks) + 1
     IN  \/ /\ ~Decodable(t) /\ NoFault
            /\ Fail(-1, graphic_subtrack_clear(held \cup TrackHolds(t, 2), t))
         \/ /\ Fails(1)
            /\ \E n \in DOMAIN Parts :
                 /\ n > 2 => Decodable(t)
                 /\ Fail(-1, graphic_subtrack_clear(held \cup TrackHolds(t, n - 1), t))

\* The output is opened and its header written.  Without video the blanks that
\* start the streams come at once.
StartOutput ==
  /\ pc = "tracks" /\ Len(tracks) = Len(picked)
  /\ tracks # <<>>
  /\ pc' = IF video_index = 0 THEN "blank" ELSE "packet"
  /\ ti' = 1
  /\ out' = "open"
  /\ held' = held \cup MainHolds({"pb"})
  /\ UNCHANGED <<opts, media, src_fps, picked, tracks, pos, cur, seen, written, bench, stop, ret, faults,
                 buckets>>

\* The file cannot be opened, or its header cannot be written, as always without a
\* stream.
OutputFails ==
  /\ pc = "tracks" /\ Len(tracks) = Len(picked)
  /\ \/ Fails(1) /\ Fail(-1, held)
     \/ (IF tracks = <<>> THEN NoFault ELSE Fails(1)) /\ Fail(-1, held \cup MainHolds({"pb"}))

\* main does not look whether there is a packet to read into.
AllocPacket ==
  /\ pc = "packet"
  /\ \/ /\ pc' = "read"
        /\ held' = held \cup MainHolds({"pkt"})
        /\ NoFault
        /\ UNCHANGED <<opts, media, src_fps, picked, tracks, pos, ti, cur, seen, out, written, bench, stop,
                       ret, buckets>>
     \/ Fails(1) /\ Crash

-----------------------------------------------------------------------------
(* The loop over the packets and the flush of the decoders.                *)

\* A packet's PTS in 90 kHz.
Pts90(p) == IF p.pts = NoPts THEN NoPts ELSE p.pts * media.streams[p.stream].tick

\* Mutant: every video packet starts the streams again.
StartsStreams_Every(p) == p.stream = video_index /\ p.pts # NoPts

\* The first video packet with a PTS starts the streams with a blank.
StartsStreams(p) == ~seen /\ p.stream = video_index /\ p.pts # NoPts

ReadPacket ==
  /\ pc = "read" /\ pos < Len(media.packets)
  /\ ~stop
  /\ pos' = pos + 1
  /\ LET starts == StartsStreams(media.packets[pos + 1])
     IN  /\ pc' = IF starts THEN "blank" ELSE "convert"
         /\ seen' = (seen \/ starts)
  /\ ti' = 1
  /\ UNCHANGED <<opts, media, src_fps, picked, tracks, cur, held, out, written, bench, stop, ret, faults,
                 buckets>>

\* The PTS of the blanks: that of the first video packet, if there is one.
BlankPts == IF pos = 0 THEN 1 ELSE Pts90(media.packets[pos]) + 1

\* A blank on track ti; what the call returns is not looked at.
WriteBlank ==
  /\ pc = "blank" /\ ti <= Len(tracks)
  /\ \E how \in Failures \cup {"done"} :
       /\ IF how = "done" THEN NoFault ELSE Fails(1)
       /\ Written(encode_and_write_subtitle(Output, ti, Cleared(0, 2), 0, BlankPts, how))
  /\ ti' = ti + 1
  /\ UNCHANGED <<pc, opts, media, src_fps, picked, pos, cur, seen, held, out, stop, ret, buckets>>

BlanksDone ==
  /\ pc = "blank" /\ ti > Len(tracks)
  /\ pc' = IF pos = 0 THEN "packet" ELSE "convert"
  /\ ti' = 1
  /\ UNCHANGED <<opts, media, src_fps, picked, tracks, pos, cur, seen, held, out, written, bench, stop,
                 ret, faults, buckets>>

\* Nothing more is read, or a stop was requested: the packet read last is dropped.
EndOfInput ==
  /\ pc = "read"
  /\ stop \/ pos = Len(media.packets)
  /\ ti' = 1
  /\ pc' = "flush"
  /\ UNCHANGED <<opts, media, src_fps, picked, tracks, pos, cur, seen, held, out, written, bench,
                 stop, ret, faults, buckets>>

\* What track ti gets from its decoder: from the packet, or at the end.
Decoded ==
  IF pc = "flush" THEN media.flush[tracks[ti].stream]
  ELSE IF media.packets[pos].stream = tracks[ti].stream THEN media.packets[pos].event
  ELSE Nothing

NextTrack ==
  /\ pc \in {"convert", "flush"} /\ ti <= Len(tracks)
  /\ Decoded = Nothing
  /\ ti' = ti + 1
  /\ UNCHANGED <<pc, opts, media, src_fps, picked, tracks, pos, cur, seen, held, out, written, bench,
                 stop, ret, faults, buckets>>

\* The scale divides by the width of the picture, which a text does not have.
ScaleOf(e) == IF pc = "flush" THEN FlushScale(e, codec_width) ELSE Scale(e, codec_width)
Divides(e) == pc = "flush" /\ codec_width >= Uhd /\ e.w = 0

Converted(e, bm, copied) ==
  /\ cur' = [kind |-> "event", event |-> e, bm |-> bm, flush |-> pc = "flush"]
  /\ held' = held \cup (IF copied THEN MainHolds({"idxbuf", "palette"}) ELSE {})
                  \cup (IF opts.debug /\ pc = "convert" /\ e.kind # "clear"
                         THEN MainHolds({"last_png"}) ELSE {})
  /\ pc' = "write"
  /\ UNCHANGED <<opts, media, src_fps, picked, tracks, pos, ti, seen, out, written, bench, stop, ret,
                 buckets>>

Convert ==
  /\ pc \in {"convert", "flush"} /\ ti <= Len(tracks)
  /\ Decoded # Nothing
  /\ LET e == Decoded
     IN  IF e.kind = "clear" THEN Converted(e, NoBitmap, FALSE) /\ NoFault
         ELSE IF Divides(e) THEN Crash /\ NoFault
         ELSE LET k == ScaleOf(e)
              IN  Converted(e, Bitmap(e, k, k, pc = "flush"), TRUE) /\ NoFault

\* Without memory to scale the picture stays as it is.  Without memory for the
\* indices a copy is written through a null pointer, and those of an RGBA picture
\* stay undefined: a null pointer at best.
ConvertFails ==
  /\ pc \in {"convert", "flush"} /\ ti <= Len(tracks)
  /\ Decoded # Nothing
  /\ LET e == Decoded
     IN  /\ e.kind # "clear" /\ ~Divides(e)
         /\ \/ ScaleOf(e) > 1 /\ Converted(e, Bitmap(e, ScaleOf(e), 1, pc = "flush"), TRUE)
            \/ e.kind = "rgba" /\ Converted(e, [Bitmap(e, 1, 1, FALSE) EXCEPT !.idx = <<>>], FALSE)
            \/ Crash
  /\ Fails(1)

\* llround(pts * src_fps / dst_fps); halves are rounded away from zero.
Scaled(pts) ==
  IF opts.dst <= 0 \/ src_fps <= 0 THEN pts
  ELSE IF pts >= 0 THEN (2 * pts * src_fps + opts.dst) \div (2 * opts.dst)
  ELSE -((2 * (-pts) * src_fps + opts.dst) \div (2 * opts.dst))

\* The PTS the decoder gives, in microseconds, brought to 90 kHz.
Rescaled(us) == (us * 9 + 50) \div 100

\* The PTS of the event, of its packet, or one after the last.
ChosenPts(e, flush) ==
  IF e.pts \notin {NoPts, 0} THEN Rescaled(e.pts)
  ELSE IF ~flush /\ Pts90(media.packets[pos]) # NoPts THEN Pts90(media.packets[pos])
  ELSE IF tracks[ti].last # NoPts THEN tracks[ti].last + 90
  ELSE 0

Timed(pts) == Scaled(pts) + opts.delay * 90

\* make_subtitle, the write, and the release of the subtitle and the bitmap.
WriteEvent ==
  /\ pc = "write"
  /\ \E failing \in {f \in SUBSET Allocations : Cardinality(f) + faults <= MaxFaults},
        how \in Failures \cup {"done"} :
       LET m == make_subtitle(buckets, cur.bm, cur.event.from, cur.event.to, failing)
           n == Cardinality(failing) + (IF how = "done" THEN 0 ELSE 1)
           of == IF cur.flush THEN Len(media.packets) + 1 ELSE pos
           s == encode_and_write_subtitle(Output, ti, m.sub, of, Timed(ChosenPts(cur.event, cur.flush)),
                                          how)
       IN  /\ IF n = 0 THEN NoFault ELSE Fails(n)
           /\ buckets' = m.buckets
           /\ Written(s)
  /\ held' = held \ MainHolds({"idxbuf", "palette"})
  /\ pc' = IF cur.flush THEN "flush" ELSE "convert"
  /\ ti' = ti + 1
  /\ cur' = Nothing
  /\ UNCHANGED <<opts, media, src_fps, picked, pos, seen, out, stop, ret>>

PacketDone ==
  /\ pc = "convert" /\ ti > Len(tracks)
  /\ pc' = "read"
  /\ UNCHANGED <<opts, media, src_fps, picked, tracks, pos, ti, cur, seen, held, out, written, bench,
                 stop, ret, faults, buckets>>

\* What av_write_trailer returns is not looked at.
WriteTrailer ==
  /\ pc = "flush" /\ ti > Len(tracks)
  /\ \/ out' = "complete" /\ NoFault
     \/ out' = "damaged" /\ Fails(1)
  /\ ret' = 0
  /\ pc' = "cleanup"
  /\ UNCHANGED <<opts, media, src_fps, picked, tracks, pos, ti, cur, seen, held, written, bench, stop,
                 buckets>>

Cleanup ==
  /\ pc = "cleanup"
  /\ held' = {r \in held : r[1] \notin DOMAIN tracks}
              \ MainHolds({"pkt", "pb", "out_fmt", "in_fmt", "lang_list", "srt_list"})
  /\ tracks' = <<>>
  /\ pc' = "done"
  /\ UNCHANGED <<opts, media, src_fps, picked, pos, ti, cur, seen, out, written, bench, stop, ret,
                 faults, buckets>>

\* SIGINT or SIGTERM once the handlers are installed.
Signal ==
  /\ pc \in {"packet", "read", "convert", "write", "flush"} \/ (pc = "blank" /\ pos > 0)
  /\ ~stop /\ stop' = TRUE
  /\ UNCHANGED <<pc, opts, media, src_fps, picked, tracks, pos, ti, cur, seen, held, out, written,
                 bench, ret, faults, buckets>>

Steps ==
  \/ ParseOptions \/ OptionsFail \/ OpenInput \/ OpenFails \/ PickStream \/ FindEncoder
  \/ AddTrack \/ TrackFails \/ StartOutput \/ OutputFails \/ AllocPacket
  \/ ReadPacket \/ WriteBlank \/ BlanksDone \/ EndOfInput \/ NextTrack \/ Convert \/ ConvertFails \/ WriteEvent \/ PacketDone
  \/ WriteTrailer \/ Cleanup

Over == pc \in {"done", "crashed"} /\ UNCHANGED vars

Next == Steps \/ Signal \/ Over

Spec == Init /\ [][Next]_vars
-----------------------------------------------------------------------------
(* What the converter promises.                                            *)

\* The event of a written packet, and its own time, NoPts when it has none.
EventOf(w) ==
  IF w.of = 0 THEN Nothing
  ELSE IF w.of > Len(media.packets) THEN media.flush[tracks[w.track].stream]
  ELSE media.packets[w.of].event
OwnTime(w) ==
  IF EventOf(w).pts \notin {NoPts, 0} THEN Rescaled(EventOf(w).pts)
  ELSE IF w.of <= Len(media.packets) THEN Pts90(media.packets[w.of]) ELSE NoPts

\* The packets of a track have strictly increasing PTS, whatever the decoder, the
\* scaling, the delay and the blanks give.  An event with a time of its own is
\* written at that time brought from the rate main works with to that of --dst-fps, to
\* the nearest tick, plus the delay, or 1 ms after the packet before it when that is
\* not earlier: never early.  Which rate main works with is RateOverridden's subject.
TimesSound ==
  \A i \in DOMAIN written :
    LET w == written[i]
        off == w.asked - opts.delay * 90
        prev == {j \in 1..(i - 1) : written[j].track = w.track /\ written[j].pts + 90 = w.pts}
    IN  /\ \A j \in 1..(i - 1) : written[j].track = w.track => written[j].pts < w.pts
        /\ tracks # <<>> /\ w.of # 0 /\ OwnTime(w) # NoPts =>
             /\ IF opts.dst > 0 /\ src_fps > 0
                THEN 2 * (off * opts.dst - OwnTime(w) * src_fps) \in (-opts.dst)..opts.dst
                ELSE off = OwnTime(w)
             /\ w.pts >= w.asked
             /\ w.pts > w.asked /\ faults = 0 => prev # {}

\* The packets that hold an event for track t, as far as main has read, and once it is
\* through what its decoder held back.
Due(t) ==
  {p \in 1..pos : media.packets[p].stream = tracks[t].stream /\ media.packets[p].event # Nothing}
    \cup (IF pc = "cleanup" /\ media.flush[tracks[t].stream] # Nothing
          THEN {Len(media.packets) + 1} ELSE {})

\* The packet that starts the streams: the first of the video with a PTS, or, when
\* there is none, one past the end; 0 without a video.
Starting ==
  LET v == {p \in 1..Len(media.packets) :
              media.packets[p].stream = video_index /\ media.packets[p].pts # NoPts}
  IN  IF video_index = 0 THEN 0
      ELSE IF v = {} THEN Len(media.packets) + 1 ELSE CHOOSE p \in v : \A q \in v : p <= q

\* A track is started by one blank, never by two, after the events that come before the
\* first video packet with a PTS and before those that come after it, and no event is
\* written twice or before one that comes before it in the input, whatever fails.
\* Unless a call fails, a track has its blank as soon as the video has begun, and every
\* event of its stream is written, also what the decoder held back: make_subtitle
\* refuses no bitmap of the conversion.
StreamComplete ==
  /\ \A i, j \in DOMAIN written :
       i < j /\ written[i].track = written[j].track =>
         /\ written[i].of # written[j].of
         /\ IF written[j].of = 0 THEN written[i].of < Starting
            ELSE /\ written[i].of < written[j].of
                 /\ written[i].of = 0 => Starting < written[j].of
  /\ faults = 0 /\ (pc = "read" \/ (pc = "cleanup" /\ ret = 0)) =>
       \A t \in DOMAIN tracks :
         LET of == {written[i].of : i \in {n \in DOMAIN written : written[n].track = t}}
         IN  /\ seen \/ video_index = 0 => 0 \in of
             /\ of \ {0} = Due(t)

\* A written picture shows its source.  Each pixel of an indexed one has the index, and
\* so the colour, of the pixel it was scaled from; an index past the palette stays as it
\* is, or becomes the first when the decoder gave the picture up at the end.  Each pixel
\* of an RGBA one has the word rgba_to_indexed packs of the pixel it was scaled from,
\* unless the source has more colours than the palette holds.  Whether the encoder reads
\* that word as it was packed is ColoursRead's subject.
PictureExact ==
  \A i \in DOMAIN written :
    LET w == written[i]
        e == EventOf(w)
    IN  tracks # <<>> /\ w.of # 0 /\ w.sub.idx # <<>> =>
          LET k == Len(w.sub.idx) \div e.h
          IN  \A y \in DOMAIN w.sub.idx : \A x \in DOMAIN w.sub.idx[y] :
                LET from == e.img[(y + k - 1) \div k][(x + k - 1) \div k]
                    to == w.sub.idx[y][x]
                IN  IF e.kind = "rgba"
                    THEN /\ to \in 1..MaxColors
                         /\ Cardinality(Range(Pixels(PackedImage(e.img)))) <= MaxColors =>
                              w.sub.palette[to] = Packed(from)
                    ELSE IF from \in 1..Entries(e)
                    THEN to = from /\ w.sub.palette[to] = e.palette[from]
                    ELSE to = from \/ (to = 1 /\ w.of > Len(media.packets))

\* Once its options are accepted main returns 0 just when it came to the trailer, also
\* after a stop; whether the trailer could be written it does not look at.  It holds
\* nothing then but the names of debug pictures, and between two packets it
\* holds no bitmap.  It crashes only when the input does not open, memory runs out,
\* or a decoder gives up something without a width, as a text is, at the end of an
\* Ultra HD stream.  The benchmark it reports counts the packets in the file, up to
\* INT_MAX, and no fewer cues.
ExitTruthful ==
  /\ pc = "done" /\ opts.ends = "" => (ret = 0 <=> out \in {"complete", "damaged"})
  /\ pc = "done" /\ opts.ends = "" /\ ret # 1 => held \subseteq MainHolds({"last_png"})
  /\ pc \in {"read", "cleanup"} => held \cap MainHolds({"idxbuf", "palette"}) = {}
  /\ pc = "crashed" =>
       \/ ~media.opens \/ faults > 0
       \/ /\ codec_width >= Uhd
          /\ \E s \in DOMAIN media.flush :
               media.flush[s].kind \notin {"none", "clear"} /\ media.flush[s].w = 0
  /\ opts.bench => /\ bench.muxed = (IF Len(written) > IntMax THEN IntMax ELSE Len(written))
                   /\ bench.encoded >= bench.muxed

-----------------------------------------------------------------------------
(* What the documents say and the code does not do.                        *)

\* The help says of --src-fps "Override detected source frame rate"
\* (dvdbr2dvbsub.c:171), but the detected rate overrides it (495).
RateOverridden == pc = "read" /\ opts.src > 0 => src_fps = opts.src

\* A palette holds "32-bit ARGB palette entries" (render_pango.h:82, dvb_sub.c:279), alpha
\* highest; read so, a pixel of an RGBA picture does not have the colour it had (213).
ColoursRead ==
  \A i \in DOMAIN written :
    LET w == written[i]
        e == EventOf(w)
        Argb(word) == [a |-> word[1], r |-> word[2], g |-> word[3], b |-> word[4]]
    IN  tracks # <<>> /\ w.of # 0 /\ w.sub.idx # <<>> /\ e.kind = "rgba" =>
          Argb(w.sub.palette[w.sub.idx[1][1]]) = e.img[1][1]
==============================================================================
