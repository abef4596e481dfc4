------------------------------ MODULE SubtitleMux ------------------------------
(***************************************************************************)
(* The loop that emits subtitles: ctx_demux_mux_loop of src/srt2dvbsub.c,  *)
(* its PNG-only variants, and encode_and_write_subtitle of src/muxsub.c.   *)
(*                                                                         *)
(* For every packet read from the input, each track emits the cues that    *)
(* are due: the bitmap comes from the rendering pool or is rendered on the *)
(* spot, the cue is encoded and written with a time stamp of its track,    *)
(* then the event that clears the screen.  The packet is copied last.      *)
(*                                                                         *)
(* The main thread runs the loop alone; the pool's workers and the signal  *)
(* handler run beside it.  The pool is what RenderService promises: a job  *)
(* submitted under a key is finished some time later, a blocking render    *)
(* returns.  Cues and tracks are counted from 1.                           *)
(***************************************************************************)
EXTENDS Integers, Sequences, FiniteSets

CONSTANTS
  NTracks,             \* ntracks
  CueLists,            \* what the parser may return: sequences of [start, end] in ms
  Delays,              \* values of effective_delay_ms
  InputStarts,         \* values of input_start_pts90
  MS,                  \* ticks of the 90 kHz clock per millisecond, 90 in the code
  NOPTS,               \* AV_NOPTS_VALUE
  PacketTimes,         \* time stamps of packets, in ticks
  InputStreams,        \* streams known when the output was set up
  LateStreams,         \* streams the demuxer may add afterwards
  TrackStream,         \* output stream of each track
  Overwritten,         \* input streams whose output stream was given to a track
  Mode,                \* "mux", "png" (--png-only with an input) or "png_all"
  UsePool,             \* render_threads > 0
  PREFETCH_WINDOW,     \* 8 in the code
  SUB_BUF_SIZE, MAX_SUB_BUF_SIZE, FULL_COUNT_THRESHOLD,
  EncodedSizes,        \* sizes avcodec_encode_subtitle may return; it is always
                       \* offered SUB_BUF_SIZE bytes, also by a grown buffer
  Faults               \* the calls that may fail

Tracks == 1..NTracks

ASSUME MuxAssumption ==
  /\ NTracks \in Nat \ {0}
  /\ MS \in Nat \ {0}
  /\ NOPTS \notin Int
  /\ Delays \subseteq Int
  /\ InputStarts \subseteq Int
  /\ PacketTimes \subseteq Int
  /\ TrackStream \in [Tracks -> Nat]
  /\ Overwritten \subseteq InputStreams
  /\ Mode \in {"mux", "png", "png_all"}
  /\ UsePool \in BOOLEAN
  /\ PREFETCH_WINDOW \in Nat \ {0}
  /\ SUB_BUF_SIZE \in Nat \ {0}
  /\ MAX_SUB_BUF_SIZE \in Nat /\ MAX_SUB_BUF_SIZE >= SUB_BUF_SIZE
  /\ FULL_COUNT_THRESHOLD \in Nat
  /\ EncodedSizes \subseteq 0..SUB_BUF_SIZE

\* The parser repairs overlaps: a cue never starts before an earlier one ends.
ASSUME CueAssumption ==
  \A l \in CueLists :
    /\ l \in Seq([start : Int, end : Int])
    /\ \A i \in 1..Len(l) : l[i].start <= l[i].end
    /\ \A i, j \in 1..Len(l) : i < j => l[i].end <= l[j].start

VARIABLES
  entries, delay, start0,  \* inputs: cues and delay of each track, input_start_pts90
  stop,                    \* stop_requested
  pc,
  pkt,                     \* stream and time of the packet in hand
  last_valid,              \* last_valid_cur90
  trk, cur_sub,            \* track of the inner loop, next cue of each track
  pi, bm,                  \* prefetch counter, bitmap in hand
  jobs,                    \* pool: jobs per track and cue, newest first
  last_pts, enc,           \* per track: last time stamp, encode buffer
  out,                     \* per track: subtitle events written
  saved,                   \* per track: pictures saved as PNG, Empty if there is no file
  leaked,                  \* bitmaps no longer referenced and not freed
  fed, peak                \* output streams copied to, greatest time stamp copied

inputVars == <<entries, delay, start0>>
loopVars  == <<pc, pkt, last_valid, trk, cur_sub>>
cueVars   == <<pi, bm, leaked>>
writeVars == <<last_pts, enc, out>>
copyVars  == <<fed, peak>>
vars == <<inputVars, stop, loopVars, cueVars, jobs, writeVars, saved, copyVars>>

Count(t) == Len(entries[t])

NoBitmap == <<0, 0>>       \* no bitmap in hand
Empty    == <<0, 1>>       \* a bitmap without pixels: the renderer failed
Garbage  == <<0, 2>>       \* bytes of a buffer that is no longer the encoded ones
Cleared  == <<0, 3>>       \* the encoded form of a CLEAR event
Picture(t, k) == <<t, k>>  \* the rendering of cue k of track t

Pictures == Nat \X Nat

PCs == {"read", "cues", "prefetch", "retry", "sync", "encode", "clear", "copy",
        "done"}

Job   == [done : BOOLEAN, data : Pictures]
Event == [kind : {"cue", "clear"}, cue : Nat, pts : Int, data : Pictures]

TypeOK ==
  /\ entries \in [Tracks -> CueLists]
  /\ delay \in [Tracks -> Delays]
  /\ start0 \in InputStarts
  /\ stop \in BOOLEAN
  /\ pc \in PCs
  /\ pkt \in [stream : InputStreams \cup LateStreams \cup {NOPTS},
              time : PacketTimes \cup {NOPTS}]
  /\ last_valid \in PacketTimes \cup {NOPTS}
  /\ trk \in Tracks
  /\ cur_sub \in [Tracks -> Nat \ {0}]
  /\ pi \in 0..PREFETCH_WINDOW
  /\ bm \in Pictures
  /\ jobs = [t \in Tracks |-> [k \in 1..Count(t) |-> jobs[t][k]]]
  /\ \A t \in Tracks : \A k \in 1..Count(t) : jobs[t][k] \in Seq(Job)
  /\ last_pts \in [Tracks -> Int \cup {NOPTS}]
  /\ enc \in [Tracks -> [size : 0..MAX_SUB_BUF_SIZE, full : Nat]]
  /\ out \in [Tracks -> Seq(Event)]
  /\ saved \in [Tracks -> Seq(Pictures)]
  /\ leaked \subseteq Pictures
  /\ fed \subseteq InputStreams \cup LateStreams
  /\ peak \in PacketTimes \cup {NOPTS}

Init ==
  /\ entries \in [Tracks -> CueLists]
  /\ delay \in [Tracks -> Delays]
  /\ start0 \in InputStarts
  /\ stop = FALSE
  /\ pc = IF Mode = "png_all" THEN "cues" ELSE "read"
  /\ pkt = [stream |-> NOPTS, time |-> NOPTS]
  /\ last_valid = NOPTS
  /\ trk = 1
  /\ cur_sub = [t \in Tracks |-> 1]
  /\ pi = 0
  /\ bm = NoBitmap
  /\ jobs = [t \in Tracks |-> [k \in 1..Count(t) |-> <<>>]]
  /\ last_pts = [t \in Tracks |-> NOPTS]
  /\ enc = [t \in Tracks |-> [size |-> 0, full |-> 0]]
  /\ out = [t \in Tracks |-> <<>>]
  /\ saved = [t \in Tracks |-> <<>>]
  /\ leaked = {}
  /\ fed = {}
  /\ peak = NOPTS

-----------------------------------------------------------------------------
(* Reading packets.                                                        *)

\* The signal handler sets stop_requested at any moment.
Signal ==
  /\ ~stop
  /\ stop' = TRUE
  /\ UNCHANGED <<inputVars, loopVars, cueVars, jobs, writeVars, saved, copyVars>>

\* av_read_frame fails, or it returns and a stop was requested.
EndLoop ==
  /\ pc = "read"
  /\ pc' = "done"
  /\ UNCHANGED <<inputVars, stop, pkt, last_valid, trk, cur_sub, cueVars, jobs,
                 writeVars, saved, copyVars>>

\* is_overwrite_stream.
Dropped(s) == s \in Overwritten

\* A packet of an overwritten stream, or one with an invalid stream index.
SkipPacket ==
  /\ pc = "read"
  /\ ~stop
  /\ \E s \in InputStreams : Dropped(s)
  /\ UNCHANGED vars

\* Mutant: the flag is not tested.
ReadPacket_NoStop(s, time) ==
  /\ pc = "read"
  /\ ~Dropped(s)
  /\ pkt' = [stream |-> s, time |-> time]
  /\ last_valid' = IF time # NOPTS THEN time ELSE last_valid
  /\ trk' = 1
  /\ pc' = "cues"
  /\ UNCHANGED <<inputVars, stop, cur_sub, cueVars, jobs, writeVars, saved, copyVars>>

\* A packet is read; its time is its pts, else its dts, else unknown.  From here
\* on last_valid is the time cues are compared with (cmp90).
ReadPacket(s, time) ==
  /\ pc = "read"
  /\ ~stop
  /\ ~Dropped(s)
  /\ pkt' = [stream |-> s, time |-> time]
  /\ last_valid' = IF time # NOPTS THEN time ELSE last_valid
  /\ trk' = 1
  /\ pc' = "cues"
  /\ UNCHANGED <<inputVars, stop, cur_sub, cueVars, jobs, writeVars, saved, copyVars>>

-----------------------------------------------------------------------------
(* Which cue is due, and its bitmap.                                       *)

\* Start and end of a cue in ticks, as compared with packets.
StartTick(t, k) == (entries[t][k].start + delay[t]) * MS
EndTick(t, k)   == (entries[t][k].end + delay[t]) * MS

\* Mutant: a cue due exactly at the packet's time waits for the next packet.
DueAt_Strict(t, k) == last_valid # NOPTS /\ StartTick(t, k) < last_valid

DueAt(t, k) == last_valid # NOPTS /\ StartTick(t, k) <= last_valid

\* The condition of the inner loop.  Without an input every cue is rendered.
Due(t) ==
  /\ cur_sub[t] <= Count(t)
  /\ Mode = "png_all" \/ DueAt(t, cur_sub[t])

\* Mutant: one cue per packet and track.
NextTrack_One ==
  /\ pc = "cues"
  /\ ~Due(trk) \/ cur_sub[trk] > 1
  /\ IF trk < NTracks THEN trk' = trk + 1 /\ pc' = pc
                      ELSE trk' = trk /\ pc' = IF Mode = "png_all" THEN "done" ELSE "copy"
  /\ UNCHANGED <<inputVars, stop, pkt, last_valid, cur_sub, cueVars, jobs, writeVars,
                 saved, copyVars>>

\* The inner loop of a track ends.
NextTrack ==
  /\ pc = "cues"
  /\ ~Due(trk)
  /\ IF trk < NTracks THEN trk' = trk + 1 /\ pc' = pc
                      ELSE trk' = trk /\ pc' = IF Mode = "png_all" THEN "done" ELSE "copy"
  /\ UNCHANGED <<inputVars, stop, pkt, last_valid, cur_sub, cueVars, jobs, writeVars,
                 saved, copyVars>>

\* render_pool_try_get on the current cue: the newest job of the key decides.
Keyed == jobs[trk][cur_sub[trk]]
Known == Keyed # <<>>
Ready == Known /\ Keyed[1].done

\* try_get answers 1: the bitmap is taken and the job leaves the pool.
Collect ==
  /\ \/ pc = "cues" /\ Due(trk) /\ UsePool
     \/ pc = "retry"
  /\ Ready
  /\ bm' = Keyed[1].data
  /\ jobs' = [jobs EXCEPT ![trk][cur_sub[trk]] = Tail(@)]
  /\ pc' = "encode"
  /\ UNCHANGED <<inputVars, stop, pkt, last_valid, trk, cur_sub, pi, leaked, writeVars,
                 saved, copyVars>>

\* Mutant: a cue whose job still runs is passed over.
GoSync_Skip ==
  /\ \/ pc = "cues" /\ Due(trk) /\ UsePool /\ Known
     \/ pc = "retry"
  /\ ~Ready
  /\ pc' = "clear"
  /\ UNCHANGED <<inputVars, stop, pkt, last_valid, trk, cur_sub, cueVars, jobs,
                 writeVars, saved, copyVars>>

\* try_get answers 0, or the second try_get has no bitmap: render here.
GoSync ==
  /\ \/ pc = "cues" /\ Due(trk) /\ UsePool /\ Known
     \/ pc = "retry"
  /\ ~Ready
  /\ pc' = "sync"
  /\ UNCHANGED <<inputVars, stop, pkt, last_valid, trk, cur_sub, cueVars, jobs,
                 writeVars, saved, copyVars>>

\* Mutant: a job still running is taken for an unknown key.
GoPrefetch_Running ==
  /\ pc = "cues" /\ Due(trk) /\ UsePool
  /\ ~Ready
  /\ pi' = 0
  /\ pc' = "prefetch"
  /\ UNCHANGED <<inputVars, stop, pkt, last_valid, trk, cur_sub, bm, leaked, jobs,
                 writeVars, saved, copyVars>>

\* try_get answers -1: the key is unknown.
GoPrefetch ==
  /\ pc = "cues" /\ Due(trk) /\ UsePool
  /\ ~Known
  /\ pi' = 0
  /\ pc' = "prefetch"
  /\ UNCHANGED <<inputVars, stop, pkt, last_valid, trk, cur_sub, bm, leaked, jobs,
                 writeVars, saved, copyVars>>

\* Mutant: every job of the window renders the text of the current cue.
Prefetched_Same(t, k) == Picture(t, cur_sub[t])

\* What a job submitted for cue k renders.
Prefetched(t, k) == Picture(t, k)

\* render_pool_submit_async for the next cue of the window; its result is ignored.
Prefetch ==
  LET qi == cur_sub[trk] + pi
      job == [done |-> FALSE, data |-> Prefetched(trk, qi)] IN
  /\ pc = "prefetch"
  /\ pi < PREFETCH_WINDOW /\ qi <= Count(trk)
  /\ \/ jobs' = [jobs EXCEPT ![trk][qi] = <<job>> \o @]
     \/ "submit" \in Faults /\ jobs' = jobs
  /\ pi' = pi + 1
  /\ UNCHANGED <<inputVars, stop, loopVars, bm, leaked, writeVars, saved, copyVars>>

\* The window is submitted, or the track has no more cues.
PrefetchDone ==
  /\ pc = "prefetch"
  /\ pi = PREFETCH_WINDOW \/ cur_sub[trk] + pi > Count(trk)
  /\ pi' = 0
  /\ pc' = "retry"
  /\ UNCHANGED <<inputVars, stop, pkt, last_valid, trk, cur_sub, bm, leaked, jobs,
                 writeVars, saved, copyVars>>

\* The pool finishes the i-th job of a key.  A renderer that fails leaves an
\* empty bitmap.
PoolRender(t, k, i) ==
  /\ ~jobs[t][k][i].done
  /\ \E data \in {jobs[t][k][i].data} \cup (IF "render" \in Faults THEN {Empty} ELSE {}) :
       jobs' = [jobs EXCEPT ![t][k][i] = [done |-> TRUE, data |-> data]]
  /\ UNCHANGED <<inputVars, stop, loopVars, cueVars, writeVars, saved, copyVars>>

\* render_pool_render_sync; without a pool, render_text_pango or render_ass_frame.
Render ==
  /\ \/ pc = "sync"
     \/ pc = "cues" /\ Due(trk) /\ ~UsePool
  /\ \/ bm' = Picture(trk, cur_sub[trk])
     \/ "render" \in Faults /\ bm' = Empty
  /\ pc' = "encode"
  /\ UNCHANGED <<inputVars, stop, pkt, last_valid, trk, cur_sub, pi, leaked, jobs,
                 writeVars, saved, copyVars>>

-----------------------------------------------------------------------------
(* encode_and_write_subtitle.                                              *)

\* Mutant: a time stamp equal to the previous one is kept.
Bump_Equal(t, pts) ==
  IF last_pts[t] # NOPTS /\ pts < last_pts[t] THEN last_pts[t] + MS ELSE pts

\* Mutant: the bump is two milliseconds.
Bump_Two(t, pts) ==
  IF last_pts[t] # NOPTS /\ pts <= last_pts[t] THEN last_pts[t] + 2 * MS ELSE pts

\* Time stamps of a track are forced to increase.
Bump(t, pts) ==
  IF last_pts[t] # NOPTS /\ pts <= last_pts[t] THEN last_pts[t] + MS ELSE pts

\* The per-track buffer is allocated on first use and kept.
BufSize(t) == IF enc[t].size = 0 THEN SUB_BUF_SIZE ELSE enc[t].size

\* Consecutive times the encoder filled the buffer, this one included.
FullCount(t, n) == IF n >= BufSize(t) THEN enc[t].full + 1 ELSE 0

Grows(t, n) ==
  /\ n >= BufSize(t)
  /\ FullCount(t, n) >= FULL_COUNT_THRESHOLD
  /\ BufSize(t) < MAX_SUB_BUF_SIZE

\* Mutant: the doubled size is not capped.
GrownSize_NoCap(t) == 2 * BufSize(t)

GrownSize(t) ==
  IF 2 * BufSize(t) > MAX_SUB_BUF_SIZE THEN MAX_SUB_BUF_SIZE ELSE 2 * BufSize(t)

\* The encoder returned n > 0 bytes: the buffer grows if it was filled too often.
\* moved says whether realloc returned another address; the bytes are then copied
\* from the old one.
Packetise(t, ev, n) ==
  \E ok \in IF Grows(t, n) /\ "realloc" \in Faults THEN BOOLEAN ELSE {TRUE},
     moved \in IF Grows(t, n) THEN BOOLEAN ELSE {FALSE} :
    LET grown == Grows(t, n) /\ ok
        sent == [kind |-> ev.kind, cue |-> ev.cue, pts |-> Bump(t, ev.pts),
                 data |-> IF grown /\ moved THEN Garbage ELSE ev.data] IN
    /\ enc' = [enc EXCEPT ![t] =
                 [size |-> IF grown THEN GrownSize(t) ELSE BufSize(t),
                  full |-> IF Grows(t, n) THEN 0 ELSE FullCount(t, n)]]
    /\ \/ /\ last_pts' = [last_pts EXCEPT ![t] = sent.pts]
          /\ \/ out' = [out EXCEPT ![t] = Append(@, sent)]
             \/ "write" \in Faults /\ out' = out
       \/ "packet" \in Faults /\ UNCHANGED <<last_pts, out>>

\* ev carries the time asked for and the encoded bytes.
EncodeAndWrite(t, ev) ==
  \/ "buffer" \in Faults /\ enc[t].size = 0 /\ UNCHANGED writeVars
  \/ \E n \in EncodedSizes :
       IF n = 0 THEN /\ enc' = [enc EXCEPT ![t].size = BufSize(t)]
                     /\ UNCHANGED <<last_pts, out>>
                ELSE Packetise(t, ev, n)

-----------------------------------------------------------------------------
(* Emitting a cue and copying the packet.                                  *)

\* make_png_filename and save_bitmap_png.  No file is written for an empty picture;
\* a failed call counts as one.
SaveBitmap ==
  \E pic \in {bm} \cup (IF "png" \in Faults THEN {Empty} ELSE {}) :
    saved' = [saved EXCEPT ![trk] = Append(@, pic)]

\* The picture is saved (PNG modes), then make_subtitle builds the event.  When it
\* fails nothing is written and the bitmap is not freed.
EmitCue ==
  /\ pc = "encode"
  /\ Mode # "png_all"
  /\ IF Mode = "png" THEN SaveBitmap ELSE saved' = saved
  /\ \/ /\ IF Mode = "mux"
           THEN EncodeAndWrite(trk, [kind |-> "cue", cue |-> cur_sub[trk],
                                     pts |-> start0 + StartTick(trk, cur_sub[trk]),
                                     data |-> bm])
           ELSE UNCHANGED writeVars
        /\ leaked' = leaked
     \/ /\ "build" \in Faults
        /\ leaked' = IF bm = Empty THEN leaked ELSE leaked \cup {bm}
        /\ UNCHANGED writeVars
  /\ bm' = NoBitmap
  /\ pc' = "clear"
  /\ UNCHANGED <<inputVars, stop, pkt, last_valid, trk, cur_sub, pi, jobs, copyVars>>

\* Mutant: a failed allocation of the CLEAR event skips the increment.
ClearCue_Continue ==
  /\ pc = "clear"
  /\ \/ /\ IF Mode = "mux"
           THEN EncodeAndWrite(trk, [kind |-> "clear", cue |-> cur_sub[trk],
                                     pts |-> start0 + EndTick(trk, cur_sub[trk]),
                                     data |-> Cleared])
           ELSE UNCHANGED writeVars
        /\ cur_sub' = [cur_sub EXCEPT ![trk] = @ + 1]
     \/ "clear" \in Faults /\ UNCHANGED <<writeVars, cur_sub>>
  /\ pc' = "cues"
  /\ UNCHANGED <<inputVars, stop, pkt, last_valid, trk, cueVars, jobs, saved, copyVars>>

\* The event that clears the screen at the end of the cue; then the next cue.
ClearCue ==
  /\ pc = "clear"
  /\ \/ IF Mode = "mux"
        THEN EncodeAndWrite(trk, [kind |-> "clear", cue |-> cur_sub[trk],
                                  pts |-> start0 + EndTick(trk, cur_sub[trk]),
                                  data |-> Cleared])
        ELSE UNCHANGED writeVars
     \/ "clear" \in Faults /\ UNCHANGED writeVars
  /\ cur_sub' = [cur_sub EXCEPT ![trk] = @ + 1]
  /\ pc' = "cues"
  /\ UNCHANGED <<inputVars, stop, pkt, last_valid, trk, cueVars, jobs, saved, copyVars>>

\* ctx_png_only_render_all: the picture is saved and freed, no event is built.
SavePng ==
  /\ pc = "encode"
  /\ Mode = "png_all"
  /\ SaveBitmap
  /\ bm' = NoBitmap
  /\ cur_sub' = [cur_sub EXCEPT ![trk] = @ + 1]
  /\ pc' = "cues"
  /\ UNCHANGED <<inputVars, stop, pkt, last_valid, trk, pi, leaked, jobs, writeVars,
                 copyVars>>

\* The packet goes to the output stream with the index of its input stream, except
\* in PNG mode; a failed write is ignored.
CopyPacket ==
  /\ pc = "copy"
  /\ \/ /\ Mode = "mux"
        /\ fed' = fed \cup {pkt.stream}
        /\ peak' = IF pkt.time # NOPTS /\ (peak = NOPTS \/ peak < pkt.time)
                   THEN pkt.time ELSE peak
     \/ (Mode = "png" \/ "write" \in Faults) /\ UNCHANGED copyVars
  /\ pkt' = [stream |-> NOPTS, time |-> NOPTS]
  /\ pc' = "read"
  /\ UNCHANGED <<inputVars, stop, last_valid, trk, cur_sub, cueVars, jobs, writeVars,
                 saved>>

-----------------------------------------------------------------------------
MainStep ==
  \/ EndLoop \/ SkipPacket
  \/ \E s \in InputStreams \cup LateStreams, time \in PacketTimes \cup {NOPTS} :
       ReadPacket(s, time)
  \/ NextTrack \/ Collect \/ GoSync \/ GoPrefetch \/ Prefetch \/ PrefetchDone
  \/ Render \/ EmitCue \/ ClearCue \/ SavePng \/ CopyPacket

PoolStep ==
  \E t \in Tracks : \E k \in 1..Count(t) : \E i \in 1..Len(jobs[t][k]) :
    PoolRender(t, k, i)

\* The loop has returned; the pool may still run.
Returned == pc = "done" /\ UNCHANGED vars

Next == MainStep \/ PoolStep \/ Signal \/ Returned

Spec == Init /\ [][Next]_vars

\* The main thread is scheduled.  Nothing obliges a worker to finish, the input to
\* end or a signal to arrive.
FairSpec == Spec /\ WF_vars(MainStep)

-----------------------------------------------------------------------------
(* Properties.                                                             *)

\* The time stamps of the events written on a track strictly increase, whatever
\* cues touch, last no time, or fail to be encoded or written in between
\* (the bump of encode_and_write_subtitle).
PtsIncreasing ==
  \A t \in Tracks : \A i, j \in 1..Len(out[t]) : i < j => out[t][i].pts < out[t][j].pts

\* The place of an event in the order of its track: a cue, its CLEAR, the next cue.
Place(ev) == 2 * ev.cue + IF ev.kind = "clear" THEN 1 ELSE 0

\* No event is written twice or out of order: on each track a cue precedes its
\* CLEAR, which precedes every later cue, also when calls fail in between.
EventOrder ==
  \A t \in Tracks : \A i, j \in 1..Len(out[t]) :
    i < j => Place(out[t][i]) < Place(out[t][j])

\* A cue shows its own picture, whichever of the asynchronous job, the blocking
\* render and the prefetch window produced it; never another cue's or track's.
\* What can take its place is an empty picture after a failed rendering or the
\* damaged bytes of PayloadIntact.
CueMatches ==
  \A t \in Tracks :
    /\ \A i \in 1..Len(out[t]) :
         out[t][i].kind = "cue" =>
           out[t][i].data \in {Picture(t, out[t][i].cue), Empty, Garbage}
    /\ \A i \in 1..Len(saved[t]) : saved[t][i] \in {Picture(t, i), Empty}

\* If no call fails, every cue passed by cur_sub was written together with its
\* CLEAR: none is lost while jobs are unknown, running or finished.  And if
\* submissions succeed none is in the pool twice: successive prefetch windows do
\* not overlap, also when jobs are still running at lookup.
NoEventLost ==
  /\ (Mode = "mux" /\ Faults = {} /\ 0 \notin EncodedSizes /\ pc \in {"read", "cues", "copy"})
       => \A t \in Tracks : Len(out[t]) = 2 * (cur_sub[t] - 1)
  /\ "submit" \notin Faults =>
       \A t \in Tracks : \A k \in 1..Count(t) : Len(jobs[t][k]) <= 1

\* When a packet is copied, every cue that starts at or before the time last seen
\* has been handled on every track.
CaughtUp ==
  pc = "copy" => \A t \in Tracks : \A k \in 1..Count(t) : DueAt(t, k) => k < cur_sub[t]

\* An event is never written behind a packet that is already copied and has the
\* same or a later time stamp, although packet times go back and forth and may
\* be missing.  It needs an input that starts at zero or later, because cues are
\* selected by their own time and stamped with the start of the input added.
NeverLate ==
  [][start0 >= 0 =>
       \A t \in Tracks :
         Len(out'[t]) > Len(out[t]) => peak = NOPTS \/ peak < out'[t][Len(out'[t])].pts]_vars

\* The time asked for, before the bump.
Nominal(t, ev) ==
  start0 + IF ev.kind = "cue" THEN StartTick(t, ev.cue) ELSE EndTick(t, ev.cue)

\* All cues of the track last two milliseconds or more.
Roomy(t) == \A k \in 1..Count(t) : entries[t][k].end >= entries[t][k].start + 2

\* On such a track the bump does not add up: a cue is at most one millisecond
\* late and its CLEAR is on time.  Shorter cues accumulate delay.
DriftBounded ==
  \A t \in Tracks : Roomy(t) =>
    \A i \in 1..Len(out[t]) :
      LET ev == out[t][i]
          drift == ev.pts - Nominal(t, ev) IN
      0 <= drift /\ drift <= IF ev.kind = "cue" THEN MS ELSE 0

\* Packets are never copied to an output stream that carries a track.
OneSource == \A t \in Tracks : TrackStream[t] \notin fed

\* Without an input, when the loop returns every cue of every track was saved once,
\* as its own picture unless a call failed.
AllSaved ==
  (Mode = "png_all" /\ pc = "done") =>
    \A t \in Tracks :
      /\ Len(saved[t]) = Count(t)
      /\ Faults \cap {"render", "png"} = {} =>
           \A i \in 1..Count(t) : saved[t][i] = Picture(t, i)

\* A stop request ends the loop, although the input may be endless: the packet in
\* hand is finished, every due cue included, and no further one is started.
StopEnds == stop ~> (pc = "done")

\* The bytes written are the encoded ones.
PayloadIntact == \A t \in Tracks : \A i \in 1..Len(out[t]) : out[t][i].data # Garbage

\* Every bitmap handed to the loop is freed.
BitmapsFreed == leaked = {}

-----------------------------------------------------------------------------
(* The inductive invariant.                                                *)

Busy == {"prefetch", "retry", "sync", "encode", "clear"}

\* While a cue is worked on it is due; tracks the inner loop has left have none due.
LoopInv ==
  /\ pc \in Busy => Due(trk)
  /\ pc \in Busy \cup {"cues"} => \A t \in Tracks : t < trk => ~Due(t)
  /\ pc = "copy" => \A t \in Tracks : ~Due(t)
  /\ pc = "copy" => Mode # "png_all"
  /\ pc \in Busy \cup {"cues", "copy"} /\ Mode # "png_all" =>
       pkt.stream \in InputStreams \cup LateStreams
  /\ pkt.time # NOPTS => last_valid = pkt.time

\* Is t the track whose cue was just handled and not yet cleared?
Clearing(t) == pc = "clear" /\ t = trk

\* Everything written is at or before last_pts and belongs to a place already passed.
WriteInv ==
  \A t \in Tracks :
    /\ last_pts[t] = NOPTS => out[t] = <<>>
    /\ \A i \in 1..Len(out[t]) :
         /\ out[t][i].pts <= last_pts[t]
         /\ out[t][i].cue \in 1..Count(t)
         /\ Place(out[t][i]) < 2 * cur_sub[t] + IF Clearing(t) THEN 1 ELSE 0

\* Jobs, the bitmap in hand and the pictures saved belong to their cues.
PictureInv ==
  /\ \A t \in Tracks : \A k \in 1..Count(t) : \A i \in 1..Len(jobs[t][k]) :
       jobs[t][k][i].data \in {Picture(t, k), Empty}
  /\ pc = "encode" => bm \in {Picture(trk, cur_sub[trk]), Empty}
  /\ \A t \in Tracks :
       Len(saved[t]) = IF Mode = "mux" THEN 0
                       ELSE cur_sub[t] - 1 + IF Clearing(t) THEN 1 ELSE 0

\* Cues not yet handled start after every packet that was copied.
PeakInv ==
  peak # NOPTS =>
    \A t \in Tracks : \A k \in 1..Count(t) : k >= cur_sub[t] => peak < StartTick(t, k)

\* On a roomy track the last time stamp is no later than what it stands for.
DriftInv ==
  \A t \in Tracks : Roomy(t) /\ last_pts[t] # NOPTS =>
    IF Clearing(t) THEN last_pts[t] <= start0 + StartTick(t, cur_sub[t]) + MS
    ELSE /\ cur_sub[t] - 1 \in 1..Count(t)
         /\ last_pts[t] <= start0 + EndTick(t, cur_sub[t] - 1)

\* What the loop keeps true from step to step: time stamps and order of events
\* follow from WriteInv, pictures from PictureInv, lateness from PeakInv.
MuxInv ==
  /\ TypeOK /\ LoopInv
  /\ WriteInv /\ PtsIncreasing /\ EventOrder
  /\ PictureInv /\ CueMatches
  /\ PeakInv
  /\ DriftInv /\ DriftBounded
=============================================================================
