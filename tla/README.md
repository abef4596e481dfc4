# Verification of srt2dvbsub

srt2dvbsub reads an MPEG transport stream and one or more SRT (or ASS) subtitle
files, renders every cue to a palettised bitmap, encodes it as a DVB subtitle and
muxes it into a copy of the stream. A second program of the repository,
dvdbr2dvbsub, converts the bitmap subtitles of DVDs and Blu-rays. This directory
holds TLA+ models of their parts, the TLC configurations that check them, and
proofs checked by TLAPS. `PROJECT.json` lists components, runs, mutants, the map
from definitions to source lines, hazards, findings and theorems.

File names below are relative to `src/src/`.

## The parts and how they interact

| Part | State it keeps | What makes it correct | Module |
|---|---|---|---|
| Program and batch (`main`, `batch_encode.c`) | directories to read, files found, counters | every file is accounted for and encoded with its own subtitles; the exit code tells failures | `BatchEncode` |
| One run (`srt2dvbsub_run_cli`, `cli_parse`, `ctx_cleanup`) | globals, options, what is allocated, the output file | everything is released on every path; the status tells what happened; the next file starts afresh | `EncodeRun`, `CommandLine` |
| Setup (`ctx_init`, `ctx_parse_tracks`, `apply_custom_pids`) | output streams, PIDs, overwrite targets, tracks | PIDs are distinct; a track owns its stream and replaces one of its language | `TrackSetup` |
| SRT parser and quality control (`srt_parser.c`, `qc.c`) | cues, statistics, texts | no cue lost, cues in order, counts that add up, texts that keep their glyphs | `SrtParser`, `SrtText` |
| Demux/mux loop, PNG-only modes (`ctx_demux_mux_loop`, `muxsub.c`) | per track `cur_sub`, `last_pts`, the encode buffer | due cues are emitted once, in order, on time, with their picture, followed by a CLEAR | `SubtitleMux` |
| Render pool (`render_pool.c`) | queue, keyed list, threads, job containers | no container freed twice, lost or used after free; nobody waits for ever | `RenderPool`, `RenderService` |
| Subtitle construction, buffers (`dvb_sub.c`, `pool_alloc.c`) | cached buffers | each buffer has one owner and the size it is taken for | `SubtitleBuffers` |
| Bitmap converter (`dvdbr2dvbsub.c`) | tracks, their last PTS, the output | pictures, times and order of the source | `Converter` |

`main` calls `srt2dvbsub_run_cli` once, or once per file of a batch in the same
process. A run parses its options into globals, starts the render pool, sets up
streams and tracks (parsing the subtitle files), opens the output and runs the
loop. For each due cue the loop asks the pool for a result (`try_get`), else renders
synchronously, and on an unknown key submits a window of eight cues ahead. The
bitmap goes through `make_subtitle` and `encode_and_write_subtitle` to the writer.
`ctx_cleanup` ends every path and stops the pool first.

The models are composed as the code is: `BatchEncode` EXTENDS `EncodeRun`, which
EXTENDS `TrackSetup`, which EXTENDS `CommandLine`, and the run `program` checks the
composition; that it also satisfies the specification of `TrackSetup` alone
(`SetupSpec`) carries what is proved about the setup over to the program.
`Converter` EXTENDS `SubtitleBuffers`. The loop is checked against the pool as
`RenderService` promises it, and `RenderPool` is shown to implement `RenderService`;
`CueAssumption` of `SubtitleMux` is what `RepairSound` of `SrtParser` gives.

## Modules

* `RenderPool` — one action per critical section of `job_mtx`, because the queue and
  the keyed list are only touched while it is held and no section blocks. What
  the code reads outside it (`pool_active`; the depth check before the second
  section of submit) is a step of its own. Publishing a result is two steps,
  `WorkerPublish` (store the result and `done`) and `WorkerNotify` (signal and unlock),
  because `try_get` reads `done` without `done_mtx`. `queue` and `all_jobs` are sequences
  of job addresses; `mem` records the life of each address and turns to `corrupt` on a
  second free; addresses are never reused, so a dangling pointer stays visible.
  `bitmap` records who owns the result. A cue stands for the key and its markup.
  `Overlap = FALSE` is the use srt2dvbsub.c makes of the pool, all calls from one
  thread; `Overlap = TRUE` lets callers run against each other and against start and
  shutdown, as `testharness/` does. The pool is not started while it is up. A
  worker's signal on a container that was freed in the meantime has no further effect
  in the model; that it can happen at all is the subject of the run `pool_notify`.
* `RenderService` — what the pool promises: an accepted job is completed, then
  delivered once or discarded; closing drops no accepted job.
* `SubtitleMux` — `ctx_demux_mux_loop`, `ctx_png_only_render_all` and
  `encode_and_write_subtitle`. `pc` is the place in the loop: `read` at `av_read_frame`,
  `cues` at the inner `while`, `prefetch` and `retry` in the window and at the second
  `try_get`, `sync` before the blocking render, `encode` and `clear` before the two
  events, `copy` before the packet is written. `cur_sub`, `last_pts` and `enc` are the
  fields of `SubTrack` (cues counted from 1); `last_valid` is `last_valid_cur90`. `jobs` is
  the pool seen from outside: per key the submitted jobs, newest first. Workers and
  the signal handler step between the calls of the main thread. Each call that may
  fail is named in `Faults` and failing is a branch of its action. Packet times are
  arbitrary, may go back, and may be missing. Times are in ticks, `MS` per millisecond;
  the conversion to the stream's time base is the identity for MPEG-TS (1/90000) and is
  left out, as is 64-bit overflow of times. The writer's mutex has no step, because
  only the main thread writes. ASS rendering is the case without a pool.
* `SrtParser` — `parse_srt_internal` and `parse_srt_with_stats` (`mode`), one action per
  kind of block they meet: cue stored, malformed index, times or text, end of file;
  each with the statistics, the overlap repair and the call of `qc_check_entry`, and
  each allocation as a branch. A file is the sequence of lines `fgets` returns; a line
  is blank, an index, a times line in one of the formats the parsers tell apart, or a
  text of some length. `live` counts the text strings allocated.
* `SrtText` — what happens to one text: `sanitize_utf8`, `normalize_cue_text` with
  wrapping, `strip_tags`, the size checks, the conversion of markup for libass. Pure
  functions over sequences of bytes, one step per stage, checked against definitions
  of what a valid text, its glyphs and its width are.
* `CommandLine` — the lists and numbers of the command line as functions of the pieces
  between commas; no state of its own.
* `TrackSetup` — one action per stream mirrored, list parsed, track added (onto a new
  stream or an overwrite target), PID list applied, flag list applied, and one per
  early return. `held` is what is allocated, `ret` what the run will return.
* `EncodeRun` — one run: every option with its checks and globals, the start of the
  pool, `--qc-only`, `--png-only` and encoding, trailer, cleanup. The packet loop is one
  step that ends at the end of the input or at a stop (`SubtitleMux` has its detail). `g` are the globals that
  outlive the run. A signal may set `stop` at any step once its handler is installed.
* `BatchEncode` — `main`, the options of the batch read one at a time, the walk over
  directories (`lstat`, no links), templates resolved one at a time, the command line
  made for each file, its run, counting. Paths are sequences of names and a directory
  is a set of entries, read in any order (`readdir`).
* `SubtitleBuffers` — `make_subtitle` with each of its allocations, the pool of
  buffers, `free_sub_and_rects`; a buffer is the size it was allocated with.
* `Converter` — `main` of dvdbr2dvbsub.c from options to cleanup: detection of the frame
  rate, one action for each track opened, packet read, blank written, event converted,
  written and flushed; pictures are rows of pixels with a palette, `written` is what the
  file contains. A colour is the 32-bit word `rgba_to_indexed` packs, as its four bytes. An
  event is its first rectangle, because main drops any other (809, 1084). Where the code
  uses a pointer that was never assigned the process may crash.
* `MCRenderPool`, `MCSubtitleMux`, `MCSrtParser`, `MCSrtText`, `MCBatchEncode`, `MCConverter` —
  the instances for TLC.
* `RenderPool_proofs`, `SubtitleMux_proofs`, `SrtParser_proofs`; `Converter_operators`,
  `Converter_proofs`, `Converter_events`; `EncodeRun_proofs` (with the setup) and
  `BatchEncode_proofs` — the proofs.

Definitions that are named after another with a suffix (`DueAt_Strict`) are mutants:
the form a plausible slip in the code would have. Each property is violated when its
mutant replaces the original, as `PROJECT.json` lists.

## Runs

Passing runs check properties of the code as it is; the runs `pool_notify` and
`setup_flags` show what contradicts the repository's own words (see Findings).

| Run | Shows | Instance | States |
|---|---|---|---|
| `pool_program` | nothing left after shutdown (`CleanAfterShutdown`); blocked calls return, submitted jobs are rendered, shutdown returns; the pool implements `RenderService` (`RefinesService`) | 2 workers, 1 caller, 3 jobs, depth 1, 2 starts, failing creation | 29,284 |
| `pool_overlap` | `CallerSafe`, `ResultMatches`, `QueueBounded`, the inductive `PoolInv` with callers racing each other and shutdown | 2 workers, 2 callers, 3 jobs, 2 cues, depth 1, 2 starts, failing creation; symmetry of workers, callers, jobs and cues | 415,801 |
| `mux_tracks` | no cue lost or submitted twice (`NoEventLost`), left behind (`CaughtUp`) or late (`NeverLate`) | 2 tracks of 2 cues, delays -1 and 1, packet times back and forth | 2.8 million |
| `mux_faults` | time stamps, order and pictures although every call may fail; the inductive `MuxInv` | 1 track of 2 cues, window 2, buffer sizes 2 and 3 | 1.8 million |
| `mux_drift` | the time-stamp bump never adds up on cues of 2 ms or more; a stop request ends the loop | 3 cues within 8 ms, no pool, failing encodes and writes, endless input | 496,510 |
| `mux_png` | every cue saved once without an input | 2 tracks of 3 cues, window 2 | 10,922 |
| `srt_parse` | `RepairSound`, `NoCueLost`, `Accounting`, `TextsOwned` | all files of up to three of 15 blocks, with and without blank lines, both parsers, any allocation failing | 98,972 |
| `srt_text` | `SanitizeSound`, `GlyphsKept`, `WrapFits` | all texts of up to 4, 5 or 7 bytes over four alphabets | 167,547 |
| `program` | distinct PIDs, owned streams, released resources, independent files, true status, batch accounts, right subtitles, the setup's own specification, termination | a menu of command lines over five inputs and nine directories, PIDs 2 to 6, 2 tracks, 2 targets, one failing call, a signal at any step | 87,178 |
| `convert` | `CacheSound`, `TimesSound`, `StreamComplete`, `PictureExact`, `ExitTruthful` | files of a few packets with and without video, HD (width 2) and Ultra HD (4), palettes of 2, two failing calls, a signal at any step | 77,560 |
| `pool_notify` | finding: a container is freed before the worker's signal | 1 worker, 1 caller, 1 job | |
| `setup_flags` | finding: flags are parsed after the metadata was written | as `program` | |

Bounds of the pool: two workers are needed for competing dequeues and one of two being
created; two callers for every pairwise race; three jobs for a queue with a job in
front of and behind the one observed, and for duplicate keys; two starts for a
restart. `MAX_QUEUE_DEPTH` is 1 instead of 1024 so that the limit is met; with two
callers `QueueBounded` is met by each of the ways past it, a sync that does not look at
the depth and a submission in the gap between the check and the enqueue.

Bounds of the loop: two tracks make one track's cues interleave with the other's in
the same packet; two or three cues give touching, separate and zero-length
neighbours; a window of 2 against 3 cues ends both by size and by the end of the list; a
buffer of 2 with a maximum of 3 fills, grows, and is capped. Two ticks per
millisecond distinguish a bump from a tick.

Bounds of the parser: three blocks give a malformed block before, between and after
cues; the array of `InitCap` = 2 has to grow for the third. The times of the cues
touch, overlap, contain one another, end together and are far apart. A text buffer
of 9 is exceeded by two lines. Texts: lines of 3 characters, 3 lines, so that 7 bytes
wrap twice and fill the lines; multi-byte sequences of 2 and 3 are cut at each place.

Bounds of the program: two tracks reach the limit of `MaxTracks` and two targets that
of `MaxTargets`; PIDs 2 to 6 make the search for a free one run out (`full.ts`). The
menu of command lines has each option valid and invalid, and each combination the
code tests for. One failing call per file is enough to enter every error path;
a signal comes on top. `MCTree` has a loop of links, an unreadable directory, files at
three depths.

Bounds of the converter: pictures of one to three pixels against widths of 2 and 4 are
scaled or not; two colours in the palette make a picture of three overflow it; `IntMax`
3 makes the benchmark counters saturate; two failures reach a failure during the
handling of another.

Fairness. Pool: a worker, a caller inside an operation and the main thread inside an
operation keep running (weak fairness per thread), as the operating system schedules
them. Nothing obliges a caller to call, main to stop the pool, or a condition wait to
end without a signal. Loop: only the main thread is assumed to be scheduled
(`WF_vars(MainStep)`); no worker is obliged to finish, because the loop falls back to a
blocking render, which `RenderService` lets return; the input need not end. Program:
one thread, `WF_vars(Steps)`: it keeps running; a signal need not come.

Deadlock is checked everywhere but in `srt_text`, where a text that went through all
stages has no further step. A program that has returned takes an explicit stuttering
step (`Returned`, `Exited`, `Over`).

## Proofs

A theorem holds for every value of the constants; each is about a definition that
the runs check on a small instance, or an inductive invariant behind one.

**Pool.** `RenderPool_proofs` proves `Spec => []PoolInv` for all constants satisfying
`PoolAssumption` (at least one worker, `None` outside jobs and cues, a positive depth),
for both values of `Overlap` and `CreateMayFail`. From it follow type correctness, memory
safety of the lists, exclusive rendering, caller safety, single ownership of bitmaps
and matching results. The safety properties are not inductive alone. `PoolInv` adds
what ties program counters to containers: a worker holds a job exactly between dequeue
and notification and no two hold the same one (`WorkersSound`); a caller has a job
exactly while a sync or a successful `try_get` is under way, it is for the requested
cue, and it has one counted waiter from the enqueue on (`ClientsSound`); a waiter count
belongs to a blocked caller, a container marked freed is in no list, and a bitmap exists
exactly when `done` is set (`JobsSound`). The argument that shutdown frees no container
under a blocked caller is: a queued job with a waiter count of zero is nobody's
transient job, so it is in the keyed list only. The module has the facts about
appending, unlinking and removing the head of a list, and `Frame`, `JobsFrame` and
`ListFrame`, which say what each part of `PoolInv` reads.
Three results need more. `CleanAfterShutdown` holds when main alone calls the pool
(`~Overlap`, the use of the program): `OneThread` says that then no call is under way
while main is inside init or shutdown, so nothing is queued behind the last worker.
`QueueBounded` holds for any finite set of callers: what lies in the queue beyond the
limit is accounted for by callers past the depth check and by callers whose own job is
queued (`QueueCount`). `PoolImplementsService` shows,
again for `~Overlap`, that every step of the pool is a step of `RenderService` or leaves
what its callers see unchanged; the fairness of that specification is left to TLC.

**Loop.** `SubtitleMux_proofs` proves `Spec => []MuxInv` for all constants satisfying
`MuxAssumption` and `CueAssumption`: any number of tracks, cues, packets and window
size, every set of faults and all three modes. From it follow type correctness
(with the cap on the buffer), `PtsIncreasing`, `EventOrder`, `CueMatches`, `CaughtUp`,
`DriftBounded` and the action property `NeverLate`. Increasing time stamps need that
everything written is at or before `last_pts`, also after a failed write, which moves
`last_pts` but writes nothing; order needs that everything written has a place before
the current one (`WriteInv`). `DriftInv` bounds `last_pts` itself: after a CLEAR by the end
of that cue, after a cue by its start plus one bump. `PictureInv` ties jobs and the
bitmap in hand to their cue. `LoopInv` says that the cue worked on is due and that
tracks already passed have none due; with the order of cues this gives `PeakInv`, that
cues not yet handled start after every packet copied, and so `NeverLate`, which needs an
input that starts at zero or later. `NoEventLost` rests on two more invariants: while
no call fails, what a track has written is determined by `cur_sub` and the place in the
loop, two events for each cue passed (`WrittenCount`); and the jobs of a track lie in
the window from the current cue on, each submitted once (`JobsWindow`). `AllSaved`
follows because the preview, which has no input, ends only when no cue is due and
`cur_sub` is never moved past the end of the list (`EndInv`).

**Parser.** `SrtParser_proofs` proves `Spec => []ParserInv` for files of any length over
any lines, both parsers, any failing allocation. From it follow `RepairSound`,
`NoCueLost`, `TextsOwned` and, with the counters followed block by block (`StatsInv`,
`QcInv`), `Accounting`. `NoCueLost` speaks of the finished parser; the invariant
behind it (`Resynchronised`) is that the position is never inside a well-formed cue:
every one before it is stored. That a rejected block ends no later than the next
well-formed cue begins rests on a blank line before each: the skip to the next blank
line, defined as the smallest such position, cannot pass it. With `RepairSound` for
every file, `CueAssumption` of the loop holds for whatever the parser returns.

**Setup.** The first part of `EncodeRun_proofs` proves `SetupSpec => []SetupInv` for every input, all
options and any failing calls, and from it `DistinctPids` and `StreamsOwned`. The
invariant says, by stage, how output streams mirror input streams, that each target is
a mirrored subtitle that may be overwritten and is listed once, that exactly the used
targets carry tracks, and where each PID comes from: preserved, taken over with a
target, or above every PID seen. Distinctness follows because a new PID is the
one after the highest (`max_pid`), and because `apply_custom_pids` refuses a list that
repeats a PID or meets that of a stream without a track.

**Program.** `BatchEncode_proofs` takes these results to the whole program, for all
command lines, directory trees, inputs and failing calls that satisfy `RunAssumption` and
`ProgramAssumption` (directories are finite, a directory's entries are entries of the
tree, names in a batch are ranked). `Literals` and `NoName` only tell the provers that
literals are strings. The invariant is built in layers, each proved with those before
it. `OptionsInv` and `LineInv` type the options through `cli_parse` and through the
batch's own parser, whose forwarded arguments become the command line of each file
(`ProgramTypes`). With them every step of the program is a step of the setup or leaves
its variables alone, so that `SetupSpec` is implemented (`ProgramImplementsSetup`) and
`DistinctPids` and `StreamsOwned` hold in every run of a batch. `LinkInv` says that the run
and its context agree where they are, and that whatever is held belongs to the context
or to a track that `ctx_cleanup` counts: this gives `ResourcesReleased`, because a track
is counted before anything is allocated for it. `WorkInv` ties the state of the output
file, the mode and the counters of `--qc-only` to the phase and gives `StatusTruthful`.
`ScanInv` says that the directories visited or on the stack are below the input
directory and that those inside a visited one are visited or on the stack; an empty
stack then means that all were visited, in whatever order `readdir` lists them. `QueueInv`
says that each file found is counted once or still queued, that the queue is sorted,
and that it is left over only after a stop. Together they give `BatchAccounts`.

**Converter.** `Converter_operators` has what the functions of the model return: buckets,
numbers, sequences, the scaling and the palette of a bitmap. `Converter_proofs` proves
`Spec => []ConverterInv` for every file, command line and number of failing calls that
satisfy `ConverterAssumption`, which says what libavcodec gives: a palette has room for
all its entries, the rows of a picture have its width, and an event without a picture
has none. The invariant has six parts. `Place` ties the event in hand
to its track and packet. `CacheInv` says that a bucket holds at most the one buffer of its
size and that the palette in hand is not refused; it gives `CacheSound`. `HeldInv` and
`ExitInv` follow what main holds and how it ends, which gives `ExitTruthful`; `BenchInv`
follows the counters. `TimesInv` relates each packet written to the last PTS of its track and
to the time of its event, which gives `TimesSound`: strictly increasing, never early, and
moved only to follow the packet before. `Converter_events` adds `StreamInv`, which tells from
the place of main which blanks and events each track must have got; `VideoSeen` says that the
blanks were begun exactly when main is past the packet that starts the streams, so that
events before it are written before the blank and the others after it (`StreamComplete`).
The last part is `PictureInv`: the bitmap in hand and every bitmap in the file show their source
(`PictureExact`).

Only model-checked: liveness under fairness and anything with ENABLED
(`SyncReturns`, `JobsComplete`, `ShutdownReturns`, the fairness in `RefinesService`, `StopEnds`,
`Exits`), which the prover does not handle; `SanitizeSound`, `GlyphsKept` and `WrapFits` of
`SrtText`, whose operators are RECURSIVE; `FilesIndependent`, which compares the globals with
what reading the options from the start gives, and `PairedAsResolved`, which compares the
tracks with lists whose empty pieces were dropped (`SelectSeq`): both need induction over data, and the library's induction theorems have an
operator as a parameter, which none of the installed provers can instantiate.

## Findings

* `pool_notify`: `render_pool_try_get` tests `done` without `done_mtx` (`render_pool.c:676`)
  and frees the container, while the worker that stored `done` still has to signal and
  unlock it (373-375).
* `setup_flags`: `ctx_parse_tracks` writes the metadata `forced` and `hearing_impaired` of a
  stream (`srt2dvbsub.c:1725`) before `--forced` and `--hi` are parsed (3437-3454), so no
  stream carries them.

More configurations show behaviour a maintainer should know, most of it where a
document or a comment promises something else; each is violated and none is part of the
passing runs, whose properties leave the point open:

* `MCRenderPool_hang.cfg` (`SyncReturns`): a sync call that races with shutdown can wait
  for ever (`render_pool.c:507`; `testharness/render_pool_sync_vs_shutdown_test.c` races
  them). The program calls both from one thread. Liveness under overlap is therefore
  not claimed.
* `MCRenderPool_partial.cfg` (`InitReturns`): when creating a thread fails, `running` is
  cleared without waking the workers that already wait, and they are joined
  (`render_pool.c:408`): `render_pool_init` can block. In `EncodeRun` this is the phase
  `hung`, which `Exits` excepts.
* `MCSubtitleMux_garbage.cfg` (`PayloadIntact`): after `av_realloc` moved the encode buffer
  the packet is filled from the old address (`muxsub.c:245`).
* `MCSubtitleMux_leak.cfg` (`BitmapsFreed`): the bitmap is not freed when `make_subtitle` fails
  (`srt2dvbsub.c:2044`).
* `MCSubtitleMux_late.cfg` (`OneSource`): a stream the demuxer adds late is copied into a
  subtitle track's stream (`srt2dvbsub.c:2140`).
* `MCSrtParser_overlap.cfg` (`OverlapsReported`): overlaps are repaired before quality
  control sees them, so it never reports one, although `DETAILS.txt:570` and the check in
  `qc.c:158` promise it.
* `MCBatchEncode_qc.cfg` (`QcExit`): `--qc-only` returns 0 whatever errors it has counted;
  `DETAILS.txt:573` says 1 on a validation failure.
* `MCBatchEncode_png.cfg` (`DefaultFallback`): when the default PNG directory cannot be made,
  its fallback is taken just when it cannot be made either (`png_path.c:202`); that of
  `--png-dir` is right (181).
* `MCBatchEncode_links.cfg` (`LinksFollowed`): a comment (`batch_encode.c:1148`) says that the
  scan follows links; `lstat` does not. `BatchAccounts` allows either.
* `MCBatchEncode_comma.cfg` (`CommasKept`): resolved paths are joined with commas and cut at
  every comma again (`srt2dvbsub.c:1768`), so that a track can be encoded from a piece of a
  path and the languages shift. `PairedAsResolved` is about paths without a comma.
* `MCConverter_fps.cfg` (`RateOverridden`): the help (`dvdbr2dvbsub.c:171`) says that
  `--src-fps` overrides the detected rate; the detected one overrides it (495).
  `TimesSound` is about the rate main works with.
* `MCConverter_argb.cfg` (`ColoursRead`): `rgba_to_indexed` packs red highest and alpha lowest
  (213), while a palette is read as ARGB (`render_pango.h:82`, `dvb_sub.c:279`).
  `PictureExact` is about the word that was packed.

What the models had to reproduce to stay faithful, and the properties therefore
except or state as it is:

* Setup and run: a start PID whose count would touch the highest PID is refused
  (`srt2dvbsub.c:1343`), one earlier than needed. A subtitle outside the filter of
  `--overwrite` loses its preserved PID (1103). Subtitles beyond the eighth are dropped
  silently (1480). An unknown option gives exit code 0. A stop gives status 0 with a
  truncated file, which a batch counts as processed; the result of `av_write_trailer` is
  ignored. A pool that could not be created leaves zero threads for the files after
  it, and a video without a size leaves that of the file before.
* Options: the command line refuses `--delay` lists, which `delay_parse.c` would accept;
  equal languages are compared with regard to case.
* Batch: the dry run prints one argument too few (`batch_encode.c:1661`). When both default
  templates match, a file has two English tracks and fails.
* Parser: `validate_cue_size` measures a line to the end of the text. A word as wide as the
  line leaves an empty line in front of it. A tag that runs over the end of a line joins
  two lines when it is stripped, which may then be too wide (`TagAcross`). Colours go to
  libass as RRGGBB (`srt_parser.c:463`), and a font tag without quotes is mishandled, as one
  with several attributes is (`GlyphsKept` is about tags with one, quoted). When the array
  cannot grow, or a text cannot be stripped in stats mode, texts leak and the counts are
  off (`Accounting`, `TextsOwned`).
* Converter: options that end it return with what was duplicated by then (404-441), so
  `ExitTruthful` is about accepted options. When the input does not open, the cleanup reads
  a variable whose declaration was jumped over. A text flushed in an Ultra HD stream
  divides by zero (1153), and some branches record no length for a palette of zeros (950,
  968, 1238). The blank that starts a stream follows subtitles demuxed before the first
  video packet. The fallback time is scaled and delayed a second time. Names of debug
  pictures leak. Without a matching language the header fails.

## Not modelled

* The Pango and ASS renderers: layout, rasterisation, anti-aliasing and quantisation
  are floating-point image code; to the loop and the pool they are one step that gives
  a bitmap or an empty one. The conversion of pictures in `Converter` is integer code and
  is modelled.
* Character scanning: digits of numbers, the ISO 639 table, names of PNG files, the
  pattern of an episode in a file name. Values enter as what the scanners return.
* `pool_destroy` and `bitmap_release` of the converter, `normalize_tags` and
  `parse_ass_color` of the parser: nothing calls them.
* `calculate_fontsize`, font enumeration, help and license texts, logging, progress lines
  and the timing counters of `bench.c`: they report or feed the renderer.
* 64-bit overflow of time stamps, and what the libraries do beyond failing or not.
