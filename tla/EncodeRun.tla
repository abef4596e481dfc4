------------------------------- MODULE EncodeRun -------------------------------
(***************************************************************************)
(* One call of srt2dvbsub_run_cli (src/srt2dvbsub.c): cli_parse reads the  *)
(* options into globals and locals, the pool is started and the signal     *)
(* handlers are installed, and then the run checks the files (--qc-only),  *)
(* previews the subtitles as PNGs (--png-only), or sets up the tracks as   *)
(* in TrackSetup, opens the output, runs the loop of SubtitleMux and       *)
(* writes the trailer.  ctx_cleanup ends every path.                       *)
(*                                                                         *)
(* The globals outlive a run: a batch calls srt2dvbsub_run_cli once per    *)
(* file in the same process.                                               *)
(***************************************************************************)
EXTENDS TrackSetup

CONSTANTS
  GoodFiles,     \* the names of subtitle files that exist and parse
  AssFiles,      \* the names that end in .ass or .ssa
  LongPaths,     \* the names validate_path_length refuses
  Disks          \* the sets of PNG directories that can be created and written

ASSUME RunAssumption == Disks # {}

\* A literal is a string, which the provers have to be told.
ASSUME NoName == "" \in STRING

VARIABLES
  phase,     \* where the run is
  args,      \* its command line
  optind,    \* where getopt_long continues
  g,         \* the globals of src/runtime_opts.c and src/png_path.c
  l,         \* the options that are local to the run
  disk,      \* the PNG directories that can be used
  armed,     \* the signal handlers are installed
  stop,      \* stop_requested
  pool,      \* the render pool runs
  file,      \* the output file of this run
  qc,        \* ctx_run_qc_only: files checked, files that did not parse, total_errors
  status,    \* what srt2dvbsub_run_cli returned
  mishaps    \* calls of the run itself that failed

run == <<phase, args, optind, g, l, disk, armed, stop, pool, file, qc, status, mishaps>>

\* An option: its name, the pieces of its value, and for --sub-position the tracks.
Opt(o, v) == [opt |-> o, val |-> v, spec |-> <<>>]

\* What getopt_long returns: the options it knows, "unknown" for any other and
\* "argument" for what is none.  Those of the first kind have a value.
Valued ==
  {"input", "output", "debug", "list-fonts", "font-size", "margin-top", "margin-left",
   "margin-bottom", "margin-right", "color", "enc-threads", "render-threads", "ssaa", "png-dir",
   "ts-bitrate", "overwrite"}
Plain ==
  {"srt", "languages", "forced", "hi", "delay", "pid", "help", "license", "unknown", "argument",
   "qc-only", "bench", "palette", "ass", "font", "font-style", "sub-position", "no-unsharp",
   "png-only", "no-preserve-pids"}
RunOption ==
  {a \in [opt : Valued \cup Plain, val : Seq(Piece), spec : Seq([pos : Int, margins : Seq(Piece)])] :
     a.opt \in Valued => a.val # <<>>}

\* A name or a language as a piece; val 1 is a language in capitals.
Word(w) == [kind |-> w, val |-> 0]

Globals ==
  [debug |-> FALSE, video |-> 480, ass |-> FALSE, enc |-> 0, render |-> 8, ssaa |-> 4,
   unsharp |-> TRUE, pids |-> <<>>, overwrite |-> FALSE, only |-> <<>>, preserve |-> TRUE,
   png_only |-> FALSE, png |-> [dir |-> "pngs", explicit |-> FALSE], mode |-> "unspecified",
   rate |-> 0, spec |-> <<>>, configs |-> [t \in 1..MaxTracks |-> DefaultPosition]]

Locals ==
  [input |-> "", output |-> "", srt |-> <<>>, lang |-> <<>>, forced |-> <<>>, hi |-> <<>>,
   qc |-> FALSE, bench |-> FALSE, delay |-> <<>>, fontsize |-> 0, over |-> <<-1, -1, -1, -1>>]

-----------------------------------------------------------------------------
(* src/png_path.c.                                                         *)

\* The directory exists and is writable, or mkdir creates it.
ensure_directory(dir) == dir \in disk

\* Mutant: the fallback of --png-dir is taken when it cannot be created.
FallbackTaken_Inverted == ~ensure_directory("tmp")

\* --png-dir falls back to a directory of the process under /tmp.
FallbackTaken == ensure_directory("tmp")

\* What init_png_path returns and the directory it leaves.  "" is a null path.
\* The default directory falls back when the fallback cannot be created.
init_png_path(png, custom) ==
  CASE png.explicit /\ custom = "" -> [code |-> 0, png |-> png]
    [] custom # "" /\ ensure_directory(custom) ->
         [code |-> 0, png |-> [dir |-> custom, explicit |-> TRUE]]
    [] ~png.explicit /\ custom = "" /\ ensure_directory("pngs") ->
         [code |-> 0, png |-> [png EXCEPT !.dir = "pngs"]]
    [] custom # "" /\ ~ensure_directory(custom) ->
         IF FallbackTaken THEN [code |-> 0, png |-> [dir |-> "tmp", explicit |-> TRUE]]
         ELSE [code |-> -1, png |-> png]
    [] OTHER ->
         IF ~ensure_directory("tmp") THEN [code |-> 0, png |-> [png EXCEPT !.dir = "tmp"]]
         ELSE [code |-> -1, png |-> png]

-----------------------------------------------------------------------------
(* The options of cli_parse.  s is [code, g, l]: code -1 while parsing     *)
(* goes on, otherwise what cli_parse returns.                              *)

validate_path_length(a) == \A i \in DOMAIN a.val : a.val[i].kind \notin LongPaths

Refuse(s) == [s EXCEPT !.code = 1]

PathOption(s, a) ==
  IF ~validate_path_length(a) THEN Refuse(s)
  ELSE CASE a.opt = "input"  -> [s EXCEPT !.l.input = a.val[1].kind]
         [] a.opt = "output" -> [s EXCEPT !.l.output = a.val[1].kind]
         [] a.opt = "srt"    -> [s EXCEPT !.l.srt = a.val]

\* --languages, --forced and --hi keep their lists.  --help and --license end the
\* run, and so does what getopt_long does not know, with the same code.
ListOption(s, a) ==
  CASE a.opt = "languages" -> [s EXCEPT !.l.lang = a.val]
    [] a.opt = "forced"    -> [s EXCEPT !.l.forced = a.val]
    [] a.opt = "hi"        -> [s EXCEPT !.l.hi = a.val]
    [] a.opt \in {"help", "license", "unknown"} -> [s EXCEPT !.code = 0]

SwitchOption(s, a) ==
  CASE a.opt = "debug"      -> [s EXCEPT !.g.debug = a.val[1].val > 0]
    [] a.opt = "qc-only"    -> [s EXCEPT !.l.qc = TRUE]
    [] a.opt = "bench" -> [s EXCEPT !.l.bench = TRUE]
    [] a.opt = "palette"    -> s
    [] a.opt = "ass"        -> [s EXCEPT !.g.ass = TRUE]

\* The value of --list-fonts here is what fontlist_print_all returns.
FontOption(s, a) ==
  CASE a.opt = "list-fonts"   -> [s EXCEPT !.code = IF a.val[1].val = 0 THEN 0 ELSE 1]
    [] a.opt \in {"font", "font-style"} -> s
    [] a.opt = "font-size"    -> IF validate_fontsize(a.val[1])
                                 THEN [s EXCEPT !.l.fontsize = a.val[1].val] ELSE Refuse(s)
    [] a.opt = "sub-position" -> [s EXCEPT !.g.spec = a.spec]

MarginOption(s, a) ==
  LET i == CASE a.opt = "margin-top"    -> 1
             [] a.opt = "margin-left"   -> 2
             [] a.opt = "margin-bottom" -> 3
             [] a.opt = "margin-right"  -> 4
  IN  IF ValidMargin(a.val[1]) THEN [s EXCEPT !.l.over[i] = a.val[1].val] ELSE Refuse(s)

\* Foreground, outline, shadow and background.
ColorOption(s, a) == IF validate_color(a.val[1].val) THEN s ELSE Refuse(s)

DelayOption(s, a) ==
  IF parse_single_delay(a.val) = "ok" THEN [s EXCEPT !.l.delay = a.val] ELSE Refuse(s)

RenderOption(s, a) ==
  CASE a.opt = "enc-threads"    -> [s EXCEPT !.g.enc = enc_threads_of(a.val[1])]
    [] a.opt = "render-threads" -> [s EXCEPT !.g.render = render_threads_of(a.val[1])]
    [] a.opt = "ssaa"           -> [s EXCEPT !.g.ssaa = a.val[1].val]
    [] a.opt = "no-unsharp"     -> [s EXCEPT !.g.unsharp = FALSE]

OutputOption(s, a) ==
  CASE a.opt = "png-dir"    -> LET r == init_png_path(s.g.png, a.val[1].kind)
                               IN  IF r.code = 0 THEN [s EXCEPT !.g.png = r.png] ELSE Refuse(s)
    [] a.opt = "pid"        -> [s EXCEPT !.g.pids = a.val]
    [] a.opt = "ts-bitrate" -> IF a.val[1].kind = "auto" THEN [s EXCEPT !.g.mode = "auto"]
                               ELSE IF ValidRate(a.val[1])
                               THEN [s EXCEPT !.g.mode = "fixed", !.g.rate = a.val[1].val]
                               ELSE Refuse(s)
    [] a.opt = "png-only"   -> [s EXCEPT !.g.png_only = TRUE]

LangsOf(list) == [i \in DOMAIN list |-> [code |-> IF list[i].kind = "empty" THEN "" ELSE list[i].kind,
                                         upper |-> list[i].val = 1]]

OverwriteOption(s, a) ==
  CASE a.opt = "no-preserve-pids" -> [s EXCEPT !.g.preserve = FALSE]
    [] a.opt = "overwrite" ->
         LET t == [s EXCEPT !.g.overwrite = TRUE]
         IN  IF a.val = <<Nothing>> THEN Refuse(t)
             ELSE IF a.val[1].kind \in {"all", "*"} THEN [t EXCEPT !.g.only = <<>>]
             ELSE IF validate_language_list(LangsOf(a.val)) THEN [t EXCEPT !.g.only = LangsOf(a.val)]
             ELSE Refuse(t)

ParseOption(s, a) ==
  CASE a.opt \in {"input", "output", "srt"}                              -> PathOption(s, a)
    [] a.opt \in {"languages", "forced", "hi", "help", "license", "unknown"} -> ListOption(s, a)
    [] a.opt \in {"debug", "qc-only", "bench", "palette", "ass"}         -> SwitchOption(s, a)
    [] a.opt \in {"list-fonts", "font", "font-style", "font-size", "sub-position"} -> FontOption(s, a)
    [] a.opt \in {"margin-top", "margin-left", "margin-bottom", "margin-right"} -> MarginOption(s, a)
    [] a.opt = "color"                                                   -> ColorOption(s, a)
    [] a.opt = "delay"                                                   -> DelayOption(s, a)
    [] a.opt \in {"enc-threads", "render-threads", "ssaa", "no-unsharp"} -> RenderOption(s, a)
    [] a.opt \in {"png-dir", "pid", "ts-bitrate", "png-only"}            -> OutputOption(s, a)
    [] a.opt \in {"overwrite", "no-preserve-pids"}                       -> OverwriteOption(s, a)
    [] a.opt = "argument"                                                -> s

\* "-srt x" reads as -s with the value "rt", and x as an argument that is no option.
Autocorrected(s, line) ==
  LET rest == {i \in DOMAIN line : line[i].opt = "argument"}
  IN  IF s.code = -1 /\ s.l.srt = <<Word("rt")>> /\ rest # {}
      THEN PathOption(s, [line[First(rest)] EXCEPT !.opt = "srt"])
      ELSE s

\* Only encoding needs an input and an output; every run needs valid languages.
Required(s) ==
  /\ s.l.srt # <<>> /\ s.l.lang # <<>>
  /\ s.l.qc \/ s.g.png_only \/ (s.l.input # "" /\ s.l.output # "")
  /\ validate_language_list(LangsOf(s.l.lang))

-----------------------------------------------------------------------------
(* srt2dvbsub_run_cli.                                                     *)

RunInit ==
  /\ Init
  /\ phase = "none" /\ args = <<>> /\ optind = 1
  /\ g = Globals /\ l = Locals
  /\ disk \in Disks
  /\ armed = FALSE /\ stop = FALSE /\ pool = FALSE
  /\ file = [state |-> "none", rate |-> 0]
  /\ qc = [checked |-> 0, bad |-> 0, errors |-> 0]
  /\ status = 0 /\ mishaps = 0

\* A call of the run itself fails.
Mishap == faults + mishaps < MaxFaults /\ mishaps' = mishaps + 1
NoMishap == UNCHANGED mishaps

\* ctx_cleanup frees the list of --overwrite, which cli_parse handed to the context.
Freed(gs) == [gs EXCEPT !.only = <<>>]

\* ctx_cleanup, then the run returns code.
Over(gs, code) ==
  /\ phase' = "over"
  /\ status' = code
  /\ g' = Freed(gs)
  /\ pool' = FALSE

\* Mutant: getopt_long goes on where the last run ended.
FirstOption_Kept == optind

\* optind is reset, so a second run in the process sees its options.
FirstOption == 1

RunCli(line) ==
  /\ phase \in {"none", "over"}
  /\ phase' = "cli"
  /\ args' = line /\ optind' = FirstOption
  /\ l' = Locals
  /\ file' = [state |-> "none", rate |-> 0]
  /\ qc' = [checked |-> 0, bad |-> 0, errors |-> 0]
  /\ UNCHANGED <<setup, g, disk, armed, stop, pool, status, mishaps>>

Unfed == UNCHANGED <<args, optind, l, disk, stop, file, qc>>

\* s is what cli_parse has so far; a code from 0 on ends it.
Parsed(s, next) ==
  /\ l' = s.l
  /\ IF s.code >= 0 THEN Over(s.g, s.code)
     ELSE phase' = next /\ g' = s.g /\ UNCHANGED <<pool, status>>

Sofar == [code |-> -1, g |-> g, l |-> l]

\* getopt_long returns the next option.
ParseArg ==
  /\ phase = "cli" /\ optind <= Len(args)
  /\ Parsed(ParseOption(Sofar, args[optind]), "cli")
  /\ optind' = optind + 1
  /\ UNCHANGED <<setup, args, disk, armed, stop, file, qc, mishaps>>

\* After the last one the options are checked.
Checked(s, line) ==
  LET r == Autocorrected(s, line) IN IF r.code = -1 /\ ~Required(r) THEN Refuse(r) ELSE r

CheckArgs ==
  /\ phase = "cli" /\ optind > Len(args)
  /\ Parsed(Checked(Sofar, args), "parsed")
  /\ UNCHANGED <<setup, args, optind, disk, armed, stop, file, qc, mishaps>>

\* Memory runs out for the value of an option.
CliFails ==
  /\ phase = "cli" /\ optind <= Len(args)
  /\ Mishap
  /\ Over(g, 1)
  /\ Unfed /\ UNCHANGED <<setup, armed>>

Position ==
  /\ phase = "parsed"
  /\ LET r == parse_subtitle_positions(g.spec)
     IN  IF r.code # 0 THEN Over(g, 1)
         ELSE /\ phase' = "font"
              /\ g' = [g EXCEPT !.configs = Overridden(r.configs, l.over)]
              /\ UNCHANGED <<pool, status>>
  /\ Unfed /\ NoMishap /\ UNCHANGED <<setup, armed>>

\* The font and its style are looked up.
ResolveFont ==
  /\ phase = "font"
  /\ \/ NoMishap /\ phase' = "pool" /\ UNCHANGED <<g, pool, status>>
     \/ Mishap /\ Over(g, 1)
  /\ Unfed /\ UNCHANGED <<setup, armed>>

\* A pool that cannot be created leaves the run, and later ones, without threads, or
\* blocks for ever in the join of the workers it had created; see RenderPool.
StartPool ==
  /\ phase = "pool"
  /\ \/ g.render > 0 /\ pool' = TRUE /\ NoMishap /\ phase' = "arm" /\ UNCHANGED g
     \/ /\ g.render > 0 /\ Mishap /\ phase' = "arm"
        /\ g' = [g EXCEPT !.render = 0] /\ UNCHANGED pool
     \/ g.render > 1 /\ Mishap /\ phase' = "hung" /\ UNCHANGED <<g, pool>>
     \/ g.render = 0 /\ NoMishap /\ phase' = "arm" /\ UNCHANGED <<g, pool>>
  /\ Unfed /\ UNCHANGED <<setup, armed, status>>

\* The signal handlers are installed; --debug needs a PNG directory, but goes on
\* without one.
Arm ==
  /\ phase = "arm"
  /\ armed' = TRUE
  /\ g' = IF g.debug THEN [g EXCEPT !.png = init_png_path(g.png, "").png] ELSE g
  /\ phase' = IF l.qc THEN "qc"
              ELSE IF g.png_only /\ (l.input = "" \/ l.output = "") THEN "preview" ELSE "setup"
  /\ Unfed /\ NoMishap /\ UNCHANGED <<setup, pool, status>>

-----------------------------------------------------------------------------
(* ctx_run_qc_only.                                                        *)

FilesOf(list) ==
  [i \in DOMAIN list |-> [name |-> IF list[i].kind = "empty" THEN "" ELSE list[i].kind,
                          good |-> list[i].kind \in GoodFiles, ass |-> list[i].kind \in AssFiles]]

QcFiles == FileTokens(FilesOf(l.srt))

\* qc_log.txt or the lists cannot be had.
QcFails ==
  /\ phase = "qc" /\ qc.checked = 0
  /\ Mishap
  /\ Over(g, 1)
  /\ Unfed /\ UNCHANGED <<setup, armed>>

\* Mutant: a file that does not parse adds no error.
FileErrors_Parsed(f) == IF f.good THEN 0..1 ELSE {0}

\* What a file adds to total_errors: up to one error of src/qc.c here, or the one
\* error of a file that does not parse.
FileErrors(f) == IF f.good THEN 0..1 ELSE {1}

QcFile ==
  /\ phase = "qc" /\ qc.checked < Len(QcFiles)
  /\ LET f == QcFiles[qc.checked + 1]
     IN  \E e \in FileErrors(f) :
           qc' = [checked |-> qc.checked + 1, bad |-> qc.bad + (IF f.good THEN 0 ELSE 1),
                  errors |-> qc.errors + e]
  /\ UNCHANGED <<setup, phase, args, optind, g, l, disk, armed, stop, pool, file, status, mishaps>>

QcDone ==
  /\ phase = "qc" /\ qc.checked = Len(QcFiles)
  /\ Over(g, 0)
  /\ Unfed /\ NoMishap /\ UNCHANGED <<setup, armed>>

-----------------------------------------------------------------------------
(* The setup of TrackSetup, in the preview and in the normal flow.         *)

Options ==
  [srt |-> FilesOf(l.srt), lang |-> LangsOf(l.lang), pids |-> g.pids, forced |-> l.forced,
   hi |-> l.hi, delay |-> l.delay, preserve |-> g.preserve, overwrite |-> g.overwrite,
   only |-> g.only, ass |-> g.ass, preview |-> phase = "preview"]

\* The video's height replaces the global when the input tells it.
Sized(gs, in) == IF in.height > 0 THEN [gs EXCEPT !.video = in.height] ELSE gs

PngReady == init_png_path(g.png, "")

\* The preview reads an input only for its size.
Opens(in) == l.input = "" \/ in.opens

BeginPreview(in) ==
  /\ phase = "preview"
  /\ PngReady.code = 0 /\ Opens(in)
  /\ Begin(in, Options)
  /\ phase' = "building"
  /\ g' = Sized([g EXCEPT !.png = PngReady.png], in)
  /\ Unfed /\ NoMishap /\ UNCHANGED <<armed, pool, status>>

PreviewFails(in) ==
  /\ phase = "preview"
  /\ PngReady.code # 0 \/ ~Opens(in)
  /\ Over(g, 1)
  /\ Unfed /\ NoMishap /\ UNCHANGED <<setup, armed>>

BeginSetup(in) ==
  /\ phase = "setup"
  /\ Begin(in, Options)
  /\ phase' = "building"
  /\ Unfed /\ NoMishap /\ UNCHANGED <<armed, g, pool, status>>

\* use_ass is turned off for a run whose tracks do not use libass.
AssKept(gs) == [gs EXCEPT !.ass = @ /\ \E t \in DOMAIN tracks : tracks[t].ass]

AfterSetup ==
  CASE stage = "open"                                 -> Sized(g, input)
    [] stage = "tracks" /\ stage' \in {"pids", "flags"} -> AssKept(g)
    [] OTHER                                          -> g

Build ==
  /\ phase = "building"
  /\ SetupSteps
  /\ IF stage' = "failed" THEN Over(AfterSetup, ret')
     ELSE /\ phase' = IF stage' # "ready" THEN "building"
                      ELSE IF opt.preview THEN "render" ELSE "output"
          /\ g' = AfterSetup
          /\ UNCHANGED <<pool, status>>
  /\ Unfed /\ NoMishap /\ UNCHANGED armed

\* Mutant: the context is released but not cleared.
End_Uncleared(code) ==
  /\ stage = "ready" /\ stage' = "idle"
  /\ held' = Cleaned(held, counted)
  /\ UNCHANGED <<input, opt, outs, targets, max_pid, tracks, counted, ret, faults>>
  /\ Over(g, code)

\* finalize_main with a context that is set up.
End(code) == Finish /\ Over(g, code)

\* ctx_png_only_render_all; see SubtitleMux.
RenderPngs ==
  /\ phase = "render"
  /\ End(0)
  /\ Unfed /\ NoMishap /\ UNCHANGED armed

-----------------------------------------------------------------------------
(* The output file.                                                        *)

\* 0 leaves the muxrate to libavformat.
FinalRate == CASE g.mode = "fixed" -> g.rate [] g.mode = "auto" -> input.rate [] OTHER -> 0

\* Mutant: the output is opened in every mode.
Creates_Always == TRUE

\* --png-only writes no file.
Creates == ~g.png_only

OpenOutput ==
  /\ phase = "output"
  /\ \/ /\ phase' = "header"
        /\ file' = IF Creates THEN [state |-> "created", rate |-> FinalRate] ELSE file
        /\ NoMishap /\ UNCHANGED <<setup, g, pool, status>>
     \/ Creates /\ Mishap /\ End(-1) /\ UNCHANGED file
  /\ UNCHANGED <<args, optind, l, disk, stop, qc, armed>>

\* Mutant: a header that could not be written ends the run with 0.
HeaderFails_Zero == End(0)

HeaderFails == End(-1)

WriteHeader ==
  /\ phase = "header"
  /\ \/ /\ phase' = "loop"
        /\ file' = IF g.png_only THEN file ELSE [file EXCEPT !.state = "headed"]
        /\ NoMishap /\ UNCHANGED <<setup, g, pool, status>>
     \/ ~g.png_only /\ Mishap /\ HeaderFails /\ UNCHANGED file
  /\ UNCHANGED <<args, optind, l, disk, stop, qc, armed>>

\* ctx_demux_mux_loop ends at the end of the input, or sooner when a stop is
\* requested, and returns 0 either way; see SubtitleMux.
Loop ==
  /\ phase = "loop"
  /\ phase' = "trailer"
  /\ file' = IF g.png_only THEN file
             ELSE [file EXCEPT !.state = IF stop THEN "cut" ELSE "written"]
  /\ NoMishap
  /\ UNCHANGED <<setup, args, optind, g, l, disk, armed, stop, pool, qc, status>>

\* Whether av_write_trailer succeeds is not looked at.
WriteTrailer ==
  /\ phase = "trailer"
  /\ \/ NoMishap /\ file' = [file EXCEPT !.state = CASE @ = "written" -> "complete"
                                                     [] @ = "cut"     -> "truncated"
                                                     [] OTHER         -> @]
     \/ ~g.png_only /\ Mishap /\ file' = [file EXCEPT !.state = "damaged"]
  /\ End(0)
  /\ UNCHANGED <<args, optind, l, disk, stop, qc, armed>>

\* SIGINT or SIGTERM.
Signal ==
  /\ armed /\ ~stop
  /\ stop' = TRUE
  /\ UNCHANGED <<setup, phase, args, optind, g, l, disk, armed, pool, file, qc, status, mishaps>>

\* The steps of a run whose input is in.
RunSteps(in) ==
  \/ ParseArg \/ CheckArgs \/ CliFails \/ Position \/ ResolveFont \/ StartPool \/ Arm
  \/ QcFails \/ QcFile \/ QcDone
  \/ BeginPreview(in) \/ PreviewFails(in) \/ BeginSetup(in)
  \/ Build \/ RenderPngs
  \/ OpenOutput \/ WriteHeader \/ Loop \/ WriteTrailer

-----------------------------------------------------------------------------
(* What a run promises.                                                    *)

\* Whatever path a run takes, when srt2dvbsub_run_cli returns nothing of the
\* context is held and the render pool is down, so a batch can call it again.
ResourcesReleased == phase \in {"none", "over"} => held = {} /\ ~pool

\* What a process that has just been started reads from a command line.
Fresh(line) ==
  LET read[n \in 0..Len(line)] ==
        IF n = 0 THEN [code |-> -1, g |-> Globals, l |-> Locals]
        ELSE IF read[n - 1].code = -1 THEN ParseOption(read[n - 1], line[n]) ELSE read[n - 1]
  IN  Checked(read[Len(line)], line)

\* The settings a run works with are those a fresh process would read from the
\* same command line, although the globals still hold those of the last file.
\* The exceptions are the height of a video that does not tell it, the threads
\* after a pool that could not be created, and the directory for pictures: of that
\* it is said that the one of --png-dir, or its fallback, can be written.
FilesIndependent ==
  phase = "setup" =>
    LET fresh == Fresh(args)
    IN  /\ fresh.code = -1
        /\ l = fresh.l
        /\ \A x \in DOMAIN g \ {"video", "render", "png", "configs"} : g[x] = fresh.g[x]
        /\ g.png.explicit => g.png.dir \in disk
        /\ g.render = fresh.g.render \/ (g.render = 0 /\ mishaps > 0)
        /\ g.configs = Overridden(parse_subtitle_positions(fresh.g.spec).configs, fresh.l.over)

\* init_png_path "with fallback to /tmp if needed": --debug finds a directory it can
\* write when the fallback is one.  The code takes the fallback of the default
\* directory only when it cannot be created.
DefaultFallback ==
  phase \in {"qc", "preview", "setup"} /\ g.debug /\ "tmp" \in disk => g.png.dir \in disk

\* The run was to write an output file.
Encodes == ~l.qc /\ ~g.png_only /\ l.output # ""

\* The command line holds an option that prints something and ends the run.
Informs == \E i \in DOMAIN args : args[i].opt \in {"help", "license", "list-fonts", "unknown"}

\* The code of a run tells what became of its work.  A failure leaves no complete
\* file, and 0 means that the file was written to its end, unless the run was
\* stopped, the trailer failed unnoticed or the run only printed something.  A
\* refused command line, subtitle file, PID or language leaves the output file
\* alone.  --qc-only counts an error for each file that does not parse, and
\* returns 0 only when it has looked at all files; what it returns when it has
\* found errors is left open.
StatusTruthful ==
  /\ file.state # "none" => Encodes
  /\ qc.errors >= qc.bad
  /\ phase = "over" =>
       /\ status # 0 => file.state \in {"none", "created"}
       /\ status # 0 /\ faults + mishaps = 0 => file.state = "none"
       /\ status = 0 /\ Encodes /\ ~Informs => file.state \in {"complete", "truncated", "damaged"}
       /\ file.state = "truncated" => stop
       /\ file.state = "damaged" => mishaps > 0
       /\ l.qc /\ ~Informs /\ status = 0 => qc.checked = Len(QcFiles)

\* --qc-only: "Exit code: 0 on success, 1 on validation failure".  The code returns 0
\* whatever it has counted.
QcExit == phase = "over" /\ l.qc /\ qc.errors > 0 => status = 1
==============================================================================
