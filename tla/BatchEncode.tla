------------------------------ MODULE BatchEncode ------------------------------
(***************************************************************************)
(* The program: main of src/srt2dvbsub.c, which calls srt2dvbsub_run_cli   *)
(* once, or with --batch-encode hands over to src/batch_encode.c.  A batch *)
(* scans the input directory for transport streams, looks for the          *)
(* subtitles of each with the templates, and calls srt2dvbsub_run_cli once *)
(* per file in the same process.                                           *)
(***************************************************************************)
EXTENDS EncodeRun

CONSTANTS
  Invocations,   \* the command lines the program may be started with
  Tree,          \* directory -> its entries, [name, kind]; kind "dir", "ts", "link" or "other"
  Unreadable,    \* the directories opendir refuses
  About,         \* transport stream -> [rank, dir, base, show, season, episode]
  Creatable,     \* the directories mkdir_p can create
  Subtitles,     \* <<root, directory, file name>> -> path, for the subtitle files that exist
  CommaPaths,    \* path with a comma in it -> the pieces at the comma
  Content        \* path of an input -> what it holds

BatchArg ==
  [opt : {"batch-encode", "batch-input", "batch-output", "batch-srt", "batch-template",
          "batch-clear-templates", "batch-dry-run", "batch-sequential"},
   val : Seq(Piece), spec : {<<>>}]

batch_encode_requested(line) == \E i \in DOMAIN line : line[i].opt = "batch-encode"

\* Without --batch-encode the batch options are unknown to getopt_long.  Paths
\* differ, so their order is strict.
ASSUME ProgramAssumption ==
  /\ \A line \in Invocations :
       line \in Seq(IF batch_encode_requested(line) THEN RunOption \cup BatchArg ELSE RunOption)
  /\ Unreadable \subseteq DOMAIN Tree
  /\ \A d \in DOMAIN Tree :
       /\ IsFiniteSet(Tree[d])
       /\ \A e \in Tree[d] : /\ e.name \in STRING
                             /\ e.kind = "dir" => e.name \in DOMAIN Tree
                             /\ e.kind = "ts" => e.name \in DOMAIN About
  /\ \A f \in DOMAIN About : About[f].rank \in Nat
  /\ \A f, h \in DOMAIN About : f # h => About[f].rank # About[h].rank
  /\ \A e \in DOMAIN Subtitles : Subtitles[e] \in STRING
  /\ \A p \in DOMAIN CommaPaths : CommaPaths[p] \in Seq(Piece)
  /\ \A p \in DOMAIN Content : Content[p] \in Inputs

\* Literals are strings, which the provers have to be told.
ASSUME Literals == {"eng", "BASENAME", ".en.srt", ".en.subtitles.srt"} \subseteq STRING

VARIABLES
  bstage,    \* where the batch is; "off" for a single run
  argv,      \* the arguments batch_encode_parse_cli has still to read
  cfg,       \* BatchEncodeConfig
  stack,     \* the directories still to be read
  found,     \* the files found
  queue,     \* the files still to be encoded, sorted
  counts,    \* files processed, failed and skipped
  nth,       \* the template looked at
  resolved,  \* the subtitles of the current file: paths and languages
  joined,    \* their paths joined by commas, as pieces
  begun,     \* files begun after a stop was requested
  code       \* what main returns

batch == <<bstage, argv, cfg, stack, found, queue, counts, nth, resolved, joined, begun, code>>
vars == <<setup, run, batch>>

-----------------------------------------------------------------------------
(* Templates.  A pattern is a sequence of words; a name is what they       *)
(* become.  The season and the episode have two digits.                    *)

DefaultTemplates ==
  << [pattern |-> <<Word("BASENAME"), Word(".en.subtitles.srt")>>, lang |-> "eng"],
     [pattern |-> <<Word("BASENAME"), Word(".en.srt")>>, lang |-> "eng"] >>

fill_two_digit(n) == [kind |-> "two digits", val |-> IF n < 0 THEN 0 ELSE IF n > 99 THEN 99 ELSE n]

\* What parse_episode_meta finds in a file name; season -1 when no pattern matches.
parse_episode_meta(f) ==
  IF About[f].season < 0 THEN [show |-> Word(""), season |-> Word(""), episode |-> Word("")]
  ELSE [show |-> Word(About[f].show), season |-> fill_two_digit(About[f].season),
        episode |-> fill_two_digit(About[f].episode)]

substitute_template(pattern, f) ==
  LET meta == parse_episode_meta(f)
      part(p) == CASE p.kind = "BASENAME" -> Word(About[f].base)
                   [] p.kind = "SHOW"     -> meta.show
                   [] p.kind = "SEASON"   -> meta.season
                   [] p.kind = "EPISODE"  -> meta.episode
                   [] OTHER               -> p
  IN  SelectSeq([i \in DOMAIN pattern |-> part(pattern[i])], LAMBDA p : p.kind # "")

\* Mutant: names are used as they are.
path_is_safe_relative_Any(name) == TRUE

\* Neither absolute nor through "." or "..".
path_is_safe_relative(name) ==
  /\ name # <<>>
  /\ name[1].kind # "/"
  /\ \A i \in DOMAIN name : name[i].kind \notin {"..", "."}

\* Where template t leads for file f: below the subtitle directory, or next to the stream.
Place(t, f, i) ==
  <<IF i = 1 THEN "srt" ELSE "in", About[f].dir, substitute_template(t.pattern, f)>>

file_exists(place) == place \in DOMAIN Subtitles

-----------------------------------------------------------------------------
(* batch_encode_parse_cli.                                                 *)

NoConfig == [code |-> -1, in |-> "", out |-> "", srt |-> "", templates |-> <<>>, dry |-> FALSE,
             forward |-> <<>>]

\* A template is the words before '|' and the language behind it.
batch_encode_add_template(c, a) ==
  LET n == Len(a.val)
  IN  IF n < 2 \/ a.val[n].val # 3 THEN [c EXCEPT !.code = 1]
      ELSE [c EXCEPT !.templates = Append(@, [pattern |-> SubSeq(a.val, 1, n - 1),
                                              lang |-> a.val[n].kind])]

\* An option without its value ends the parse.
BatchOption(c, a) ==
  CASE a.opt \in {"batch-input", "batch-output", "batch-srt", "batch-template"} /\ a.val = <<>>
                                              -> [c EXCEPT !.code = 1]
    [] a.opt = "batch-input" /\ a.val # <<>>    -> [c EXCEPT !.in = a.val[1].kind]
    [] a.opt = "batch-output" /\ a.val # <<>>   -> [c EXCEPT !.out = a.val[1].kind]
    [] a.opt = "batch-srt" /\ a.val # <<>>      -> [c EXCEPT !.srt = a.val[1].kind]
    [] a.opt = "batch-template" /\ a.val # <<>> -> batch_encode_add_template(c, a)
    [] a.opt = "batch-clear-templates"          -> [c EXCEPT !.templates = <<>>]
    [] a.opt = "batch-dry-run"                  -> [c EXCEPT !.dry = TRUE]
    [] a.opt \in {"batch-encode", "batch-sequential"} -> c
    [] OTHER                                    -> [c EXCEPT !.forward = Append(@, a)]

-----------------------------------------------------------------------------
ProgramInit ==
  /\ RunInit
  /\ bstage = "start" /\ argv = <<>> /\ cfg = NoConfig
  /\ stack = <<>> /\ found = {} /\ queue = <<>>
  /\ counts = [processed |-> 0, failed |-> 0, skipped |-> 0]
  /\ nth = 1 /\ resolved = <<>> /\ joined = <<>> /\ begun = 0
  /\ code = 0

Exit(c) == bstage' = "done" /\ code' = c

\* Nothing of the run changes but perhaps the number of mishaps.
RunWaits == UNCHANGED <<setup, phase, args, optind, g, l, disk, armed, stop, pool, file, qc, status>>

Single(line) ==
  /\ bstage = "start" /\ ~batch_encode_requested(line)
  /\ RunCli(line)
  /\ bstage' = "off"
  /\ UNCHANGED <<argv, cfg, stack, found, queue, counts, nth, resolved, joined, begun, code>>

SingleDone ==
  /\ bstage = "off" /\ phase = "over"
  /\ Exit(status)
  /\ RunWaits /\ NoMishap
  /\ UNCHANGED <<argv, cfg, stack, found, queue, counts, nth, resolved, joined, begun>>

Batch(line) ==
  /\ bstage = "start" /\ batch_encode_requested(line)
  /\ bstage' = "args"
  /\ argv' = line
  /\ cfg' = [NoConfig EXCEPT !.templates = DefaultTemplates]
  /\ RunWaits /\ NoMishap
  /\ UNCHANGED <<stack, found, queue, counts, nth, resolved, joined, begun, code>>

BatchParse ==
  /\ bstage = "args" /\ argv # <<>>
  /\ cfg' = BatchOption(cfg, Head(argv))
  /\ argv' = Tail(argv)
  /\ IF cfg'.code = 1 THEN Exit(1) ELSE UNCHANGED <<bstage, code>>
  /\ RunWaits /\ NoMishap
  /\ UNCHANGED <<stack, found, queue, counts, nth, resolved, joined, begun>>

\* The three directories are required.
BatchParsed ==
  /\ bstage = "args" /\ argv = <<>>
  /\ IF "" \in {cfg.in, cfg.out, cfg.srt} THEN Exit(1) ELSE bstage' = "check" /\ UNCHANGED code
  /\ RunWaits /\ NoMishap
  /\ UNCHANGED <<argv, cfg, stack, found, queue, counts, nth, resolved, joined, begun>>

\* Memory for the templates, the options or the paths runs out.
BatchFails ==
  /\ bstage \in {"args", "check", "scan"}
  /\ Mishap
  /\ Exit(1)
  /\ RunWaits
  /\ UNCHANGED <<argv, cfg, stack, found, queue, counts, nth, resolved, joined, begun>>

\* Both directories exist and the output directory can be made.
DirsReady ==
  /\ cfg.in \in DOMAIN Tree /\ cfg.srt \in DOMAIN Tree
  /\ cfg.dry \/ cfg.out \in Creatable

CheckDirs ==
  /\ bstage = "check"
  /\ IF DirsReady THEN bstage' = "scan" /\ stack' = <<cfg.in>> /\ UNCHANGED code
     ELSE Exit(1) /\ UNCHANGED stack
  /\ RunWaits /\ NoMishap
  /\ UNCHANGED <<argv, cfg, found, queue, counts, nth, resolved, joined, begun>>

\* The entries of a kind, as lstat tells it: a link is neither file nor directory.
Entries(dir, kind) == {e.name : e \in {x \in Tree[dir] : x.kind = kind}}

\* Mutant: what a symbolic link names is entered as well.
Subdirs_Links(dir) == Entries(dir, "dir") \cup (Entries(dir, "link") \cap DOMAIN Tree)

Subdirs(dir) == Entries(dir, "dir")

\* Mutant: every regular file counts.
Streams_All(dir) == Entries(dir, "ts") \cup Entries(dir, "other")

Streams(dir) == Entries(dir, "ts")

\* The ways to put the members of a set in order.
Orders(S) ==
  {s \in [1..Cardinality(S) -> S] : \A x \in S : \E i \in DOMAIN s : s[i] = x}

\* collect_ts_recursive reads the directory on top of its stack and pushes the
\* directories in it, in readdir's order.
ScanDir ==
  /\ bstage = "scan" /\ stack # <<>>
  /\ LET dir == stack[Len(stack)]
     IN  IF dir \in Unreadable THEN Exit(1) /\ UNCHANGED <<stack, found>>
         ELSE /\ \E dirs \in Orders(Subdirs(dir)) :
                   stack' = SubSeq(stack, 1, Len(stack) - 1) \o dirs
              /\ found' = found \cup Streams(dir)
              /\ UNCHANGED <<bstage, code>>
  /\ RunWaits /\ NoMishap
  /\ UNCHANGED <<argv, cfg, queue, counts, nth, resolved, joined, begun>>

\* The files are sorted by their paths.
ScanDone ==
  /\ bstage = "scan" /\ stack = <<>>
  /\ IF found = {} THEN Exit(0) ELSE bstage' = "loop" /\ UNCHANGED code
  /\ \E files \in Orders(found) :
       /\ \A i \in 1..(Len(files) - 1) : About[files[i]].rank < About[files[i + 1]].rank
       /\ queue' = files
  /\ RunWaits /\ NoMishap
  /\ UNCHANGED <<argv, cfg, stack, found, counts, nth, resolved, joined, begun>>

BeginFile ==
  /\ bstage = "loop" /\ queue # <<>>
  /\ bstage' = "resolve"
  /\ nth' = 1 /\ resolved' = <<>> /\ joined' = <<>>
  /\ RunWaits /\ NoMishap
  /\ UNCHANGED <<argv, cfg, stack, found, queue, counts, begun, code>>

\* strvec_join puts commas between the paths; a path with a comma becomes two.
Pieces(path) == IF path \in DOMAIN CommaPaths THEN CommaPaths[path] ELSE <<Word(path)>>

\* The places in at where template t finds subtitles for file f.
Hits(t, f, at) ==
  {i \in at : path_is_safe_relative(substitute_template(t.pattern, f)) /\ file_exists(Place(t, f, i))}

\* resolve_subtitles_for_ts with one template.  Without memory for a path its place, or
\* the template, is passed over.
ResolveTemplate ==
  /\ bstage = "resolve" /\ nth <= Len(cfg.templates)
  /\ LET t == cfg.templates[nth]
         f == Head(queue)
     IN  \E at \in SUBSET {1, 2} :
           /\ IF at = {1, 2} THEN NoMishap ELSE Mishap
           /\ IF Hits(t, f, at) # {}
              THEN LET path == Subtitles[Place(t, f, First(Hits(t, f, at)))]
                   IN  /\ resolved' = Append(resolved, [path |-> path, lang |-> t.lang])
                       /\ joined' = joined \o Pieces(path)
              ELSE UNCHANGED <<resolved, joined>>
  /\ nth' = nth + 1
  /\ RunWaits
  /\ UNCHANGED <<bstage, argv, cfg, stack, found, queue, counts, begun, code>>

Resolved ==
  /\ bstage = "resolve" /\ nth > Len(cfg.templates) /\ resolved # <<>>
  /\ bstage' = "build"
  /\ RunWaits /\ NoMishap
  /\ UNCHANGED <<argv, cfg, stack, found, queue, counts, nth, resolved, joined, begun, code>>

\* No subtitles, or no memory for the list of them: the file is neither processed nor
\* failed.
SkipFile ==
  /\ bstage = "resolve"
  /\ \/ nth > Len(cfg.templates) /\ resolved = <<>> /\ NoMishap
     \/ /\ nth <= Len(cfg.templates) /\ Hits(cfg.templates[nth], Head(queue), {1, 2}) # {}
        /\ Mishap
  /\ bstage' = "loop"
  /\ queue' = Tail(queue)
  /\ counts' = [counts EXCEPT !.skipped = @ + 1]
  /\ RunWaits
  /\ UNCHANGED <<argv, cfg, stack, found, nth, resolved, joined, begun, code>>

\* Mutant: the stop flag is not looked at between two files.
Interrupted_Never == FALSE

Interrupted == stop

\* The output directory cannot be made, or memory runs out: the batch goes on,
\* looking at the stop flag only when the command could not be built.
FileFails ==
  /\ bstage \in {"loop", "build"} /\ queue # <<>>
  /\ Mishap
  /\ queue' = Tail(queue)
  /\ counts' = [counts EXCEPT !.failed = @ + 1]
  /\ bstage' \in {"loop"} \cup (IF bstage = "build" /\ Interrupted THEN {"summary"} ELSE {})
  /\ RunWaits
  /\ UNCHANGED <<argv, cfg, stack, found, nth, resolved, joined, begun, code>>

DryRun ==
  /\ bstage = "build" /\ cfg.dry
  /\ bstage' = IF Interrupted THEN "summary" ELSE "loop"
  /\ queue' = Tail(queue)
  /\ counts' = [counts EXCEPT !.processed = @ + 1]
  /\ RunWaits /\ NoMishap
  /\ UNCHANGED <<argv, cfg, stack, found, nth, resolved, joined, begun, code>>

\* Mutant: the languages are those of all templates.
Tongues_All == [i \in DOMAIN cfg.templates |-> Word(cfg.templates[i].lang)]

Tongues == [i \in DOMAIN resolved |-> Word(resolved[i].lang)]

Command(f) ==
  cfg.forward \o
  << Opt("input", <<Word(f)>>), Opt("output", <<Word(f)>>), Opt("srt", joined),
     Opt("languages", Tongues) >>

EncodeFile ==
  /\ bstage = "build" /\ ~cfg.dry
  /\ RunCli(Command(Head(queue)))
  /\ begun' = begun + (IF stop THEN 1 ELSE 0)
  /\ bstage' = "encode"
  /\ UNCHANGED <<argv, cfg, stack, found, queue, counts, nth, resolved, joined, code>>

\* Mutant: only positive codes count as failures.
Counted_Negative(rc) ==
  IF rc = 0 THEN [counts EXCEPT !.processed = @ + 1]
  ELSE IF rc > 0 THEN [counts EXCEPT !.failed = @ + 1] ELSE counts

Counted(rc) ==
  IF rc = 0 THEN [counts EXCEPT !.processed = @ + 1] ELSE [counts EXCEPT !.failed = @ + 1]

\* The stop flag is looked at after a file was encoded, or would have been.
FileDone ==
  /\ bstage = "encode" /\ phase = "over"
  /\ counts' = Counted(status)
  /\ queue' = Tail(queue)
  /\ bstage' = IF Interrupted THEN "summary" ELSE "loop"
  /\ RunWaits /\ NoMishap
  /\ UNCHANGED <<argv, cfg, stack, found, nth, resolved, joined, begun, code>>

LoopDone ==
  /\ bstage = "loop" /\ queue = <<>>
  /\ bstage' = "summary"
  /\ RunWaits /\ NoMishap
  /\ UNCHANGED <<argv, cfg, stack, found, queue, counts, nth, resolved, joined, begun, code>>

Summary ==
  /\ bstage = "summary"
  /\ Exit(IF counts.failed = 0 THEN 0 ELSE 1)
  /\ RunWaits /\ NoMishap
  /\ UNCHANGED <<argv, cfg, stack, found, queue, counts, nth, resolved, joined, begun>>

\* What a path names; a file that is not there does not open.
ThisInput ==
  IF l.input = "" THEN NoInput
  ELSE IF l.input \in DOMAIN Content THEN Content[l.input]
  ELSE [NoInput EXCEPT !.opens = FALSE]

RunStep == bstage \in {"off", "encode"} /\ RunSteps(ThisInput) /\ UNCHANGED batch

Stop == bstage \notin {"start", "done"} /\ Signal /\ UNCHANGED batch

\* The process is gone, or blocked in render_pool_init.
Exited == (bstage = "done" \/ phase = "hung") /\ UNCHANGED vars

Steps ==
  \/ \E line \in Invocations : Single(line) \/ Batch(line)
  \/ SingleDone \/ BatchParse \/ BatchParsed \/ BatchFails \/ CheckDirs \/ ScanDir \/ ScanDone
  \/ BeginFile \/ ResolveTemplate \/ Resolved \/ SkipFile \/ FileFails \/ DryRun
  \/ EncodeFile \/ FileDone \/ LoopDone \/ Summary
  \/ RunStep

Next == Steps \/ Stop \/ Exited

Spec == ProgramInit /\ [][Next]_vars /\ WF_vars(Steps)

-----------------------------------------------------------------------------
(* What the program promises.                                              *)

\* Directory d is in every set of directories that holds the input directory and,
\* with a directory, those in it.
Under(d) ==
  \A S \in SUBSET DOMAIN Tree :
    cfg.in \in S /\ (\A x \in S : Entries(x, "dir") \subseteq S) => d \in S

\* The same when links to directories are followed as well.
LinkedUnder(d) ==
  \A S \in SUBSET DOMAIN Tree :
    /\ cfg.in \in S
    /\ \A x \in S : Entries(x, "dir") \cup (Entries(x, "link") \cap DOMAIN Tree) \subseteq S
    => d \in S

\* The transport streams in the directories of a set.
StreamsIn(dirs) == UNION {Entries(d, "ts") : d \in dirs}

\* The scan finds every transport stream below the input directory, and nothing else
\* but, if it follows them, streams behind links; no linked file is taken.  The
\* batch takes the files in the order of their paths.  Every file is
\* processed, failed, skipped or still to come, files are left over only when a
\* stop was requested, after which at most one more is begun, and main does not
\* return 0 when one failed.
BatchAccounts ==
  /\ bstage = "loop" =>
       /\ StreamsIn({d \in DOMAIN Tree : Under(d)}) \subseteq found
       /\ found \subseteq StreamsIn({d \in DOMAIN Tree : LinkedUnder(d)})
       /\ \A i \in 1..(Len(queue) - 1) : About[queue[i]].rank < About[queue[i + 1]].rank
  /\ bstage \in {"loop", "resolve", "build", "encode", "summary"} =>
       counts.processed + counts.failed + counts.skipped + Len(queue) = Cardinality(found)
  /\ bstage = "summary" /\ queue # <<>> => stop
  /\ begun <= 1
  /\ bstage = "done" /\ counts.failed > 0 => code = 1

\* collect_ts_recursive "follows symbolic links during directory scanning".  The code
\* asks lstat, which does not follow them.
LinksFollowed ==
  bstage = "loop" => StreamsIn({d \in DOMAIN Tree : LinkedUnder(d)}) \subseteq found

\* A file is encoded with the subtitles its templates resolved to, each under the
\* language of its template, when no path among them has a comma, at which
\* ctx_parse_tracks would cut it; only subtitles beyond the last track are left out.
\* No template leads out of the two subtitle directories.
PairedAsResolved ==
  /\ \A i \in DOMAIN resolved :
       \E e \in DOMAIN Subtitles :
         /\ Subtitles[e] = resolved[i].path
         /\ e[3] # <<>> /\ e[3][1].kind # "/"
         /\ \A j \in DOMAIN e[3] : e[3][j].kind # ".."
  /\ /\ bstage = "encode" /\ phase \in {"output", "header", "loop", "trailer"}
     /\ \A i \in DOMAIN resolved : resolved[i].path \notin DOMAIN CommaPaths
     => /\ \A t \in DOMAIN tracks : /\ Files[t].name = resolved[t].path
                                    /\ tracks[t].lang.code = resolved[t].lang
        /\ Len(tracks) < Len(resolved) => Len(tracks) = MaxTracks

\* The same of paths with a comma: what a file is encoded with was resolved for it.
\* The lists are joined with commas and cut at every comma again, and the pieces are
\* matched with the languages by position, so the code may encode a piece.
CommasKept ==
  bstage = "encode" /\ phase \in {"output", "header", "loop", "trailer"} =>
    \A t \in DOMAIN tracks : \E i \in DOMAIN resolved :
      Files[t].name = resolved[i].path /\ tracks[t].lang.code = resolved[i].lang

\* The program comes to an end, whatever the directories, the options and the
\* signals are, unless render_pool_init blocks after it could not create a thread.
Exits == <>(bstage = "done" \/ phase = "hung")
==============================================================================
