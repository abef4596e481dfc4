------------------------------ MODULE BatchEncode_proofs ------------------------------
(***************************************************************************)
(* Proofs about the program: for all command lines, directories, inputs    *)
(* and failing calls, the invariants of a run hold in every run the        *)
(* program makes, and a batch accounts for every file.                     *)
(*                                                                         *)
(* The invariant has six parts, each proved with those before it:          *)
(* OptionsInv and LineInv type the options and what the batch read;        *)
(* LinkInv and WorkInv are those of a run; ScanInv says which directories  *)
(* were visited; QueueInv what was counted.                                *)
(***************************************************************************)
EXTENDS BatchEncode, EncodeRun_proofs, FiniteSetTheorems

-----------------------------------------------------------------------------
(* The invariant of the batch.                                             *)

\* What the batch has read and found has its types.
TemplateType == [pattern : Seq(Piece), lang : STRING]
FoundType == [path : STRING, lang : STRING]

ConfigOK(c) ==
  /\ DOMAIN c = DOMAIN NoConfig
  /\ c.templates \in Seq(TemplateType) /\ c.forward \in Seq(RunOption)

LineInv ==
  /\ argv \in Seq(RunOption \cup BatchArg) /\ ConfigOK(cfg)
  /\ nth \in Nat \ {0}
  /\ resolved \in Seq(FoundType) /\ joined \in Seq(Piece)
  /\ stack \in Seq(DOMAIN Tree)
  /\ IsFiniteSet(found) /\ found \subseteq STRING \cap DOMAIN About
  /\ queue \in Seq(STRING \cap DOMAIN About)
  /\ bstage \in {"resolve", "build", "encode"} => queue # <<>>

\* Until the loop over the files, none was counted.
Before == {"start", "off", "args", "check", "scan"}
During == {"loop", "resolve", "build", "encode", "summary"}

\* The directories of the program's tree that lie below the input directory.
Below == {d \in DOMAIN Tree : Under(d)}

\* The directories visited so far and those on the stack are below the input directory,
\* and those in a visited one are visited or on the stack.
Scanned(seen) ==
  LET known == seen \cup {stack[i] : i \in DOMAIN stack}
  IN  /\ cfg.in \in known /\ known \subseteq Below
      /\ \A d \in seen : Entries(d, "dir") \subseteq known
      /\ found = UNION {Entries(d, "ts") : d \in seen}

ScanInv ==
  /\ bstage \in {"start", "args", "check"} => found = {}
  /\ bstage = "scan" => \E seen \in SUBSET DOMAIN Tree : Scanned(seen)
  /\ bstage \in During => found = UNION {Entries(d, "ts") : d \in Below}

\* The files are counted or queued, and a stop ends the loop.
QueueInv ==
  /\ bstage \in Before \cup During \cup {"done"}
  /\ DOMAIN counts = {"processed", "failed", "skipped"}
  /\ counts.processed \in Nat /\ counts.failed \in Nat /\ counts.skipped \in Nat
  /\ bstage \in Before => counts.processed = 0 /\ counts.failed = 0 /\ counts.skipped = 0
  /\ bstage \in During =>
       /\ counts.processed + counts.failed + counts.skipped + Len(queue) = Cardinality(found)
       /\ \A i \in 1..(Len(queue) - 1) : About[queue[i]].rank < About[queue[i + 1]].rank
  /\ bstage = "summary" /\ queue # <<>> => stop
  /\ begun \in Nat /\ begun <= 1
  /\ begun > 0 => stop /\ bstage \in {"encode", "summary", "done"}
  /\ bstage = "done" /\ counts.failed > 0 => code = 1

\* What the program opens is an input of TrackSetup.
LEMMA InputTyped ==
  ASSUME OptionsInv
  PROVE  ThisInput \in Inputs
<1>1. <<>> \in Seq(Stream) /\ DOMAIN <<>> = {}
  BY EmptySeq
<1>2. NoInput \in Inputs
  BY <1>1, Zenon DEF NoInput, Inputs
<1>3. [NoInput EXCEPT !.opens = FALSE] \in Inputs
  BY <1>1, Zenon DEF NoInput, Inputs
<1>4. l.input \in DOMAIN Content => Content[l.input] \in Inputs
  BY ProgramAssumption, Zenon
<1> QED
  BY <1>2, <1>3, <1>4, ZenonT(60) DEF ThisInput


-----------------------------------------------------------------------------
(* The batch reads its command line and finds subtitles.                   *)

\* An option of the batch is kept, refused, or handed on to the runs.
LEMMA BatchOptionRead ==
  ASSUME NEW c, ConfigOK(c), NEW a \in RunOption \cup BatchArg
  PROVE  ConfigOK(BatchOption(c, a))
<1> DEFINE Taken == {"batch-input", "batch-output", "batch-srt", "batch-template"}
<1>1. a.val \in Seq(Piece)
  BY OptionParts, Zenon DEF BatchArg
<1>2. ASSUME NEW v
      PROVE  /\ ConfigOK([c EXCEPT !.code = v]) /\ ConfigOK([c EXCEPT !.in = v])
             /\ ConfigOK([c EXCEPT !.out = v]) /\ ConfigOK([c EXCEPT !.srt = v])
             /\ ConfigOK([c EXCEPT !.dry = v])
  BY Zenon DEF ConfigOK, NoConfig
<1>3. CASE a.opt \in Taken /\ a.val = <<>>
  <2>1. BatchOption(c, a) = [c EXCEPT !.code = 1]
    BY <1>3, Zenon DEF BatchOption
  <2> QED
    BY <1>2, <2>1, Zenon
<1>4. CASE a.opt = "batch-input" /\ a.val # <<>>
  <2>1. BatchOption(c, a) = [c EXCEPT !.in = a.val[1].kind]
    BY <1>4, Zenon DEF BatchOption
  <2> QED
    BY <1>2, <2>1, Zenon
<1>5. CASE a.opt = "batch-output" /\ a.val # <<>>
  <2>1. BatchOption(c, a) = [c EXCEPT !.out = a.val[1].kind]
    BY <1>5, Zenon DEF BatchOption
  <2> QED
    BY <1>2, <2>1, Zenon
<1>6. CASE a.opt = "batch-srt" /\ a.val # <<>>
  <2>1. BatchOption(c, a) = [c EXCEPT !.srt = a.val[1].kind]
    BY <1>6, Zenon DEF BatchOption
  <2> QED
    BY <1>2, <2>1, Zenon
<1>7. CASE a.opt = "batch-template" /\ a.val # <<>>
  <2>1. BatchOption(c, a) = batch_encode_add_template(c, a)
    BY <1>7, Zenon DEF BatchOption
  <2> DEFINE n == Len(a.val)
  <2>2. n \in Nat
    BY <1>1, LenProperties
  <2>3. CASE n < 2 \/ a.val[n].val # 3
    <3>1. BatchOption(c, a) = [c EXCEPT !.code = 1]
      BY <2>1, <2>3, Zenon DEF batch_encode_add_template
    <3> QED
      BY <1>2, <3>1, Zenon
  <2>4. CASE ~(n < 2 \/ a.val[n].val # 3)
    <3> DEFINE t == [pattern |-> SubSeq(a.val, 1, n - 1), lang |-> a.val[n].kind]
    <3>1. BatchOption(c, a) = [c EXCEPT !.templates = Append(@, t)]
      BY <2>1, <2>4, Zenon DEF batch_encode_add_template
    <3>2. a.val[n] \in Piece
      BY <1>1, <2>2, <2>4, ElementOfSeq
    <3>3. \A i \in 1..(n - 1) : a.val[i] \in Piece
      BY <1>1, <2>2, ElementOfSeq
    <3>4. SubSeq(a.val, 1, n - 1) \in Seq(Piece)
      BY <1>1, <2>2, <2>4, SubSeqProperties
    <3>5. t \in TemplateType
      BY <3>2, <3>4, Zenon DEF TemplateType, Piece
    <3> HIDE DEF t
    <3>6. c.templates \in Seq(TemplateType)
      BY Zenon DEF ConfigOK
    <3>7. Append(c.templates, t) \in Seq(TemplateType)
      BY <3>5, <3>6, AppendProperties
    <3>8. ConfigOK([c EXCEPT !.templates = Append(c.templates, t)])
      BY <3>7, Zenon DEF ConfigOK, NoConfig
    <3> QED
      BY <3>1, <3>8, Zenon
  <2> QED
    BY <2>3, <2>4, Zenon
<1>8. CASE a.opt = "batch-clear-templates"
  <2>1. BatchOption(c, a) = [c EXCEPT !.templates = <<>>]
    BY <1>8, Zenon DEF BatchOption
  <2>2. <<>> \in Seq(TemplateType)
    BY EmptySeq, Zenon
  <2>3. ConfigOK([c EXCEPT !.templates = <<>>])
    BY <2>2, Zenon DEF ConfigOK, NoConfig
  <2> QED
    BY <2>1, <2>3, Zenon
<1>9. CASE a.opt = "batch-dry-run"
  <2>1. BatchOption(c, a) = [c EXCEPT !.dry = TRUE]
    BY <1>9, Zenon DEF BatchOption
  <2> QED
    BY <1>2, <2>1, Zenon
<1>10. CASE a.opt \in {"batch-encode", "batch-sequential"}
  <2>1. BatchOption(c, a) = c
    BY <1>10, Zenon DEF BatchOption
  <2> QED
    BY <2>1, Zenon
<1>11. CASE /\ a.opt \notin Taken
            /\ a.opt \notin {"batch-clear-templates", "batch-dry-run", "batch-encode", "batch-sequential"}
  <2>1. a \in RunOption
    BY <1>11, Zenon DEF BatchArg
  <2>2. BatchOption(c, a) = [c EXCEPT !.forward = Append(@, a)]
    BY <1>11, Zenon DEF BatchOption
  <2>3. Append(c.forward, a) \in Seq(RunOption)
    BY <2>1, AppendProperties, Zenon DEF ConfigOK
  <2>4. ConfigOK([c EXCEPT !.forward = Append(c.forward, a)])
    BY <2>3, Zenon DEF ConfigOK, NoConfig
  <2> QED
    BY <2>2, <2>4, Zenon
<1> QED
  BY <1>3, <1>4, <1>5, <1>6, <1>7, <1>8, <1>9, <1>10, <1>11

\* The defaults.
LEMMA DefaultConfig ==
  ConfigOK(NoConfig) /\ ConfigOK([NoConfig EXCEPT !.templates = DefaultTemplates])
<1>1. <<>> \in Seq(TemplateType) /\ <<>> \in Seq(RunOption)
  BY EmptySeq, Zenon
<1>2. ConfigOK(NoConfig)
  BY <1>1, Zenon DEF ConfigOK, NoConfig
<1>3. /\ Word("BASENAME") \in Piece /\ Word(".en.srt") \in Piece /\ Word(".en.subtitles.srt") \in Piece
      /\ "eng" \in STRING
  <2>1. /\ "eng" \in STRING /\ "BASENAME" \in STRING
        /\ ".en.srt" \in STRING /\ ".en.subtitles.srt" \in STRING
    BY Literals, Zenon
  <2>2. \A w \in STRING : Word(w) \in Piece
    BY DEF Word, Piece
  <2> QED
    BY <2>1, <2>2, Zenon
<1>4. /\ <<Word("BASENAME"), Word(".en.subtitles.srt")>> \in Seq(Piece)
      /\ <<Word("BASENAME"), Word(".en.srt")>> \in Seq(Piece)
  BY <1>3
<1>5. DefaultTemplates \in Seq(TemplateType)
  BY <1>3, <1>4 DEF DefaultTemplates, TemplateType
<1>6. ConfigOK([NoConfig EXCEPT !.templates = DefaultTemplates])
  BY <1>2, <1>5, Zenon DEF ConfigOK, NoConfig
<1> QED
  BY <1>2, <1>6, Zenon

\* The entries of a directory: finitely many names of their kind.
LEMMA EntriesTyped ==
  ASSUME NEW d \in DOMAIN Tree
  PROVE  /\ IsFiniteSet(Subdirs(d)) /\ Subdirs(d) \subseteq DOMAIN Tree
         /\ IsFiniteSet(Streams(d)) /\ Streams(d) \subseteq STRING \cap DOMAIN About
<1>1. IsFiniteSet(Tree[d]) /\ \A e \in Tree[d] : /\ e.name \in STRING
                                                 /\ e.kind = "dir" => e.name \in DOMAIN Tree
                                                 /\ e.kind = "ts" => e.name \in DOMAIN About
  BY ProgramAssumption, Zenon
<1>2. ASSUME NEW kind
      PROVE  IsFiniteSet(Entries(d, kind))
  <2>1. IsFiniteSet({x \in Tree[d] : x.kind = kind})
    BY <1>1, FS_Subset, Zenon
  <2> DEFINE S == {x \in Tree[d] : x.kind = kind}
             f == [x \in S |-> x.name]
  <2>2. f \in Surjection(S, Entries(d, kind))
    BY Zenon DEF Surjection, Entries
  <2> QED
    BY <2>1, <2>2, FS_Surjection, Zenon
<1>3. Entries(d, "dir") \subseteq DOMAIN Tree /\ Entries(d, "ts") \subseteq STRING \cap DOMAIN About
  BY <1>1, Zenon DEF Entries
<1> QED
  BY <1>2, <1>3, Zenon DEF Subdirs, Streams

\* An order of a finite set is a sequence of its members.
LEMMA OrderTyped ==
  ASSUME NEW S, IsFiniteSet(S), NEW s \in Orders(S)
  PROVE  /\ s \in Seq(S) /\ Len(s) = Cardinality(S) /\ Cardinality(S) \in Nat
         /\ S = {s[i] : i \in DOMAIN s}
<1>1. Cardinality(S) \in Nat
  BY FS_CardinalityType, Zenon
<1>2. s \in [1..Cardinality(S) -> S] /\ \A x \in S : \E i \in DOMAIN s : s[i] = x
  BY Zenon DEF Orders
<1>3. s \in Seq(S)
  BY <1>1, <1>2, SeqDef
<1>4. Len(s) = Cardinality(S)
  BY <1>1, <1>2, <1>3, LenProperties
<1> QED
  BY <1>1, <1>2, <1>3, <1>4

\* The files still to be encoded when one is done with.
LEMMA NextFile ==
  ASSUME NEW S, NEW q \in Seq(S), q # <<>>
  PROVE  Tail(q) \in Seq(S) /\ Head(q) \in S /\ Len(Tail(q)) = Len(q) - 1
  BY HeadTailProperties, Zenon

\* Without a change to what it types, the batch's invariant stays.
LEMMA LineKept ==
  ASSUME LineInv, UNCHANGED <<argv, cfg, nth, resolved, joined, stack, found, queue>>,
         bstage' \in {"resolve", "build", "encode"} => queue # <<>>
  PROVE  LineInv'
  BY Zenon DEF LineInv

\* Reading the options, and the directories.
LEMMA ScanTypes ==
  ASSUME LineInv,
         \/ \E line \in Invocations : Batch(line)
         \/ BatchParse \/ BatchParsed \/ BatchFails \/ CheckDirs \/ ScanDir \/ ScanDone
  PROVE  LineInv'
<1>1. ASSUME NEW line \in Invocations, Batch(line)
      PROVE  LineInv'
  <2>1. line \in Seq(RunOption \cup BatchArg)
    BY <1>1, ProgramAssumption, Zenon DEF Batch
  <2>2. argv' = line /\ cfg' = [NoConfig EXCEPT !.templates = DefaultTemplates] /\ bstage' = "args"
        /\ UNCHANGED <<nth, resolved, joined, stack, found, queue>>
    BY <1>1, Zenon DEF Batch
  <2>3. ConfigOK(cfg')
    BY <2>2, DefaultConfig, Zenon
  <2> QED
    BY <2>1, <2>2, <2>3, Zenon DEF LineInv
<1>2. CASE BatchParse
  <2>1. argv # <<>> /\ cfg' = BatchOption(cfg, Head(argv)) /\ argv' = Tail(argv)
        /\ bstage' \in {"done", "args"}
        /\ UNCHANGED <<nth, resolved, joined, stack, found, queue>>
    BY <1>2, Zenon DEF BatchParse, Exit
  <2>2. Head(argv) \in RunOption \cup BatchArg /\ Tail(argv) \in Seq(RunOption \cup BatchArg)
    BY <2>1, HeadTailProperties, Zenon DEF LineInv
  <2>3. ConfigOK(cfg')
    BY <2>1, <2>2, BatchOptionRead DEF LineInv
  <2> QED
    BY <2>1, <2>2, <2>3 DEF LineInv
<1>3. CASE BatchParsed \/ BatchFails
  <2>1. bstage' \in {"done", "check"} /\ UNCHANGED <<argv, cfg, nth, resolved, joined, stack, found, queue>>
    BY <1>3, Zenon DEF BatchParsed, BatchFails, Exit
  <2> QED
    BY <2>1, LineKept, Zenon
<1>4. CASE CheckDirs
  <2>1. bstage' \in {"done", "scan"} /\ UNCHANGED <<argv, cfg, nth, resolved, joined, found, queue>>
    BY <1>4, Zenon DEF CheckDirs, Exit
  <2>2. stack' = stack \/ (stack' = <<cfg.in>> /\ cfg.in \in DOMAIN Tree)
    BY <1>4, Zenon DEF CheckDirs, DirsReady
  <2>3. stack' \in Seq(DOMAIN Tree)
    <3> DEFINE d == cfg.in
    <3> HIDE DEF d
    <3>1. d \in DOMAIN Tree => <<d>> \in Seq(DOMAIN Tree)
      OBVIOUS
    <3> QED
      BY <2>2, <3>1, Zenon DEF LineInv, d
  <2> QED
    BY <2>1, <2>3, Zenon DEF LineInv
<1>5. CASE ScanDir
  <2>1. stack # <<>> /\ bstage' \in {"done", "scan"}
        /\ UNCHANGED <<argv, cfg, nth, resolved, joined, queue>>
    BY <1>5, Zenon DEF ScanDir, Exit
  <2> DEFINE dir == stack[Len(stack)]
  <2>2. stack \in Seq(DOMAIN Tree) /\ Len(stack) \in Nat /\ Len(stack) # 0
    BY <2>1, EmptySeq, LenProperties, Zenon DEF LineInv
  <2>3. dir \in DOMAIN Tree
    BY <2>2, ElementOfSeq
  <2>4. CASE UNCHANGED <<stack, found>>
    BY <2>1, <2>4, Zenon DEF LineInv
  <2>5. CASE /\ \E dirs \in Orders(Subdirs(dir)) : stack' = SubSeq(stack, 1, Len(stack) - 1) \o dirs
             /\ found' = found \cup Streams(dir)
    <3>1. PICK dirs \in Orders(Subdirs(dir)) : stack' = SubSeq(stack, 1, Len(stack) - 1) \o dirs
      BY <2>5, Zenon
    <3> HIDE DEF dir
    <3>2. /\ IsFiniteSet(Subdirs(dir)) /\ Subdirs(dir) \subseteq DOMAIN Tree
          /\ IsFiniteSet(Streams(dir)) /\ Streams(dir) \subseteq STRING \cap DOMAIN About
      BY <2>3, EntriesTyped, Zenon
    <3>3. dirs \in Seq(Subdirs(dir))
      BY <3>2, OrderTyped, Zenon
    <3>4. dirs \in Seq(DOMAIN Tree)
      BY <3>2, <3>3, SeqMonotonic
    <3>5. \A i \in 1..(Len(stack) - 1) : stack[i] \in DOMAIN Tree
      BY <2>2, ElementOfSeq
    <3>6. SubSeq(stack, 1, Len(stack) - 1) \in Seq(DOMAIN Tree)
      BY <2>2, <3>5, SubSeqProperties
    <3>7. stack' \in Seq(DOMAIN Tree)
      BY <3>1, <3>4, <3>6, ConcatProperties, Zenon
    <3>8. IsFiniteSet(found') /\ found' \subseteq STRING \cap DOMAIN About
      BY <2>5, <3>2, FS_Union, ZenonT(60) DEF LineInv
    <3> QED
      BY <2>1, <3>7, <3>8, Zenon DEF LineInv
  <2> QED
    BY <1>5, <2>4, <2>5 DEF ScanDir
<1>6. CASE ScanDone
  <2>1. bstage' \in {"done", "loop"} /\ UNCHANGED <<argv, cfg, nth, resolved, joined, stack, found>>
    BY <1>6, Zenon DEF ScanDone, Exit
  <2>2. PICK files \in Orders(found) : queue' = files
    BY <1>6, Zenon DEF ScanDone
  <2>3. files \in Seq(found)
    BY OrderTyped, Zenon DEF LineInv
  <2>4. queue' \in Seq(STRING \cap DOMAIN About)
    BY <2>2, <2>3, SeqMonotonic, Zenon DEF LineInv
  <2> QED
    BY <2>1, <2>4, Zenon DEF LineInv
<1> QED
  BY <1>1, <1>2, <1>3, <1>4, <1>5, <1>6

\* The files one by one.
LEMMA FileTypes ==
  ASSUME LineInv,
         \/ BeginFile \/ ResolveTemplate \/ Resolved \/ SkipFile \/ FileFails \/ DryRun
         \/ FileDone \/ LoopDone \/ Summary \/ SingleDone
  PROVE  LineInv'
<1>1. CASE BeginFile
  <2>1. <<>> \in Seq(FoundType) /\ <<>> \in Seq(Piece)
    BY EmptySeq, Zenon
  <2> QED
    BY <1>1, <2>1 DEF BeginFile, LineInv
<1>2. CASE ResolveTemplate
  <2> DEFINE t == cfg.templates[nth]
             f == Head(queue)
  <2>1. /\ bstage = "resolve" /\ nth <= Len(cfg.templates) /\ nth' = nth + 1
        /\ UNCHANGED <<bstage, argv, cfg, stack, found, queue>>
    BY <1>2, Zenon DEF ResolveTemplate
  <2>2. PICK at \in SUBSET {1, 2} :
          IF Hits(t, f, at) # {}
          THEN LET path == Subtitles[Place(t, f, First(Hits(t, f, at)))]
               IN  /\ resolved' = Append(resolved, [path |-> path, lang |-> t.lang])
                   /\ joined' = joined \o Pieces(path)
          ELSE UNCHANGED <<resolved, joined>>
    BY <1>2, Zenon DEF ResolveTemplate
  <2>3. CASE Hits(t, f, at) = {}
    BY <2>1, <2>2, <2>3 DEF LineInv
  <2>4. CASE Hits(t, f, at) # {}
    <3> DEFINE i == First(Hits(t, f, at))
               path == Subtitles[Place(t, f, i)]
               e == [path |-> path, lang |-> t.lang]
    <3>1. Hits(t, f, at) \subseteq Nat
      <4>1. Hits(t, f, at) \subseteq at
        BY Zenon DEF Hits
      <4>2. at \subseteq Nat
        OBVIOUS
      <4> QED
        BY <4>1, <4>2, Zenon
    <3>2. i \in Hits(t, f, at)
      BY <2>4, <3>1, FirstIn
    <3>3. Place(t, f, i) \in DOMAIN Subtitles
      BY <3>2, Zenon DEF Hits, file_exists
    <3>4. path \in STRING
      BY <3>3, ProgramAssumption, Zenon
    <3>5. t.lang \in STRING
      <4>1. cfg.templates \in Seq(TemplateType) /\ nth \in Nat \ {0}
        BY Zenon DEF LineInv, ConfigOK
      <4>2. t \in TemplateType
        BY <2>1, <4>1, ElementOfSeq
      <4> QED
        BY <4>2, Zenon DEF TemplateType
    <3>6. resolved' = Append(resolved, e) /\ joined' = joined \o Pieces(path)
      BY <2>2, <2>4, Zenon
    <3> HIDE DEF path, t
    <3>7. e \in FoundType
      BY <3>4, <3>5, Zenon DEF FoundType
    <3>8. Pieces(path) \in Seq(Piece)
      <4>1. Word(path) \in Piece
        BY <3>4 DEF Word, Piece
      <4> QED
        BY <4>1, ProgramAssumption DEF Pieces
    <3> HIDE DEF e
    <3>9. resolved' \in Seq(FoundType)
      BY <3>6, <3>7, AppendProperties DEF LineInv
    <3>10. joined' \in Seq(Piece)
      BY <3>6, <3>8, ConcatProperties, Zenon DEF LineInv
    <3> QED
      BY <2>1, <3>9, <3>10 DEF LineInv
  <2> QED
    BY <2>3, <2>4, Zenon
<1>3. CASE Resolved \/ LoopDone \/ Summary \/ SingleDone
  <2>1. UNCHANGED <<argv, cfg, nth, resolved, joined, stack, found, queue>>
    BY <1>3, Zenon DEF Resolved, LoopDone, Summary, SingleDone
  <2>2. bstage' \in {"summary", "done"} \/ (bstage = "resolve" /\ bstage' = "build")
    BY <1>3 DEF Resolved, LoopDone, Summary, SingleDone, Exit
  <2>3. bstage' \in {"resolve", "build", "encode"} => queue # <<>>
    BY <2>2, Zenon DEF LineInv
  <2> QED
    BY <2>1, <2>3, LineKept
<1>4. CASE SkipFile \/ FileFails \/ DryRun \/ FileDone
  <2>1. /\ UNCHANGED <<argv, cfg, nth, resolved, joined, stack, found>> /\ queue' = Tail(queue)
        /\ bstage' \in {"loop", "summary"}
    BY <1>4 DEF SkipFile, FileFails, DryRun, FileDone
  <2>2. queue # <<>>
    BY <1>4, Zenon DEF SkipFile, FileFails, DryRun, FileDone, LineInv
  <2>3. Tail(queue) \in Seq(STRING \cap DOMAIN About)
    BY <2>2, NextFile, Zenon DEF LineInv
  <2> QED
    BY <2>1, <2>3 DEF LineInv
<1> QED
  BY <1>1, <1>2, <1>3, <1>4

\* What the batch runs is a command line of options.
LEMMA CommandTyped ==
  ASSUME LineInv, bstage = "build"
  PROVE  Command(Head(queue)) \in Seq(RunOption)
<1> DEFINE f == Head(queue)
<1>1. f \in STRING
  BY NextFile, Zenon DEF LineInv
<1> HIDE DEF f
<1>2. ASSUME NEW v \in Seq(Piece), NEW o \in {"srt", "languages"}
      PROVE  Opt(o, v) \in RunOption
  <2>1. <<>> \in Seq([pos : Int, margins : Seq(Piece)])
    BY EmptySeq, Zenon
  <2> QED
    BY <2>1, Zenon DEF Opt, RunOption, Valued, Plain
<1>3. ASSUME NEW o \in {"input", "output"}
      PROVE  Opt(o, <<Word(f)>>) \in RunOption
  <2>1. <<>> \in Seq([pos : Int, margins : Seq(Piece)])
    BY EmptySeq, Zenon
  <2>2. Word(f) \in Piece
    BY <1>1 DEF Word, Piece
  <2>3. <<Word(f)>> \in Seq(Piece) /\ <<Word(f)>> # <<>>
    BY <2>2
  <2> QED
    BY <2>1, <2>3, Zenon DEF Opt, RunOption, Valued, Plain
<1>4. Tongues \in Seq(Piece)
  <2>1. resolved \in Seq(FoundType) /\ Len(resolved) \in Nat /\ DOMAIN resolved = 1..Len(resolved)
    BY LenProperties, Zenon DEF LineInv
  <2>2. ASSUME NEW i \in 1..Len(resolved)
        PROVE  Word(resolved[i].lang) \in Piece
    <3>1. resolved[i] \in FoundType
      BY <2>1, <2>2, ElementOfSeq
    <3> QED
      BY <3>1 DEF FoundType, Word, Piece
  <2>3. Tongues \in [1..Len(resolved) -> Piece]
    BY <2>1, <2>2 DEF Tongues
  <2> QED
    BY <2>1, <2>3, SeqDef
<1> DEFINE a == Opt("input", <<Word(f)>>)
           b == Opt("output", <<Word(f)>>)
           c == Opt("srt", joined)
           d == Opt("languages", Tongues)
<1>5. a \in RunOption /\ b \in RunOption
  BY <1>3, Zenon
<1>6. c \in RunOption
  BY <1>2, Zenon DEF LineInv
<1>7. d \in RunOption
  BY <1>2, <1>4, Zenon
<1>8. Command(f) = cfg.forward \o <<a, b, c, d>>
  BY Zenon DEF Command
<1> HIDE DEF a, b, c, d
<1>9. <<a, b, c, d>> \in Seq(RunOption)
  BY <1>5, <1>6, <1>7
<1>10. Command(f) \in Seq(RunOption)
  BY <1>8, <1>9, ConcatProperties DEF LineInv, ConfigOK
<1> QED
  BY <1>10, Zenon DEF f

\* The steps of the batch in which no run goes on.
BatchStep ==
  \/ \E line \in Invocations : Batch(line)
  \/ BatchParse \/ BatchParsed \/ BatchFails \/ CheckDirs \/ ScanDir \/ ScanDone
  \/ BeginFile \/ ResolveTemplate \/ Resolved \/ SkipFile \/ FileFails \/ DryRun
  \/ FileDone \/ LoopDone \/ Summary \/ SingleDone

\* The steps that begin a run.
RunBegins == (\E line \in Invocations : Single(line)) \/ EncodeFile

\* A step of the program is one of the batch between runs, begins a run, or is one of a
\* run, a signal, or none.
LEMMA NextSplit ==
  ASSUME [Next]_vars
  PROVE  BatchStep \/ RunBegins \/ RunStep \/ Stop \/ UNCHANGED vars
  BY Zenon DEF Next, Steps, Exited, BatchStep, RunBegins

\* Between runs nothing of a run changes but the number of calls that failed.
LEMMA BatchWaits ==
  ASSUME BatchStep
  PROVE  RunWaits /\ (NoMishap \/ Mishap)
<1>1. ASSUME NEW line \in Invocations, Batch(line)
      PROVE  RunWaits /\ NoMishap
  BY <1>1, Zenon DEF Batch
<1>2. CASE BatchParse \/ BatchParsed \/ CheckDirs \/ ScanDir \/ ScanDone \/ BeginFile \/ Resolved \/ DryRun
  BY <1>2, Zenon
  DEF BatchParse, BatchParsed, CheckDirs, ScanDir, ScanDone, BeginFile, Resolved, DryRun
<1>3. CASE FileDone \/ LoopDone \/ Summary \/ SingleDone
  BY <1>3, Zenon DEF FileDone, LoopDone, Summary, SingleDone
<1>4. CASE BatchFails \/ SkipFile \/ FileFails
  BY <1>4, Zenon DEF BatchFails, SkipFile, FileFails
<1>5. CASE ResolveTemplate
  <2>1. RunWaits /\ \E at \in SUBSET {1, 2} : IF at = {1, 2} THEN NoMishap ELSE Mishap
    BY <1>5, Zenon DEF ResolveTemplate
  <2> QED
    BY <2>1, Zenon
<1> QED
  BY <1>1, <1>2, <1>3, <1>4, <1>5 DEF BatchStep

\* A run begins between two others, with a command line of options.
LEMMA BeginsTyped ==
  ASSUME LineInv, RunBegins
  PROVE  /\ \E line \in Seq(RunOption) : RunCli(line)
         /\ LineInv'
         /\ UNCHANGED <<argv, cfg, nth, resolved, joined, stack, found, queue, counts, code>>
<1>1. ASSUME NEW line \in Invocations, Single(line)
      PROVE  /\ line \in Seq(RunOption) /\ RunCli(line) /\ bstage' = "off"
             /\ UNCHANGED <<argv, cfg, nth, resolved, joined, stack, found, queue, counts, code>>
  BY <1>1, ProgramAssumption, Zenon DEF Single
<1>2. CASE EncodeFile
  <2>1. /\ RunCli(Command(Head(queue))) /\ bstage = "build" /\ bstage' = "encode"
        /\ UNCHANGED <<argv, cfg, nth, resolved, joined, stack, found, queue, counts, code>>
    BY <1>2, Zenon DEF EncodeFile
  <2>2. LineInv'
    BY <2>1, Zenon DEF LineInv
  <2> QED
    BY <2>1, <2>2, CommandTyped
<1>3. ASSUME NEW line \in Invocations, Single(line)
      PROVE  LineInv'
  BY <1>1, <1>3, LineKept
<1> QED
  BY <1>1, <1>2, <1>3 DEF RunBegins

\* The types of the options and of the batch.
LEMMA TypesStart ==
  ASSUME ProgramInit
  PROVE  OptionsInv /\ LineInv
<1>1. OptionsInv
  BY OptionsStart, Zenon DEF ProgramInit
<1>2. /\ <<>> \in Seq(RunOption \cup BatchArg) /\ <<>> \in Seq(FoundType) /\ <<>> \in Seq(Piece)
      /\ <<>> \in Seq(DOMAIN Tree) /\ <<>> \in Seq(STRING \cap DOMAIN About)
  BY EmptySeq, Zenon
<1>3. IsFiniteSet({})
  BY FS_EmptySet, Zenon
<1> QED
  BY <1>1, <1>2, <1>3, DefaultConfig DEF ProgramInit, LineInv

\* Every step of the program keeps the types.
LEMMA TypesStep ==
  ASSUME OptionsInv, LineInv, [Next]_vars
  PROVE  (OptionsInv /\ LineInv)'
<1>1. CASE BatchStep
  <2>1. RunWaits
    BY <1>1, BatchWaits
  <2>2. LineInv'
    BY <1>1, ScanTypes, FileTypes DEF BatchStep
  <2> QED
    BY <2>1, <2>2 DEF OptionsInv, RunWaits
<1>2. CASE RunBegins
  BY <1>2, BeginsTyped, BeginOptions
<1>3. CASE RunStep
  <2>1. RunSteps(ThisInput) /\ UNCHANGED batch
    BY <1>3, Zenon DEF RunStep
  <2> QED
    BY <2>1, RunOptionsStep, Zenon DEF LineInv, batch
<1>4. CASE Stop
  BY <1>4, Zenon DEF Stop, Signal, OptionsInv, LineInv, batch
<1>5. CASE UNCHANGED vars
  BY <1>5, Zenon DEF vars, run, batch, OptionsInv, LineInv
<1> QED
  BY <1>1, <1>2, <1>3, <1>4, <1>5, NextSplit

\* Whatever the command line, the options and the configuration of the batch keep the
\* types that getopt_long and the templates give them.
THEOREM ProgramTypes == Spec => [](OptionsInv /\ LineInv)
<1>1. ProgramInit => OptionsInv /\ LineInv
  BY TypesStart, Zenon
<1>2. OptionsInv /\ LineInv /\ [Next]_vars => (OptionsInv /\ LineInv)'
  BY TypesStep, Zenon
<1> QED
  BY <1>1, <1>2, PTL DEF Spec

\* srt2dvbsub_run_cli uses the setup as TrackSetup describes it: whatever the options and
\* however often it is called in one process, every step of the program is a step of the
\* setup or leaves it alone.
LEMMA SetupImplemented ==
  ASSUME OptionsInv, LineInv, [Next]_vars
  PROVE  [SetupNext]_setup
<1>1. CASE BatchStep
  BY <1>1, BatchWaits, Zenon DEF RunWaits
<1>2. CASE RunBegins
  <2>1. \E line \in Seq(RunOption) : RunCli(line)
    BY <1>2, BeginsTyped, Zenon
  <2> QED
    BY <2>1, Zenon DEF RunCli
<1>3. CASE RunStep
  BY <1>3, InputTyped, RunSetupStep, Zenon DEF RunStep
<1>4. CASE Stop
  BY <1>4, Zenon DEF Stop, Signal
<1>5. CASE UNCHANGED vars
  BY <1>5, Zenon DEF vars
<1> QED
  BY <1>1, <1>2, <1>3, <1>4, <1>5, NextSplit

\* The program implements the specification of the setup: every step of a run, in a
\* batch or not, sets its tracks up as TrackSetup does, or leaves the context alone.
THEOREM ProgramImplementsSetup == Spec => SetupSpec
<1>1. ProgramInit => Init
  BY Zenon DEF ProgramInit, RunInit
<1>2. OptionsInv /\ LineInv /\ [Next]_vars => [SetupNext]_setup
  BY SetupImplemented, Zenon
<1> QED
  BY <1>1, <1>2, ProgramTypes, PTL DEF Spec, SetupSpec

\* So the PIDs and the streams of every run of the program, a batch's included, are as
\* TrackSetup promises.
THEOREM ProgramSetupInvariant == Spec => []SetupInv
  BY ProgramImplementsSetup, SetupInvariant, PTL

\* The PIDs of the streams differ in every run of the program.
THEOREM ProgramDistinctPids == Spec => []DistinctPids
  BY ProgramImplementsSetup, SetupDistinctPids, PTL

\* Each track of every run of the program has a stream of its own.
THEOREM ProgramStreamsOwned == Spec => []StreamsOwned
  BY ProgramImplementsSetup, SetupStreamsOwned, PTL

-----------------------------------------------------------------------------
(* What a run returns and leaves behind.                                   *)

\* The program keeps them together: a run begins only when the last is over.
LEMMA LinkStep ==
  ASSUME LinkInv, SetupInv, OptionsInv, LineInv, [Next]_vars
  PROVE  LinkInv'
<1>1. OverOwn(tracks)
  BY Zenon DEF SetupInv, SetupTypes
<1>2. ASSUME UNCHANGED <<setup, phase, pool>>
      PROVE  LinkInv'
  BY <1>2, Zenon DEF LinkInv, HeldBy, setup
<1>3. CASE BatchStep
  BY <1>2, <1>3, BatchWaits DEF RunWaits
<1>4. CASE RunBegins
  <2>1. PICK line \in Seq(RunOption) : RunCli(line)
    BY <1>4, BeginsTyped, Zenon
  <2>2. phase \in {"none", "over"} /\ phase' = "cli" /\ UNCHANGED <<setup, pool>>
    BY <2>1, Zenon DEF RunCli
  <2>3. ~pool /\ pool \in BOOLEAN
    BY <2>2, Zenon DEF LinkInv
  <2> QED
    BY <2>2, <2>3, EarlyLink DEF Empty
<1>5. CASE RunStep
  BY <1>1, <1>5, RunLink DEF RunStep
<1>6. CASE Stop
  BY <1>2, <1>6, Zenon DEF Stop, Signal
<1>7. CASE UNCHANGED vars
  BY <1>2, <1>7, Zenon DEF vars, run
<1> QED
  BY <1>3, <1>4, <1>5, <1>6, <1>7, NextSplit

\* Run and context stay together in every run of the program.
THEOREM ProgramLink == Spec => []LinkInv
<1>1. ProgramInit => LinkInv
  BY OwnEmpty, Zenon DEF ProgramInit, RunInit, Init, LinkInv, HeldBy, Empty, Ready
<1>2. LinkInv /\ SetupInv /\ OptionsInv /\ LineInv /\ [Next]_vars => LinkInv'
  BY LinkStep, Zenon
<1> QED
  BY <1>1, <1>2, ProgramTypes, ProgramSetupInvariant, PTL DEF Spec

\* On every path through srt2dvbsub_run_cli, ctx_cleanup releases what the context and
\* its tracks hold and shuts the render pool down, for all options, inputs and failing
\* calls.
THEOREM ProgramResourcesReleased == Spec => []ResourcesReleased
<1>1. LinkInv => ResourcesReleased
  BY Zenon DEF LinkInv, ResourcesReleased, Empty
<1> QED
  BY <1>1, ProgramLink, PTL
\* Each step of the program keeps the output file, the counts of --qc-only and the
\* code of the last run together.
LEMMA WorkStep ==
  ASSUME WorkInv, LinkInv, SetupInv, OptionsInv, LineInv, [Next]_vars
  PROVE  WorkInv'
<1>1. OverOwn(tracks) /\ mishaps \in Nat /\ faults \in Nat
  BY Zenon DEF SetupInv, SetupTypes, WorkInv, CountInv
<1>2. CASE BatchStep
  <2>1. RunWaits /\ (NoMishap \/ Mishap)
    BY <1>2, BatchWaits, Zenon
  <2>2. mishaps' \in Nat /\ mishaps' >= mishaps
    BY <1>1, <2>1, MishapCounted, Zenon
  <2>3. UNCHANGED <<setup, phase, args, g, l, armed, file, qc, status>> /\ stop' = stop
    BY <2>1, Zenon DEF RunWaits
  <2> QED
    BY <2>2, <2>3, WorkKept
<1>3. CASE RunBegins
  <2>1. PICK line \in Seq(RunOption) : RunCli(line)
    BY <1>3, BeginsTyped, Zenon
  <2>2. /\ phase' = "cli" /\ UNCHANGED <<setup, mishaps>>
        /\ file' = [state |-> "none", rate |-> 0]
        /\ qc' = [checked |-> 0, bad |-> 0, errors |-> 0]
    BY <2>1, Zenon DEF RunCli
  <2>3. ModeInv'
    BY <2>2, Zenon DEF ModeInv, Ready
  <2>4. FileInv'
    BY <2>2, Zenon DEF FileInv
  <2>5. CountInv'
    BY <1>1, <2>2 DEF CountInv, setup
  <2>6. StatusTruthful'
    BY <2>2 DEF StatusTruthful
  <2> QED
    BY <2>3, <2>4, <2>5, <2>6 DEF WorkInv
<1>4. CASE RunStep
  <2>1. RunSteps(ThisInput)
    BY <1>4, Zenon DEF RunStep
  <2> DEFINE in == ThisInput
  <2> HIDE DEF in
  <2>2. RunSteps(in)
    BY <2>1, Zenon DEF in
  <2>3. CASE ParseArg \/ CheckArgs \/ CliFails \/ Position \/ ResolveFont \/ StartPool \/ Arm
    BY <2>3, EarlyWork, Zenon
  <2>4. CASE QcFails \/ QcFile \/ QcDone
    BY <2>4, QcWork, Zenon
  <2>5. CASE BeginPreview(in) \/ PreviewFails(in) \/ BeginSetup(in) \/ Build \/ RenderPngs
    BY <1>1, <2>5, SetupWork
  <2>6. CASE OpenOutput \/ WriteHeader \/ Loop \/ WriteTrailer
    BY <2>2, <2>6, OutputWork
  <2> QED
    BY <2>2, <2>3, <2>4, <2>5, <2>6 DEF RunSteps
<1>5. CASE Stop
  <2>1. UNCHANGED <<setup, phase, args, g, l, armed, file, qc, status, mishaps>> /\ stop' = TRUE
    BY <1>5, Zenon DEF Stop, Signal
  <2>2. mishaps' \in Nat /\ mishaps' >= mishaps
    BY <1>1, <2>1
  <2> QED
    BY <2>1, <2>2, WorkKept
<1>6. CASE UNCHANGED vars
  <2>1. UNCHANGED <<setup, phase, args, g, l, armed, file, qc, status, mishaps, stop>>
    BY <1>6, Zenon DEF vars, run
  <2>2. mishaps' \in Nat /\ mishaps' >= mishaps
    BY <1>1, <2>1
  <2> QED
    BY <2>1, <2>2, WorkKept
<1> QED
  BY <1>2, <1>3, <1>4, <1>5, <1>6, NextSplit

\* They stay together in every run of the program.
THEOREM ProgramWork == Spec => []WorkInv
<1>1. ProgramInit => WorkInv
  <2> SUFFICES ASSUME ProgramInit PROVE WorkInv
    BY Zenon
  <2>1. /\ phase = "none" /\ file = [state |-> "none", rate |-> 0]
        /\ qc = [checked |-> 0, bad |-> 0, errors |-> 0] /\ mishaps = 0 /\ faults = 0
    BY Zenon DEF ProgramInit, RunInit, Init
  <2> QED
    BY <2>1 DEF WorkInv, ModeInv, FileInv, CountInv, StatusTruthful, Ready
<1>2. WorkInv /\ LinkInv /\ SetupInv /\ OptionsInv /\ LineInv /\ [Next]_vars => WorkInv'
  BY WorkStep, Zenon
<1> QED
  BY <1>1, <1>2, ProgramTypes, ProgramSetupInvariant, ProgramLink, PTL DEF Spec

\* What srt2dvbsub_run_cli returns is true of the output file and of the files checked,
\* for all options, inputs, signals and failing calls, and for every file of a batch.
THEOREM ProgramStatusTruthful == Spec => []StatusTruthful
<1>1. WorkInv => StatusTruthful
  BY Zenon DEF WorkInv
<1> QED
  BY <1>1, ProgramWork, PTL

-----------------------------------------------------------------------------
(* What a batch accounts for.                                              *)

\* The directories below the input directory are those a scan can reach.
LEMMA BelowClosed ==
  /\ cfg.in \in DOMAIN Tree => cfg.in \in Below
  /\ \A d \in Below : Subdirs(d) \subseteq Below
  /\ \A S \in SUBSET DOMAIN Tree :
       cfg.in \in S /\ (\A x \in S : Subdirs(x) \subseteq S) => Below \subseteq S
<1>1. cfg.in \in DOMAIN Tree => cfg.in \in Below
  BY Zenon DEF Below, Under
<1>2. ASSUME NEW d \in Below, NEW e \in Subdirs(d)
      PROVE  e \in Below
  <2>1. d \in DOMAIN Tree /\ Under(d)
    BY Zenon DEF Below
  <2>2. e \in DOMAIN Tree
    BY <2>1, EntriesTyped, Zenon
  <2>3. ASSUME NEW S \in SUBSET DOMAIN Tree, cfg.in \in S, \A x \in S : Entries(x, "dir") \subseteq S
        PROVE  e \in S
    <3>1. d \in S
      BY <2>1, <2>3, Zenon DEF Under
    <3> QED
      BY <2>3, <3>1, Zenon DEF Subdirs
  <2>4. Under(e)
    BY <2>3, Zenon DEF Under
  <2> QED
    BY <2>2, <2>4 DEF Below
<1>3. ASSUME NEW S \in SUBSET DOMAIN Tree, cfg.in \in S, \A x \in S : Subdirs(x) \subseteq S
      PROVE  Below \subseteq S
  BY <1>3, Zenon DEF Below, Under, Subdirs
<1> QED
  BY <1>1, <1>2, <1>3

\* Steps that neither read a directory nor change what was found.
LEMMA ScanKept ==
  ASSUME ScanInv, UNCHANGED <<cfg, stack, found>>,
         \/ bstage' = bstage
         \/ bstage \in During /\ bstage' \in During
         \/ bstage = "args" /\ bstage' = "check"
         \/ bstage' \in {"off", "done"}
  PROVE  ScanInv'
<1>1. Below' = Below
  BY Zenon DEF Below, Under
<1>2. \A seen : Scanned(seen) => Scanned(seen)'
  BY <1>1, Zenon DEF Scanned
<1>3. bstage' = "scan" => bstage = "scan"
  BY Zenon DEF During
<1>4. bstage' = "scan" => \E seen \in SUBSET DOMAIN Tree : Scanned(seen)'
  BY <1>2, <1>3, Zenon DEF ScanInv
<1>5. bstage' \in {"start", "args", "check"} => found' = {}
  BY Zenon DEF ScanInv, During
<1>6. bstage' \in During => found' = UNION {Entries(d, "ts") : d \in Below'}
  BY <1>1, Zenon DEF ScanInv, During
<1> QED
  BY <1>4, <1>5, <1>6 DEF ScanInv

\* The members of a sequence.
Members(s) == {s[i] : i \in DOMAIN s}

\* The members of the stack after the directory on top of it was read.
LEMMA StackRead ==
  ASSUME NEW S, NEW s \in Seq(S), s # <<>>, NEW t \in Seq(S)
  PROVE  Members(s) \cup Members(t) = {s[Len(s)]} \cup Members(SubSeq(s, 1, Len(s) - 1) \o t)
<1> DEFINE D == Members(t)
<1>0. D = {t[i] : i \in DOMAIN t}
  BY Zenon DEF Members
<1> HIDE DEF D
<1> DEFINE n == Len(s)
           r == SubSeq(s, 1, n - 1)
           u == r \o t
<1>1. n \in Nat /\ n > 0 /\ DOMAIN s = 1..n
  BY LenProperties, EmptySeq
<1>2. r \in Seq(S) /\ Len(r) = n - 1 /\ \A i \in 1..(n - 1) : r[i] = s[i]
  BY <1>1, SubSeqProperties
<1> HIDE DEF n, r
<1>3. Len(t) \in Nat /\ DOMAIN t = 1..Len(t)
  BY LenProperties, Zenon
<1>4. /\ u \in Seq(S) /\ Len(u) = n - 1 + Len(t) /\ DOMAIN u = 1..(n - 1 + Len(t))
      /\ \A i \in 1..(n - 1) : u[i] = s[i]
      /\ \A i \in 1..Len(t) : u[n - 1 + i] = t[i]
  <2>1. /\ u \in Seq(S) /\ Len(u) = Len(r) + Len(t)
        /\ \A i \in 1..Len(u) : u[i] = IF i <= Len(r) THEN r[i] ELSE t[i - Len(r)]
    <3>1. /\ r \o t \in Seq(S) /\ Len(r \o t) = Len(r) + Len(t)
          /\ \A i \in 1..(Len(r) + Len(t)) :
               (r \o t)[i] = IF i <= Len(r) THEN r[i] ELSE t[i - Len(r)]
      BY <1>2, ConcatProperties, Zenon
    <3> QED
      BY <3>1, Zenon
  <2>2. DOMAIN u = 1..Len(u)
    BY <2>1, LenProperties, Zenon
  <2> HIDE DEF u
  <2>3. \A i \in 1..(n - 1) : u[i] = s[i]
    <3> TAKE i \in 1..(n - 1)
    <3>1. i \in 1..Len(u) /\ i <= Len(r)
      BY <1>1, <1>2, <1>3, <2>1
    <3>2. u[i] = r[i]
      BY <2>1, <3>1, Zenon
    <3> QED
      BY <1>2, <3>2
  <2>4. \A i \in 1..Len(t) : u[n - 1 + i] = t[i]
    <3> TAKE i \in 1..Len(t)
    <3> DEFINE k == n - 1 + i
    <3>0. n \in Nat /\ Len(t) \in Nat /\ n > 0 /\ Len(r) = n - 1 /\ Len(u) = Len(r) + Len(t)
      BY <1>1, <1>2, <1>3, <2>1
    <3>1. k \in 1..Len(u) /\ ~(k <= Len(r)) /\ k - Len(r) = i
      BY ONLY <3>0, i \in 1..Len(t)
    <3> HIDE DEF k
    <3>2. u[k] = t[k - Len(r)]
      BY <2>1, <3>1, Zenon
    <3>3. u[k] = t[i]
      BY <3>1, <3>2, Zenon
    <3> QED
      BY <3>3, Zenon DEF k
  <2> QED
    BY <1>2, <2>1, <2>2, <2>3, <2>4
<1> HIDE DEF u
<1>5. ASSUME NEW x \in {s[i] : i \in DOMAIN s} \cup D
      PROVE  x \in {s[n]} \cup {u[i] : i \in DOMAIN u}
  <2>1. CASE x \in D
    <3>1. PICK j \in 1..Len(t) : x = t[j]
      BY <1>0, <1>3, <2>1
    <3>2. n - 1 + j \in DOMAIN u /\ u[n - 1 + j] = x
      <4>1. n - 1 + j \in 1..(n - 1 + Len(t))
        BY ONLY <1>1, <1>3, j \in 1..Len(t)
      <4> QED
        BY <1>4, <3>1, <4>1, Zenon
    <3> QED
      BY <3>2, Zenon
  <2>2. CASE x \notin D
    <3>1. PICK i \in 1..n : x = s[i]
      BY <1>1, <2>2, Zenon
    <3>2. i = n \/ i \in 1..(n - 1)
      BY <1>1
    <3>3. ASSUME i \in 1..(n - 1)
          PROVE  i \in DOMAIN u /\ u[i] = x
      <4>1. i \in 1..(n - 1 + Len(t))
        BY ONLY <1>1, <1>3, <3>3
      <4> QED
        BY <1>4, <3>1, <3>3, <4>1, Zenon
    <3> QED
      BY <3>1, <3>2, <3>3, Zenon
  <2> QED
    BY <2>1, <2>2, Zenon
<1>6. ASSUME NEW x \in {s[n]} \cup {u[i] : i \in DOMAIN u}
      PROVE  x \in {s[i] : i \in DOMAIN s} \cup D
  <2>1. CASE x = s[n]
    BY <1>1, <2>1
  <2>2. CASE x # s[n]
    <3>1. PICK i \in 1..(n - 1 + Len(t)) : x = u[i]
      BY <1>4, <2>2, Zenon
    <3>2. CASE i \in 1..(n - 1)
      <4>1. i \in DOMAIN s
        BY <1>1, <3>2
      <4>2. x = s[i]
        BY <1>4, <3>1, <3>2, Zenon
      <4> QED
        BY <4>1, <4>2, Zenon
    <3>3. CASE i \notin 1..(n - 1)
      <4>1. i - (n - 1) \in 1..Len(t) /\ n - 1 + (i - (n - 1)) = i
        BY <1>1, <1>3, <3>3
      <4>2. x = t[i - (n - 1)]
        BY <1>4, <3>1, <4>1, Zenon
      <4> QED
        BY <1>0, <1>3, <4>1, <4>2
    <3> QED
      BY <3>2, <3>3, Zenon
  <2> QED
    BY <2>1, <2>2, Zenon
<1>7. {s[i] : i \in DOMAIN s} \cup D = {s[n]} \cup {u[i] : i \in DOMAIN u}
  BY <1>5, <1>6, Zenon
<1> QED
  BY <1>7, Zenon DEF n, u, r, D, Members

\* The scan visits the directories below the input directory and no other.
LEMMA ScanDirStep ==
  ASSUME ScanInv, LineInv, ScanDir
  PROVE  ScanInv'
<1> DEFINE dir == stack[Len(stack)]
<1>1. /\ bstage = "scan" /\ stack # <<>> /\ cfg' = cfg
      /\ \/ bstage' = "done"
         \/ /\ bstage' = bstage /\ found' = found \cup Streams(dir)
            /\ \E dirs \in Orders(Subdirs(dir)) : stack' = SubSeq(stack, 1, Len(stack) - 1) \o dirs
  BY Zenon DEF ScanDir, Exit
<1>2. CASE bstage' = "done"
  BY <1>2, Zenon DEF ScanInv, During
<1>3. CASE bstage' # "done"
  <2>1. PICK dirs \in Orders(Subdirs(dir)) : stack' = SubSeq(stack, 1, Len(stack) - 1) \o dirs
    BY <1>1, <1>3, Zenon
  <2>2. PICK seen \in SUBSET DOMAIN Tree : Scanned(seen)
    BY <1>1, Zenon DEF ScanInv
  <2> DEFINE known == seen \cup {stack[i] : i \in DOMAIN stack}
             after == {stack'[i] : i \in DOMAIN stack'}
  <2>3. /\ cfg.in \in known /\ known \subseteq Below
        /\ \A d \in seen : Entries(d, "dir") \subseteq known
        /\ found = UNION {Entries(d, "ts") : d \in seen}
    BY <2>2, Zenon DEF Scanned
  <2>4. stack \in Seq(DOMAIN Tree) /\ Len(stack) \in Nat /\ Len(stack) > 0 /\ DOMAIN stack = 1..Len(stack)
    BY <1>1, LenProperties, EmptySeq DEF LineInv
  <2>5. dir \in DOMAIN Tree
    BY <2>4, ElementOfSeq
  <2>6. dir \in known
    BY <2>4
  <2>7. IsFiniteSet(Subdirs(dir)) /\ Subdirs(dir) \subseteq DOMAIN Tree
    BY <2>5, EntriesTyped, Zenon
  <2>8. dirs \in Seq(Subdirs(dir)) /\ Subdirs(dir) = {dirs[i] : i \in DOMAIN dirs}
    BY <2>7, OrderTyped
  <2>9. dirs \in Seq(DOMAIN Tree)
    <3>1. Len(dirs) \in Nat /\ dirs \in [1..Len(dirs) -> Subdirs(dir)]
      BY <2>8, LenProperties
    <3>2. dirs \in [1..Len(dirs) -> DOMAIN Tree]
      BY <2>7, <3>1, Zenon
    <3> QED
      BY <3>1, <3>2, SeqDef
  <2>10. {stack[i] : i \in DOMAIN stack} \cup Subdirs(dir) = {dir} \cup after
    <3>1. Members(stack) \cup Members(dirs) = {dir} \cup Members(stack')
      BY <1>1, <2>1, <2>4, <2>9, StackRead
    <3> QED
      BY <2>8, <3>1, Zenon DEF Members
  <2>0. PICK now \in SUBSET DOMAIN Tree : now = seen \cup {dir}
    BY <2>5, Zenon
  <2>11. now \cup after = known \cup Subdirs(dir)
    BY <2>0, <2>6, <2>10
  <2>12. Below' = Below
    BY <1>1, Zenon DEF Below, Under
  <2> HIDE DEF dir, after, known
  <2>13. Subdirs(dir) \subseteq Below
    BY <2>3, <2>6, BelowClosed
  <2>14. found' = UNION {Entries(d, "ts") : d \in now}
    BY <1>1, <1>3, <2>0, <2>3 DEF Streams
  <2>15. \A d \in now : Entries(d, "dir") \subseteq now \cup after
    BY <2>0, <2>3, <2>11 DEF Subdirs
  <2>16. cfg.in \in now \cup after /\ now \cup after \subseteq Below
    BY <2>3, <2>11, <2>13
  <2>17. Scanned(now)'
    BY <1>1, <2>12, <2>14, <2>15, <2>16 DEF Scanned, after
  <2> QED
    BY <1>1, <1>3, <2>17 DEF ScanInv, During
<1> QED
  BY <1>2, <1>3, Zenon

\* Every step of the program keeps what is known of the scan.
LEMMA ScanStep ==
  ASSUME ScanInv, LineInv, [Next]_vars
  PROVE  ScanInv'
<1>1. ASSUME NEW line \in Invocations, Batch(line)
      PROVE  ScanInv'
  <2>1. bstage = "start" /\ bstage' = "args" /\ found' = found
    BY <1>1, Zenon DEF Batch
  <2> QED
    BY <2>1, Zenon DEF ScanInv, During
<1>2. CASE BatchParse
  <2>1. bstage = "args" /\ bstage' \in {"args", "done"} /\ found' = found
    BY <1>2, Zenon DEF BatchParse, Exit
  <2> QED
    BY <2>1, Zenon DEF ScanInv, During
<1>3. CASE BatchParsed \/ BatchFails \/ SingleDone
  BY <1>3, ScanKept, ZenonT(60) DEF BatchParsed, BatchFails, SingleDone, Exit
<1>4. CASE CheckDirs
  <2>1. CASE ~DirsReady
    <3>1. bstage' = "done"
      BY <1>4, <2>1, Zenon DEF CheckDirs, Exit
    <3> QED
      BY <3>1, Zenon DEF ScanInv, During
  <2>2. CASE DirsReady
    <3>1. /\ bstage = "check" /\ bstage' = "scan" /\ stack' = <<cfg.in>> /\ UNCHANGED <<cfg, found>>
          /\ cfg.in \in DOMAIN Tree
      BY <1>4, <2>2, Zenon DEF CheckDirs, DirsReady
    <3>2. Below' = Below
      BY <3>1, Zenon DEF Below, Under
    <3>3. {stack'[i] : i \in DOMAIN stack'} = {cfg.in}
      BY <3>1
    <3>4. found' = UNION {Entries(d, "ts") : d \in {}}
      BY <3>1, Zenon DEF ScanInv
    <3>5. cfg.in \in Below
      BY <3>1, BelowClosed
    <3>6. Scanned({})'
      BY <3>1, <3>2, <3>3, <3>4, <3>5 DEF Scanned
    <3>7. {} \in SUBSET DOMAIN Tree
      BY Zenon
    <3> QED
      BY <3>1, <3>6, <3>7 DEF ScanInv, During
  <2> QED
    BY <2>1, <2>2, Zenon
<1>5. CASE ScanDir
  BY <1>5, ScanDirStep, Zenon
<1>6. CASE ScanDone
  <2>1. /\ bstage = "scan" /\ stack = <<>> /\ bstage' \in {"loop", "done"} /\ UNCHANGED <<cfg, found>>
    BY <1>6, Zenon DEF ScanDone, Exit
  <2>2. PICK seen \in SUBSET DOMAIN Tree : Scanned(seen)
    BY <2>1, Zenon DEF ScanInv
  <2>3. {stack[i] : i \in DOMAIN stack} = {}
    BY <2>1
  <2>4. /\ cfg.in \in seen /\ seen \subseteq Below
        /\ \A d \in seen : Subdirs(d) \subseteq seen
        /\ found = UNION {Entries(d, "ts") : d \in seen}
    BY <2>2, <2>3 DEF Scanned, Subdirs
  <2>5. seen = Below
    BY <2>4, BelowClosed
  <2>6. Below' = Below
    BY <2>1, Zenon DEF Below, Under
  <2> QED
    BY <2>1, <2>4, <2>5, <2>6 DEF ScanInv, During
<1>7. CASE BeginFile \/ ResolveTemplate \/ Resolved \/ SkipFile \/ FileFails \/ DryRun
  <2>1. UNCHANGED <<cfg, stack, found>> /\ bstage \in During /\ bstage' \in During
    BY <1>7, Zenon DEF BeginFile, ResolveTemplate, Resolved, SkipFile, FileFails, DryRun, During
  <2> QED
    BY <2>1, ScanKept
<1>8. CASE FileDone \/ LoopDone \/ EncodeFile
  <2>1. UNCHANGED <<cfg, stack, found>> /\ bstage \in During /\ bstage' \in During
    BY <1>8, Zenon DEF FileDone, LoopDone, EncodeFile, During
  <2> QED
    BY <2>1, ScanKept
<1>9. CASE Summary
  BY <1>9, ScanKept, Zenon DEF Summary, Exit
<1>10. ASSUME NEW line \in Invocations, Single(line)
       PROVE  ScanInv'
  BY <1>10, ScanKept DEF Single
<1>11. CASE RunStep \/ Stop \/ UNCHANGED vars
  <2>1. UNCHANGED <<cfg, stack, found, bstage>>
    BY <1>11, Zenon DEF RunStep, Stop, vars, batch
  <2> QED
    BY <2>1, ScanKept
<1> QED
  BY <1>1, <1>2, <1>3, <1>4, <1>5, <1>6, <1>7, <1>8, <1>9, <1>10, <1>11, NextSplit
  DEF BatchStep, RunBegins

\* A run never takes a request to stop back.
LEMMA StopKept ==
  ASSUME OptionsInv, NEW in, RunSteps(in)
  PROVE  stop' = stop
<1>1. CASE phase = "cli"
  <2>1. ParseArg \/ CheckArgs \/ CliFails
    BY <1>1, ZenonT(60)
    DEF RunSteps, Position, ResolveFont, StartPool, Arm, QcFails, QcFile, QcDone, BeginPreview,
                PreviewFails, BeginSetup, Build, RenderPngs, OpenOutput, WriteHeader, Loop, WriteTrailer
  <2> QED
    BY <2>1, CliStep
<1>2. CASE phase # "cli"
  BY <1>2, Later DEF OptionsInv
<1> QED
  BY <1>1, <1>2

\* The files are in the order of their paths.
Sorted(q) == \A i \in 1..(Len(q) - 1) : About[q[i]].rank < About[q[i + 1]].rank

\* The queue without its first file stays sorted.
LEMMA SortedTail ==
  ASSUME NEW S, NEW q \in Seq(S), q # <<>>, Sorted(q)
  PROVE  Sorted(Tail(q)) /\ Len(Tail(q)) = Len(q) - 1 /\ Len(q) \in Nat /\ Len(q) > 0
<1>1. /\ Len(q) \in Nat /\ Len(q) > 0 /\ Len(Tail(q)) = Len(q) - 1
      /\ \A i \in 1..Len(Tail(q)) : Tail(q)[i] = q[i + 1]
  BY HeadTailProperties, LenProperties, EmptySeq
<1> DEFINE t == Tail(q)
<1> HIDE DEF t
<1>2. ASSUME NEW i \in 1..(Len(t) - 1)
      PROVE  About[t[i]].rank < About[t[i + 1]].rank
  <2>1. /\ i \in 1..Len(t) /\ i + 1 \in 1..Len(t) /\ i + 1 \in 1..(Len(q) - 1)
    BY <1>1 DEF t
  <2>2. t[i] = q[i + 1] /\ t[i + 1] = q[(i + 1) + 1]
    BY <1>1, <2>1, Zenon DEF t
  <2>3. About[q[i + 1]].rank < About[q[(i + 1) + 1]].rank
    BY <2>1, Zenon DEF Sorted
  <2> QED
    BY <2>2, <2>3
<1> QED
  BY <1>1, <1>2 DEF Sorted, t

\* One more file is counted.
LEMMA CountedUp ==
  ASSUME DOMAIN counts = {"processed", "failed", "skipped"},
         counts.processed \in Nat, counts.failed \in Nat, counts.skipped \in Nat,
         NEW x \in {"processed", "failed", "skipped"}, NEW c, c = [counts EXCEPT ![x] = counts[x] + 1]
  PROVE  /\ DOMAIN c = {"processed", "failed", "skipped"}
         /\ c.processed \in Nat /\ c.failed \in Nat /\ c.skipped \in Nat
         /\ c.processed + c.failed + c.skipped = counts.processed + counts.failed + counts.skipped + 1
<1>1. CASE x = "processed"
  BY <1>1
<1>2. CASE x = "failed"
  BY <1>2
<1>3. CASE x = "skipped"
  BY <1>3
<1> QED
  BY <1>1, <1>2, <1>3

\* A step that is done with the first file of the queue.
LEMMA FileCounted ==
  ASSUME QueueInv, LineInv, queue # <<>>, bstage \in {"loop", "resolve", "build", "encode"},
         queue' = Tail(queue), UNCHANGED <<found, begun, code, stop>>,
         NEW x \in {"processed", "failed", "skipped"}, counts' = [counts EXCEPT ![x] = counts[x] + 1],
         \/ bstage' = "loop" /\ begun = 0
         \/ bstage' = "summary" /\ stop
  PROVE  QueueInv'
<1>1. /\ DOMAIN counts = {"processed", "failed", "skipped"}
      /\ counts.processed \in Nat /\ counts.failed \in Nat /\ counts.skipped \in Nat
      /\ begun \in Nat /\ begun <= 1
  BY Zenon DEF QueueInv
<1>2. /\ DOMAIN counts' = {"processed", "failed", "skipped"}
      /\ counts'.processed \in Nat /\ counts'.failed \in Nat /\ counts'.skipped \in Nat
      /\ counts'.processed + counts'.failed + counts'.skipped
           = counts.processed + counts.failed + counts.skipped + 1
  BY <1>1, CountedUp, Zenon
<1>3. /\ counts.processed + counts.failed + counts.skipped + Len(queue) = Cardinality(found)
      /\ Sorted(queue)
  BY Zenon DEF QueueInv, During, Sorted
<1>4. Sorted(queue') /\ Len(queue') = Len(queue) - 1 /\ Len(queue) \in Nat
  BY <1>3, SortedTail, Zenon DEF LineInv
<1>5. counts'.processed + counts'.failed + counts'.skipped + Len(queue') = Cardinality(found')
  <2> DEFINE a == counts.processed + counts.failed + counts.skipped
             b == counts'.processed + counts'.failed + counts'.skipped
  <2>1. a \in Nat /\ b = a + 1
    BY <1>1, <1>2
  <2>2. a + Len(queue) = Cardinality(found)
    BY <1>3, Zenon
  <2> HIDE DEF a, b
  <2>3. b + Len(queue') = Cardinality(found)
    BY <1>4, <2>1, <2>2
  <2> QED
    BY <2>3, Zenon DEF b
<1>6. begun' > 0 => stop' /\ bstage' = "summary"
  <2>1. CASE begun = 0
    <3>1. ~(0 > 0)
      OBVIOUS
    <3> QED
      BY <2>1, <3>1, Zenon
  <2>2. CASE begun # 0
    BY <2>2, Zenon
  <2> QED
    BY <2>1, <2>2, Zenon
<1>7. /\ bstage' \in During /\ bstage' \notin Before /\ bstage' # "done"
      /\ bstage' = "summary" => stop'
  BY Zenon DEF Before, During
<1>8. \A i \in 1..(Len(queue') - 1) : About[queue'[i]].rank < About[queue'[i + 1]].rank
  BY <1>4, Zenon DEF Sorted
<1>9. begun' \in Nat /\ begun' <= 1
  BY <1>1, Zenon
<1> QED
  BY <1>2, <1>5, <1>6, <1>7, <1>8, <1>9, Zenon DEF QueueInv

\* Steps that count nothing.
LEMMA QueueKept ==
  ASSUME QueueInv, UNCHANGED <<counts, queue, found, begun, code>>, stop => stop',
         \/ bstage' = bstage
         \/ bstage \in Before /\ bstage' \in Before
         \/ bstage \in {"loop", "resolve", "build"} /\ bstage' \in {"loop", "resolve", "build"}
         \/ bstage = "loop" /\ bstage' = "summary" /\ queue = <<>>
  PROVE  QueueInv'
  BY Zenon DEF QueueInv, Before, During

\* An exit before the loop, which has counted nothing.
LEMMA QueueExit ==
  ASSUME QueueInv, UNCHANGED <<counts, begun>>, bstage \in Before, bstage' = "done"
  PROVE  QueueInv'
<1>1. counts.failed = 0 /\ begun = 0
  BY DEF QueueInv, Before
<1> QED
  BY <1>1, Zenon DEF QueueInv, Before, During

\* Every step of the program keeps the account of the files.
LEMMA QueueStep ==
  ASSUME QueueInv, LineInv, OptionsInv, [Next]_vars
  PROVE  QueueInv'
<1>1. ASSUME NEW line \in Invocations, Batch(line) \/ Single(line)
      PROVE  QueueInv'
  <2>1. /\ UNCHANGED <<counts, queue, found, begun, code, stop>>
        /\ bstage \in Before /\ bstage' \in Before
    BY <1>1, Zenon DEF Batch, Single, RunWaits, RunCli, Before
  <2> QED
    BY <2>1, QueueKept
<1>2. CASE BatchParse \/ BatchParsed \/ BatchFails \/ CheckDirs \/ ScanDir \/ SingleDone
  <2>1. /\ UNCHANGED <<counts, queue, begun, stop>> /\ bstage \in Before
        /\ \/ bstage' = "done"
           \/ bstage' \in Before /\ UNCHANGED code
    BY <1>2, ZenonT(60)
    DEF BatchParse, BatchParsed, BatchFails, CheckDirs, ScanDir, SingleDone, Exit, RunWaits, Before
  <2>2. CASE bstage' = "done"
    BY <2>1, <2>2, QueueExit
  <2>3. CASE bstage' # "done"
    BY <2>1, <2>3, ZenonT(60) DEF QueueInv, Before, During
  <2> QED
    BY <2>2, <2>3
<1>3. CASE ScanDone
  <2>1. /\ bstage = "scan" /\ UNCHANGED <<counts, found, begun, stop>>
        /\ \/ bstage' = "done"
           \/ bstage' = "loop" /\ UNCHANGED code
        /\ \E files \in Orders(found) :
             /\ \A i \in 1..(Len(files) - 1) : About[files[i]].rank < About[files[i + 1]].rank
             /\ queue' = files
    BY <1>3, Zenon DEF ScanDone, Exit, RunWaits
  <2>2. CASE bstage' = "done"
    BY <2>1, <2>2, QueueExit, ZenonT(60) DEF Before
  <2>3. CASE bstage' # "done"
    <3>1. Sorted(queue') /\ queue' \in Orders(found)
      BY <2>1, Zenon DEF Sorted
    <3>2. Len(queue') = Cardinality(found) /\ Cardinality(found) \in Nat
      BY <3>1, OrderTyped DEF LineInv
    <3>3. /\ counts.processed = 0 /\ counts.failed = 0 /\ counts.skipped = 0 /\ begun = 0
      BY <2>1 DEF QueueInv, Before
    <3>4. counts'.processed + counts'.failed + counts'.skipped + Len(queue') = Cardinality(found')
      BY <2>1, <3>2, <3>3
    <3> QED
      BY <2>1, <2>3, <3>1, <3>3, <3>4 DEF QueueInv, Before, During, Sorted
  <2> QED
    BY <2>2, <2>3
<1>4. CASE BeginFile \/ ResolveTemplate \/ Resolved \/ LoopDone
  <2>1. /\ UNCHANGED <<counts, queue, found, begun, code, stop>>
        /\ \/ bstage \in {"loop", "resolve", "build"} /\ bstage' \in {"loop", "resolve", "build"}
           \/ bstage = "loop" /\ bstage' = "summary" /\ queue = <<>>
    BY <1>4, Zenon DEF BeginFile, ResolveTemplate, Resolved, LoopDone, RunWaits
  <2> QED
    BY <2>1, QueueKept
<1>5. CASE SkipFile \/ FileFails \/ DryRun
  <2>1. /\ bstage \in {"loop", "resolve", "build"} /\ queue # <<>>
        /\ queue' = Tail(queue) /\ UNCHANGED <<found, begun, code, stop>>
        /\ bstage' = "loop" \/ (bstage' = "summary" /\ stop)
    BY <1>5, Zenon DEF SkipFile, FileFails, DryRun, RunWaits, Interrupted, LineInv
  <2>2. begun = 0
    BY <2>1 DEF QueueInv
  <2>3. CASE SkipFile
    <3>1. counts' = [counts EXCEPT !["skipped"] = counts["skipped"] + 1]
      BY <2>3, Zenon DEF SkipFile
    <3> QED
      BY <2>1, <2>2, <3>1, FileCounted
  <2>4. CASE FileFails
    <3>1. counts' = [counts EXCEPT !["failed"] = counts["failed"] + 1]
      BY <2>4, Zenon DEF FileFails
    <3> QED
      BY <2>1, <2>2, <3>1, FileCounted
  <2>5. CASE DryRun
    <3>1. counts' = [counts EXCEPT !["processed"] = counts["processed"] + 1]
      BY <2>5, Zenon DEF DryRun
    <3> QED
      BY <2>1, <2>2, <3>1, FileCounted
  <2> QED
    BY <1>5, <2>3, <2>4, <2>5
<1>6. CASE EncodeFile
  <2>1. /\ bstage = "build" /\ bstage' = "encode" /\ begun' = begun + (IF stop THEN 1 ELSE 0)
        /\ UNCHANGED <<counts, queue, found, code, stop>>
    BY <1>6, Zenon DEF EncodeFile, RunCli
  <2>2. begun = 0
    BY <2>1 DEF QueueInv
  <2>3. begun' = IF stop THEN 1 ELSE 0
    BY <2>1, <2>2
  <2> QED
    BY <2>1, <2>3 DEF QueueInv, Before, During
<1>7. CASE FileDone
  <2>1. /\ bstage = "encode" /\ queue # <<>> /\ queue' = Tail(queue)
        /\ UNCHANGED <<found, begun, code, stop>>
        /\ counts' = Counted(status) /\ bstage' = IF stop THEN "summary" ELSE "loop"
    BY <1>7, Zenon DEF FileDone, RunWaits, Interrupted, LineInv
  <2>2. ~stop => begun = 0
    BY <2>1 DEF QueueInv
  <2>3. (bstage' = "loop" /\ begun = 0) \/ (bstage' = "summary" /\ stop)
    BY <2>1, <2>2
  <2>4. CASE status = 0
    <3>1. counts' = [counts EXCEPT !["processed"] = counts["processed"] + 1]
      BY <2>1, <2>4 DEF Counted
    <3> QED
      BY <2>1, <2>3, <3>1, FileCounted
  <2>5. CASE status # 0
    <3>1. counts' = [counts EXCEPT !["failed"] = counts["failed"] + 1]
      BY <2>1, <2>5 DEF Counted
    <3> QED
      BY <2>1, <2>3, <3>1, FileCounted
  <2> QED
    BY <2>4, <2>5
<1>8. CASE Summary
  <2>1. /\ bstage = "summary" /\ bstage' = "done" /\ code' = IF counts.failed = 0 THEN 0 ELSE 1
        /\ UNCHANGED <<counts, queue, found, begun, stop>>
    BY <1>8, Zenon DEF Summary, Exit, RunWaits
  <2> QED
    BY <2>1 DEF QueueInv, Before, During
<1>9. CASE RunStep
  <2>1. UNCHANGED <<counts, queue, found, begun, code, bstage>> /\ stop' = stop
    BY <1>9, StopKept DEF RunStep, batch
  <2> QED
    BY <2>1, QueueKept
<1>10. CASE Stop
  <2>1. UNCHANGED <<counts, queue, found, begun, code, bstage>> /\ stop' = TRUE
    BY <1>10, Zenon DEF Stop, Signal, batch
  <2> QED
    BY <2>1, QueueKept
<1>11. CASE UNCHANGED vars
  <2>1. UNCHANGED <<counts, queue, found, begun, code, bstage, stop>>
    BY <1>11, Zenon DEF vars, batch, run
  <2> QED
    BY <2>1, QueueKept, Zenon
<1> QED
  BY <1>1, <1>2, <1>3, <1>4, <1>5, <1>6, <1>7, <1>8, <1>9, <1>10, <1>11, NextSplit
  DEF BatchStep, RunBegins

\* What was scanned, and what was counted, in every state of the program.
THEOREM ProgramQueue == Spec => [](ScanInv /\ QueueInv)
<1>1. ProgramInit => ScanInv /\ QueueInv
  <2> SUFFICES ASSUME ProgramInit PROVE ScanInv /\ QueueInv
    BY Zenon
  <2>1. /\ bstage = "start" /\ found = {} /\ queue = <<>> /\ begun = 0
        /\ counts = [processed |-> 0, failed |-> 0, skipped |-> 0]
    BY Zenon DEF ProgramInit
  <2> QED
    BY <2>1 DEF ScanInv, QueueInv, Before, During
<1>2. ScanInv /\ QueueInv /\ OptionsInv /\ LineInv /\ [Next]_vars => (ScanInv /\ QueueInv)'
  BY ScanStep, QueueStep
<1> QED
  BY <1>1, <1>2, ProgramTypes, PTL DEF Spec

\* A batch takes every transport stream below the input directory, whatever the tree and
\* the order of readdir, in the order of the paths, and every file is processed, failed,
\* skipped or still to come; after a stop at most one more is begun, and a batch with a
\* failed file does not return 0.
THEOREM ProgramBatchAccounts == Spec => []BatchAccounts
<1>1. ScanInv /\ QueueInv => BatchAccounts
  <2> SUFFICES ASSUME ScanInv, QueueInv PROVE BatchAccounts
    BY Zenon
  <2>1. bstage = "loop" => found = StreamsIn(Below)
    BY Zenon DEF ScanInv, During, StreamsIn
  <2>2. \A d : Under(d) => LinkedUnder(d)
    BY ZenonT(60) DEF Under, LinkedUnder
  <2>3. StreamsIn(Below) \subseteq StreamsIn({d \in DOMAIN Tree : LinkedUnder(d)})
    BY <2>2, ZenonT(60) DEF StreamsIn, Below
  <2> QED
    BY <2>1, <2>3, ZenonT(60) DEF QueueInv, During, BatchAccounts, Below
<1> QED
  BY <1>1, ProgramQueue, PTL

======================================================================================
