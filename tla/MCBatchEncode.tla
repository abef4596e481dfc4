----------------------------- MODULE MCBatchEncode -----------------------------
(***************************************************************************)
(* The program on small command lines and directories.  PIDs are 2 to 6,   *)
(* there are at most two tracks and two overwrite targets, and margins go  *)
(* up to 9 half percents.                                                  *)
(***************************************************************************)
EXTENDS BatchEncode, TLC

Stream3(sub, c, p) == [sub |-> sub, lang |-> Lang(c), pid |-> p]
Ts(streams) == [opens |-> TRUE, programs |-> 1, streams |-> streams, height |-> 576, rate |-> 7]

\* A plain stream, one with subtitles of two languages (the second between the
\* PIDs of others), one whose PIDs leave no room, two programs without a height,
\* and a file that does not open.
MCContent ==
  [f \in {"a.ts", "b.ts", "full.ts", "two.ts", "none.ts"} |->
     CASE f = "a.ts"    -> Ts(<<Stream3(FALSE, "", 5), Stream3(FALSE, "", 2)>>)
       [] f = "b.ts"    -> Ts(<<Stream3(TRUE, "eng", 4), Stream3(TRUE, "deu", 3),
                                Stream3(TRUE, "eng", 2)>>)
       [] f = "full.ts" -> Ts(<<Stream3(FALSE, "", 6)>>)
       [] f = "two.ts"  -> [Ts(<<Stream3(TRUE, "eng", 0), Stream3(FALSE, "", 3)>>)
                              EXCEPT !.programs = 2, !.height = 0, !.rate = 0]
       [] f = "none.ts" -> [NoInput EXCEPT !.opens = FALSE]]

MCAbout ==
  [f \in {"a.ts", "b.ts", "full.ts", "readme.txt", "linked.ts", "far.ts"} |->
     CASE f = "a.ts"    -> [rank |-> 1, dir |-> "", base |-> "a", show |-> "", season |-> -1,
                            episode |-> 0]
       [] f = "b.ts"    -> [rank |-> 2, dir |-> "", base |-> "b", show |-> "", season |-> -1,
                            episode |-> 0]
       [] f = "full.ts" -> [rank |-> 3, dir |-> "sub", base |-> "full", show |-> "S", season |-> 1,
                            episode |-> 100]
       [] OTHER         -> [rank |-> CASE f = "readme.txt" -> 4 [] f = "linked.ts" -> 5 [] OTHER -> 6,
                            dir |-> "", base |-> "x", show |-> "", season |-> -1, episode |-> 0]]

E(n, k) == [name |-> n, kind |-> k]
MCTree ==
  [d \in {"in", "sub", "deep", "ln", "back", "srt", "empty", "locked", "bad"} |->
     CASE d = "in"     -> {E("a.ts", "ts"), E("sub", "dir"), E("ln", "link"),
                           E("readme.txt", "other"), E("linked.ts", "link")}
       [] d = "sub"    -> {E("deep", "dir"), E("full.ts", "ts")}
       [] d = "deep"   -> {E("b.ts", "ts")}
       [] d = "ln"     -> {E("back", "link"), E("far.ts", "ts")}
       [] d = "back"   -> {E("ln", "link")}
       [] d = "bad"    -> {E("locked", "dir"), E("a.ts", "ts")}
       [] OTHER        -> {}]

\* The subtitles of a.ts and b.ts in two languages, those of full.ts named by its
\* episode and next to it, two with a comma in their paths, of which one begins with
\* the path of a file that opens, and one outside.
MCSubtitles ==
     <<"srt", "", <<Word("a"), Word(".en.srt")>>>> :> "a.srt"
  @@ <<"srt", "", <<Word("b"), Word(".en.srt")>>>> :> "b.srt"
  @@ <<"in", "", <<Word("b"), Word(".en.srt")>>>> :> "b2.srt"
  @@ <<"srt", "", <<Word("b"), Word(".de.srt")>>>> :> "b.ass"
  @@ <<"in", "sub", <<Word("S"), [kind |-> "two digits", val |-> 99], Word(".srt")>>>> :> "x.srt"
  @@ <<"srt", "", <<Word("a"), Word(",.srt")>>>> :> "a,b.srt"
  @@ <<"srt", "", <<Word("b"), Word(",.srt")>>>> :> "b.srt,x.srt"
  @@ <<"srt", "", <<Word(".."), Word("a")>>>> :> "out.srt"

Text(w) == <<Word(w)>>
Flag1(o) == Opt(o, <<>>)
N(o, v) == Opt(o, <<Num(v)>>)

\* One input, one output, and the files and languages given.
Base(in, srts, langs) ==
  <<Opt("input", Text(in)), Opt("output", Text("o.ts")), Opt("srt", srts), Opt("languages", langs)>>
One(in) == Base(in, Text("a.srt"), Text("eng"))
Two(in) == Base(in, <<Word("a.srt"), Word("b.srt")>>, <<Word("eng"), Word("deu")>>)
Same(in) == Base(in, <<Word("a.srt"), Word("b.srt")>>, <<Word("eng"), Word("eng")>>)
Overwrite(o) == Opt("overwrite", o)
Pid(p) == Opt("pid", p)

\* Every option once, and the ways options meet: PIDs preserved, replaced,
\* allocated and given, with room and without.
SetupLines ==
  { Two("a.ts"), Two("b.ts"), Two("full.ts"), One("two.ts"), One("none.ts"), Same("b.ts"),
    Two("b.ts") \o <<Overwrite(Text("all"))>>,
    Same("b.ts") \o <<Overwrite(Text("all")), Opt("hi", <<Num(0), Num(1)>>)>>,
    Two("b.ts") \o <<Overwrite(Text("eng"))>>,
    Two("b.ts") \o <<Overwrite(Text("eng")), Pid(<<Num(3), Num(4)>>)>>,
    Two("b.ts") \o <<Overwrite(Text("deu")), Flag1("no-preserve-pids"), Pid(<<Num(3)>>)>>,
    One("b.ts") \o <<Overwrite(<<Word("deu"), Nothing, Word("xxx")>>)>>,
    One("b.ts") \o <<Overwrite(<<Nothing>>)>>,
    One("two.ts") \o <<Overwrite(Text("*"))>>,
    Two("a.ts") \o <<Pid(<<Num(3)>>), Opt("forced", <<Num(1), Blank>>)>>,
    Two("a.ts") \o <<Pid(<<Num(4)>>)>>,
    Two("a.ts") \o <<Pid(<<Num(5)>>)>>,
    Two("a.ts") \o <<Pid(<<Num(3), Nothing, Num(3)>>)>>,
    Two("a.ts") \o <<Pid(<<Num(3), Junk>>)>>,
    Two("a.ts") \o <<Pid(<<Nothing>>)>>,
    One("a.ts") \o <<Pid(<<Num(3), Num(4)>>)>>,
    Base("a.ts", <<Nothing>>, Text("eng")) \o <<Pid(<<Num(3)>>)>>,
    Base("a.ts", <<Word("a.srt"), Nothing, Word("b.ass"), Word("b.srt")>>,
         <<Word("eng"), Word("deu"), Word("deu")>>) \o <<Flag1("ass"), Opt("delay", <<Num(5)>>)>>,
    Base("a.ts", <<Word("bad.ass"), Word("b.ass")>>, <<Word("eng"), Word("deu")>>) \o <<Flag1("ass")>>,
    Base("a.ts", <<Word("a.srt"), Word("bad.srt")>>, <<Word("eng"), Word("deu")>>) }

RunLines ==
  { One("a.ts") \o <<N("render-threads", 0), N("enc-threads", 99), N("debug", 1)>>,
    One("a.ts") \o <<N("render-threads", -3), N("enc-threads", -1), N("ssaa", 2), Flag1("no-unsharp")>>,
    One("a.ts") \o <<Opt("ts-bitrate", Text("auto")), N("font-size", 20), Flag1("bench"), Flag1("palette"), Flag1("font")>>,
    One("a.ts") \o <<N("ts-bitrate", 5), N("color", 6), N("margin-top", 3), N("margin-left", 1)>>,
    One("a.ts") \o <<N("ts-bitrate", 0)>>, One("a.ts") \o <<N("color", 5)>>,
    One("a.ts") \o <<N("font-size", 5)>>, One("a.ts") \o <<N("margin-right", 10)>>,
    One("a.ts") \o <<N("margin-bottom", 2)>>, One("a.ts") \o <<Opt("delay", <<Num(1), Num(2)>>)>>,
    One("a.ts") \o <<[Opt("sub-position", <<>>) EXCEPT
                        !.spec = <<[pos |-> 1, margins |-> <<Num(3), Nothing, Num(4)>>]>>]>>,
    One("a.ts") \o <<[Opt("sub-position", <<>>) EXCEPT
                        !.spec = <<[pos |-> 0, margins |-> <<>>]>>]>>,
    One("a.ts") \o <<[Opt("sub-position", <<>>) EXCEPT
                        !.spec = <<[pos |-> 1, margins |-> <<Num(99)>>]>>]>>,
    One("a.ts") \o <<Flag1("unknown")>>, <<Flag1("help")>>, <<N("list-fonts", 2)>>, <<Opt("input", Text("a.ts"))>>,
    One("long"), Base("a.ts", Text("a.srt"), Text("xxx")),
    <<Opt("input", Text("a.ts")), Opt("output", Text("o.ts")), Opt("srt", Text("rt")),
      Opt("argument", Text("a.srt")), Opt("languages", Text("eng"))>>,
    One("a.ts") \o <<Flag1("png-only"), Opt("png-dir", Text("mine"))>>,
    <<Opt("srt", <<Word("a.srt"), Word("bad.srt")>>), Opt("languages", Text("eng")), Flag1("qc-only")>>,
    <<Opt("srt", Text("a.srt")), Opt("languages", Text("eng")), Flag1("png-only")>>,
    <<Opt("srt", Text("a.srt")), Opt("languages", Text("eng")), Flag1("png-only"),
      Opt("input", Text("none.ts")), N("debug", 1)>>,
    <<Opt("srt", <<Word("a.srt"), Word("bad.srt")>>), Opt("languages", <<Word("eng"), Word("deu")>>),
      Flag1("png-only"), Opt("input", Text("a.ts")), Opt("png-dir", Text("mine"))>> }

Template(pattern, lang, n) == Opt("batch-template", pattern \o <<[kind |-> lang, val |-> n]>>)
BatchOf(in) ==
  <<Flag1("batch-encode"), Opt("batch-input", Text(in)), Opt("batch-output", Text("out")),
    Opt("batch-srt", Text("srt"))>>
English == Template(<<Word("BASENAME"), Word(".en.srt")>>, "eng", 3)
German == Template(<<Word("BASENAME"), Word(".de.srt")>>, "deu", 3)
Episode == Template(<<Word("SHOW"), Word("EPISODE"), Word(".srt")>>, "eng", 3)

BatchLines ==
  { BatchOf("in"),
    BatchOf("in") \o <<German, Episode, Flag1("ass"), Overwrite(Text("eng"))>>,
    BatchOf("in") \o <<Episode, Flag1("batch-dry-run"), Flag1("batch-sequential")>>,
    BatchOf("in") \o <<Flag1("batch-clear-templates"), German, English>>,
    BatchOf("in") \o <<Flag1("qc-only")>>, BatchOf("in") \o <<Flag1("unknown")>>,
    BatchOf("in") \o <<Flag1("batch-clear-templates"), Template(<<Word(".."), Word("BASENAME")>>, "eng", 3)>>,
    BatchOf("in") \o <<Template(<<Word("BASENAME"), Word(",.srt")>>, "deu", 3), N("render-threads", 2)>>,
    BatchOf("in") \o <<Template(<<Word("BASENAME")>>, "en", 2)>>,
    BatchOf("in") \o <<Opt("batch-template", <<>>)>>,
    BatchOf("empty"), BatchOf("bad"), BatchOf("absent"),
    <<Flag1("batch-encode"), Opt("batch-srt", Text("srt"))>>,
    <<Flag1("batch-encode"), Opt("batch-input", Text("in")), Opt("batch-srt", Text("srt")),
      Opt("batch-output", Text("locked"))>> }

MCInvocations == SetupLines \cup RunLines \cup BatchLines
MCDisks == {{"pngs", "tmp", "mine"}, {"tmp"}, {}}
MCCommaPaths ==
  "a,b.srt" :> <<Word("a"), Word("b.srt")>> @@ "b.srt,x.srt" :> <<Word("b.srt"), Word("x.srt")>>
==============================================================================
