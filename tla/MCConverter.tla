------------------------------ MODULE MCConverter ------------------------------
(***************************************************************************)
(* The converter on small files: pictures of one to three pixels, a width  *)
(* of 2 for HD and 4 for Ultra HD, palettes of 2 colours.                  *)
(***************************************************************************)
EXTENDS Converter

Line(langs) ==
  [ends |-> "", input |-> TRUE, output |-> TRUE, langs |-> langs, debug |-> FALSE, bench |-> FALSE,
   delay |-> 0, src |-> 0, dst |-> 0, srt |-> FALSE]

\* Every option, one and two languages, one that is not there, a language twice, a rate
\* that is not the one of the input.
MCCommandLines ==
  { Line(<<"eng">>), [Line(<<"eng", "deu">>) EXCEPT !.bench = TRUE],
    [Line(<<"deu", "xxx", "deu">>) EXCEPT !.dst = 24, !.src = 30],
    [Line(<<"eng", "eng", "deu">>) EXCEPT !.delay = -2, !.dst = 50, !.debug = TRUE],
    Line(<<"xxx">>), Line(<<>>), [Line(<<"eng">>) EXCEPT !.output = FALSE, !.srt = TRUE],
    [Line(<<"eng">>) EXCEPT !.ends = "help"], [Line(<<"eng">>) EXCEPT !.ends = "unknown", !.srt = TRUE] }

St(type, lang, tick) == [type |-> type, lang |-> lang, tick |-> tick, decodes |-> TRUE]
Ev(kind, img, pts) ==
  [kind |-> kind, img |-> img, w |-> IF img = <<>> THEN 0 ELSE Len(img[1]), h |-> Len(img), x |-> 1, y |-> 0,
   stride |-> 0, colors |-> IF kind = "indexed" THEN 2 ELSE 0, linesize |-> 8,
   palette |-> <<<<255, 9, 9, 9>>, <<255, 0, 0, 0>>, <<0, 0, 0, 0>>, <<0, 0, 0, 0>>>>,
   pts |-> pts, from |-> 0, to |-> 5]
Pk(s, pts, e) == [stream |-> s, pts |-> pts, event |-> e]

Red == [r |-> 9, g |-> 0, b |-> 0, a |-> 255]
Blue == [r |-> 0, g |-> 0, b |-> 9, a |-> 255]
Faint == [r |-> 9, g |-> 0, b |-> 0, a |-> 1]

Rgba == Ev("rgba", <<<<Red, Faint>>>>, NoPts)
Many == [Ev("rgba", <<<<Red, Blue, Faint>>>>, 2000) EXCEPT !.stride = 12]
Dot == [Ev("rgba", <<<<Red>>>>, NoPts) EXCEPT !.stride = 4]
Indexed == [Ev("indexed", <<<<2, 1>>>>, 0) EXCEPT !.stride = 2]
Odd == [Ev("indexed", <<<<3>>>>, NoPts) EXCEPT !.colors = 0, !.to = -1]
Clear == Ev("clear", <<>>, NoPts)
Text == [Ev("text", <<>>, 4000) EXCEPT !.linesize = 0]

File(width, streams, packets, flush) ==
  [opens |-> TRUE, streams |-> streams, fps |-> IF width = 0 THEN 0 ELSE 25, width |-> width,
   packets |-> packets, flush |-> flush]
AV == <<St("audio", "", 1), St("video", "", 90), St("sub", "eng", 1), St("sub", "deu", 90)>>

\* Pictures before and after the first video packet, at the same time, in no order
\* and without a time; Ultra HD; no video; a decoder that is missing.
MCMedia ==
  { File(2, AV, <<Pk(3, 200, Rgba), Pk(2, NoPts, Nothing), Pk(2, 1, Nothing), Pk(3, 200, Indexed),
                  Pk(4, 1, Many), Pk(2, 2, Nothing), Pk(3, NoPts, Clear)>>,
         <<Nothing, Nothing, Indexed, Nothing>>),
    File(4, AV, <<Pk(2, 0, Nothing), Pk(3, 100, Dot), Pk(4, 2, Indexed), Pk(3, 0, Odd)>>,
         <<Nothing, Nothing, Odd, Dot>>),
    File(4, AV, <<Pk(2, 0, Nothing), Pk(3, NoPts, Text)>>, <<Nothing, Nothing, Nothing, Text>>),
    File(0, <<St("sub", "deu", 1), St("sub", "eng", 1), St("sub", "eng", 1)>>,
         <<Pk(1, 0, Odd), Pk(2, 50, Clear), Pk(3, 60, Rgba), Pk(2, 0, Nothing)>>, <<Clear, Nothing, Nothing>>),
    [File(2, AV, <<>>, <<Nothing, Nothing, Nothing, Nothing>>) EXCEPT !.streams[4].decodes = FALSE],
    [File(2, AV, <<>>, <<Nothing, Nothing, Nothing, Nothing>>) EXCEPT !.opens = FALSE] }
==============================================================================
