------------------------------ MODULE MCSrtParser ------------------------------
(***************************************************************************)
(* Files for SrtParser: every sequence of up to three blocks, well formed  *)
(* and not, with and without the blank line that ends a block.             *)
(***************************************************************************)
EXTENDS SrtParser

At(s, ms) == [h |-> 0, m |-> 0, s |-> s, ms |-> ms]
Times(form, from, to) == [kind |-> "times", form |-> form, from |-> from, to |-> to]
Index(i) == [kind |-> "index", id |-> i]
Text(l, a) == [kind |-> "text", len |-> l, an |-> a]
Void == [kind |-> "blank"]

Cue(i, from, to) == <<Index(i), Times("standard", from, to), Text(1, 0)>>

\* Cues that touch, overlap, lie within one another, end together, or are far off.
Good == {Cue(1, At(0, 0), At(2, 0)), Cue(1, At(1, 0), At(1, 50)),
         Cue(2, At(0, 500), At(2, 0)), Cue(4, At(2, 0), At(40, 0)),
         Cue(3, At(-1, 0), At(4, 0))}

Stamps == {At(0, 0), At(3, 0)}

Odd == {<<Index(7)>>, <<Index(7), Index(8)>>, <<Text(2, 0)>>,
        <<Times("standard", At(0, 0), At(1, 0)), Text(1, 0)>>,
        <<Index(2), Times("standard", At(3, 0), At(1, 0)), Text(1, 0)>>,
        <<Index(2), Times("standard", At(3, 0), At(60, 0)), Text(1, 0)>>,
        <<Index(2), Times("standard", At(3, 0), At(5, 0))>>,
        <<Index(1), Times("dot", At(1, 0), At(5, 0)), Text(3, 8), Text(4, 0), Index(1)>>,
        <<Index(3), Times("short", At(1, 0), At(3, 0)), Text(5, 0), Text(2, 3)>>,
        <<Index(3), Times("=>", At(1, 0), At(3, 0)), Text(1, 0)>>}

Blocks == Good \cup Odd
Ends == {<<>>, <<Void>>}

ParserFiles ==
       {b \o e : b \in Blocks, e \in Ends}
  \cup {b \o e \o c : b \in Blocks, e \in Ends, c \in Blocks}
  \cup {a \o d \o b \o <<Void>> \o c : a \in Blocks, d \in Ends, b \in Blocks, c \in Good}
==============================================================================
