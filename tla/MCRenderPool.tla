---------------------------- MODULE MCRenderPool ----------------------------
(* Small instances of RenderPool for TLC. *)
EXTENDS RenderPool, TLC

\* Workers, callers, containers and cues are interchangeable; used only in runs without
\* liveness properties.
PoolSymmetry == Permutations(Workers) \cup Permutations(Jobs)
                \cup Permutations(Clients) \cup Permutations(Cues)
=============================================================================
