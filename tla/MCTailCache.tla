----------------------------- MODULE MCTailCache -----------------------------
(* A small instance of TailCache for TLC: three revisions lap a ring of two. *)
EXTENDS TailCache

CONSTANTS f1, f2, r1, r2

MCFetchers == {f1, f2}
MCIds == {r1, r2}
==============================================================================
