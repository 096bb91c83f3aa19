---------------------------- MODULE MCWatchStream ----------------------------
(* A small instance of WatchStream for TLC.                                  *)
EXTENDS WatchStream, TLC

CONSTANTS r1, r2

MCIds == {r1, r2}
MCOneId == {r1}

\* Row ids are interchangeable.
MCSymmetry == Permutations(MCIds)
==============================================================================
