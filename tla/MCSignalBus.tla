----------------------------- MODULE MCSignalBus -----------------------------
(* A small instance of SignalBus for TLC: four subscriptions let a backing   *)
(* array grow to four cells and be reused after a close; two names show that *)
(* slices do not mix.  Calls of several goroutines do not disturb each other *)
(* (they only read the slices), so one goroutine that calls again and again  *)
(* is enough.                                                                *)
EXTENDS SignalBus, TLC

CONSTANTS s1, s2, s3, s4, a, b, g1

MCSubs == {s1, s2, s3, s4}
MCNames == {a, b}
MCGoroutines == {g1}

\* Subscriptions and names are interchangeable.
MCSymmetry == Permutations(MCSubs) \cup Permutations(MCNames)
==============================================================================
