------------------------------- MODULE MCVpcs -------------------------------
(* The instance of Vpcs that TLC checks. *)
EXTENDS Vpcs, TLC

CONSTANTS def, priv, net, i1, i2, i3, k1, k2, rk, g1

MCVpcs == {def, priv}
MCNetworks == {net}
MCPrivate == {priv}
MCIds == {i1, i2, i3}
MCKeys == {k1, k2}
MCRegKeys == {rk}
MCGroups == {g1}
MCDialects == {"postgres", "cockroach"}
MCSymmetry == Permutations(MCIds) \cup Permutations(MCKeys)
=============================================================================
