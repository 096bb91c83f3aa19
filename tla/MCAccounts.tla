----------------------------- MODULE MCAccounts -----------------------------
(* The instance of Accounts that TLC checks. *)
EXTENDS Accounts, TLC

CONSTANTS i1, i2, s1, s2

MCIdps == {i1, i2}
MCServers == {s1, s2}
MCDialects == {"postgres", "cockroach"}

Rank(u, o) == IF u \in Owners(o) THEN 2 ELSE IF \E m \in member : m.user = u /\ m.org = o THEN 1 ELSE 0

\* Where the behaviours that are explored start: a person whose id Redis has also has
\* an address, and of two users the first is at least as much to the second's
\* organization as the second to the first's (the ids of users are only names).
MCStart ==
  calls = 0 =>
    /\ \A i \in Idps : cache[i] # Nobody => mail[i] # Nobody
    /\ \A u, v \in live : u < v => Rank(u, v) >= Rank(v, u)

MCSymmetry == Permutations(MCIdps) \cup Permutations(MCServers)
=============================================================================
