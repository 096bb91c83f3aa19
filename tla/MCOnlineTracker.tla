--------------------------- MODULE MCOnlineTracker ---------------------------
(* Small instances of OnlineTracker for TLC: an agent with up to three       *)
(* streams and timers, on two replicas of the API server.                    *)
EXTENDS OnlineTracker, TLC

CONSTANTS t1, t2, t3, p1, p2

MCStreams == {t1, t2, t3}
MCTwoStreams == {t1, t2}
MCReplicas == {p1, p2}

\* Nothing tells the streams apart.  (Closed names a replica.)
StreamsAlike == Permutations(MCStreams)
==============================================================================
