----------------------------- MODULE MCDeviceIpam -----------------------------
(* A small instance of DeviceIpam for TLC: an organization with its default  *)
(* VPC and one with addresses of its own, a prefix with a sloppy spelling    *)
(* and a default route.                                                      *)
EXTENDS DeviceIpam, TLC

CONSTANTS d1, d2, q1, q2, default, private, net, sloppy, route

MCDevices == {d1, d2}
MCRequests == {q1, q2}
MCVpcs == {default, private}
MCNamespaceOf == [v \in MCVpcs |-> v]
MCCidrs == {net, sloppy, route}
MCDefaultRoutes == {route}
MCClean == [c \in MCCidrs |-> IF c = sloppy THEN net ELSE c]
MCCidrLists == {<<>>, <<net>>, <<route, net>>, <<sloppy>>}
MCFewLists == {<<>>, <<net, route>>}

MCSymmetry == Permutations(MCDevices) \cup Permutations(MCRequests)
===============================================================================
