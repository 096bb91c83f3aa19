----------------------------- MODULE DeviceIpam -----------------------------
(***************************************************************************)
(* The device handlers of internal/handlers/device.go and what they hold   *)
(* in the IPAM service: CreateDevice, UpdateDevice and DeleteDevice lease  *)
(* tunnel addresses and prefixes with calls that no transaction covers,    *)
(* then (or, for a delete, first) write the device's row.                  *)
(*                                                                         *)
(* The IPAM service is external, modelled from internal/ipam/ipam.go: it   *)
(* refuses to release what is not leased and to lease from an empty pool,  *)
(* and a prefix that exists already is as good as a new one.               *)
(* Requests interleave between any two of their calls.                     *)
(***************************************************************************)
EXTENDS Naturals, Sequences, FiniteSets

CONSTANTS Devices,     \* the ids of the devices, each created at most once
          Vpcs,
          OrgVpc,      \* the VPC whose id is also that of the organization
          NamespaceOf, \* NamespaceOf[v]: where VPC v's addresses come from
          Cidrs, DefaultRoutes,
          Clean,       \* Clean[c]: c with the host bits cleared
          CidrLists,   \* the lists of CIDRs a request may carry
          PoolSize,    \* addresses in the pool of a namespace and family
          Requests,
          Nothing,
          MaxRequests, \* bound: requests
          MaxFaults    \* bound: IPAM calls and commits that fail for no reason of theirs

ASSUME ConstantsAssumption ==
  /\ OrgVpc \in Vpcs /\ DefaultRoutes \subseteq Cidrs /\ Clean \in [Cidrs -> Cidrs]
  /\ CidrLists \subseteq Seq(Cidrs) /\ <<>> \in CidrLists /\ Nothing \notin Devices \cup Vpcs \cup CidrLists
  /\ {PoolSize, MaxRequests, MaxFaults} \subseteq Nat

Namespaces == {NamespaceOf[v] : v \in Vpcs}
Families == {"v4", "v6"}
Addresses == Namespaces \X Families \X (1 .. PoolSize)

VARIABLES row,     \* row[d]: the device's row
          lease,   \* IPAM: the device each address is leased for, or Nothing
          prefix,  \* IPAM: the prefixes that exist
          req,     \* req[r]: the handler that serves request r
          started, faults,
          raced,   \* history: two requests on one device were served at once
          undone,  \* history: a move to another namespace was abandoned
          clean    \* history: every request succeeded, and none raced

vars == <<row, lease, prefix, req, started, faults, raced, undone, clean>>

\* An address is a number of its pool; 0 is none.  "new": no row; "live"; "deleted".
NoRow == [state |-> "new", vpc |-> OrgVpc, v4 |-> 0, v6 |-> 0, cidrs |-> <<>>]
Row == [state : {"new", "live", "deleted"}, vpc : Vpcs,
        v4 : 0 .. PoolSize, v6 : 0 .. PoolSize, cidrs : CidrLists]

\* A handler: the row as it will be saved, and the IPAM calls it has yet to make.
Idle == [op |-> "none", at |-> "idle", dev |-> Nothing, new |-> NoRow, calls |-> <<>>]

\* The calls.  ip is the address to release, of family fam.
Acquire(ns, fam) == [do |-> "acquire", ns |-> ns, fam |-> fam, ip |-> 0, cidr |-> Nothing]
Release(ns, fam, ip) == [do |-> "release", ns |-> ns, fam |-> fam, ip |-> ip, cidr |-> Nothing]
Assign(ns, c) == [do |-> "assign", ns |-> ns, fam |-> "v4", ip |-> 0, cidr |-> c]
Free(ns, c) == [do |-> "free", ns |-> ns, fam |-> "v4", ip |-> 0, cidr |-> c]

Each(Op(_, _), ns, cidrs) == [i \in 1 .. Len(cidrs) |-> Op(ns, cidrs[i])]

\* The list without its default routes: its n-th member is the n-th that is kept.
NonDefault(cidrs) ==
  LET keep == {i \in 1 .. Len(cidrs) : cidrs[i] \notin DefaultRoutes}
      upTo(i) == Cardinality({k \in keep : k <= i})
  IN [n \in 1 .. Cardinality(keep) |-> cidrs[CHOOSE i \in keep : upTo(i) = n]]

\* advertiseCidrEquals: the same CIDRs, each as often, in any order.
SameCidrs(a, b) ==
  /\ Len(a) = Len(b)
  /\ \A c \in Cidrs : Cardinality({i \in 1 .. Len(a) : a[i] = c})
                        = Cardinality({i \in 1 .. Len(b) : b[i] = c})

-----------------------------------------------------------------------------
Init ==
  /\ row = [d \in Devices |-> NoRow]
  /\ lease = [a \in Addresses |-> Nothing] /\ prefix = {}
  /\ req = [r \in Requests |-> Idle]
  /\ started = 0 /\ faults = 0
  /\ raced = FALSE /\ undone = FALSE /\ clean = TRUE

\* Request r on device d begins.
Begin(r, d, handler) ==
  LET busy == \E q \in Requests : req[q].dev = d IN
  /\ req[r] = Idle /\ started < MaxRequests
  /\ started' = started + 1
  /\ req' = [req EXCEPT ![r] = handler]
  /\ raced' = (raced \/ busy)
  /\ clean' = (clean /\ ~ busy)
  /\ UNCHANGED <<row, lease, prefix, faults, undone>>

\* What CreateDevice leases: an address of each family, then the prefixes that are
\* no default routes.  (A variant forgets the IPv6 address.)
CreateCallsV4Only(ns, cidrs) == <<Acquire(ns, "v4")>> \o Each(Assign, ns, NonDefault(cidrs))
CreateCalls(ns, cidrs) ==
  <<Acquire(ns, "v4"), Acquire(ns, "v6")>> \o Each(Assign, ns, NonDefault(cidrs))

\* CreateDevice, for a public key no live row has.
CreateDevice(r, d, v, cidrs) ==
  /\ row[d].state = "new" /\ \A q \in Requests : req[q].dev # d
  /\ Begin(r, d, [op |-> "create", at |-> "ipam", dev |-> d,
                  new |-> [NoRow EXCEPT !.state = "live", !.vpc = v, !.cidrs = cidrs],
                  calls |-> CreateCalls(NamespaceOf[v], cidrs)])

\* UpdateDevice's block for another VPC: if the namespace changes, everything of
\* the device is released in the old one, and addresses and the request's
\* prefixes are leased in the new one.  (Variants release in the new namespace, or
\* keep the IPv6 address.)
MoveCallsInNew(old, ns, cidrs) ==
  IF NamespaceOf[old.vpc] = ns THEN <<>>
  ELSE <<Release(ns, "v4", old.v4), Release(ns, "v6", old.v6)>> \o Each(Free, ns, old.cidrs)
         \o CreateCalls(ns, cidrs)

MoveCallsKeepV6(old, ns, cidrs) ==
  LET was == NamespaceOf[old.vpc] IN
  IF was = ns THEN <<>>
  ELSE <<Release(was, "v4", old.v4)>> \o Each(Free, was, old.cidrs) \o CreateCallsV4Only(ns, cidrs)

MoveCalls(old, ns, cidrs) ==
  LET was == NamespaceOf[old.vpc] IN
  IF was = ns THEN <<>>
  ELSE <<Release(was, "v4", old.v4), Release(was, "v6", old.v6)>> \o Each(Free, was, old.cidrs)
         \o CreateCalls(ns, cidrs)

\* The difference between the advertised CIDRs: those of the request that the
\* device has are released and the others assigned, in the namespace the device
\* was in.  Those it no longer advertises are left alone.
DiffCalls(old, cidrs) ==
  LET was == NamespaceOf[old.vpc]
      has == {old.cidrs[i] : i \in 1 .. Len(old.cidrs)}
      call(ns, c) == IF c \in has THEN Free(ns, c) ELSE Assign(ns, c)
  IN IF SameCidrs(old.cidrs, cidrs) THEN <<>> ELSE Each(call, was, NonDefault(cidrs))

\* UpdateDevice: v and cidrs are Nothing when the request has no such field.  A
\* vpc_id that is the organization's id does not count as another VPC.
UpdateDevice(r, d, v, cidrs) ==
  LET old == row[d]
      moves == v # Nothing /\ v # OrgVpc
      list == IF cidrs = Nothing THEN <<>> ELSE cidrs
  IN
  /\ old.state = "live"
  /\ Begin(r, d, [op |-> "update", at |-> "ipam", dev |-> d,
                  new |-> [old EXCEPT !.vpc = IF moves THEN v ELSE @,
                                      !.cidrs = IF cidrs = Nothing THEN @ ELSE cidrs],
                  calls |-> (IF moves THEN MoveCalls(old, NamespaceOf[v], list) ELSE <<>>)
                            \o (IF cidrs = Nothing THEN <<>> ELSE DiffCalls(old, cidrs))])

\* DeleteDevice, up to its read of the row.  (A variant forgets the IPv6 address.)
DeleteCallsV4Only(old) ==
  LET was == NamespaceOf[old.vpc]
  IN <<Release(was, "v4", old.v4)>> \o Each(Free, was, old.cidrs)

DeleteCalls(old) ==
  LET was == NamespaceOf[old.vpc]
  IN <<Release(was, "v4", old.v4)>> \o Each(Free, was, old.cidrs)
       \o <<Release(was, "v6", old.v6)>>

DeleteDevice(r, d) ==
  /\ row[d].state = "live"
  /\ Begin(r, d, [op |-> "delete", at |-> "mark", dev |-> d,
                  new |-> row[d], calls |-> DeleteCalls(row[d])])

\* The soft delete comes before the IPAM calls, outside of any transaction.  It is
\* no error if the row has been deleted meanwhile.
MarkDeleted(r) ==
  LET d == req[r].dev IN
  /\ req[r].at = "mark"
  /\ row' = [row EXCEPT ![d].state = "deleted"]
  /\ req' = [req EXCEPT ![r].at = "ipam"]
  /\ UNCHANGED <<lease, prefix, started, faults, raced, undone, clean>>

-----------------------------------------------------------------------------
\* The handler gives up: a transaction is rolled back, a delete stops where it is.
\* What IPAM has done stays.  (On CockroachDB the transaction may be run again
\* instead: as if the client had sent the request again.)
Abort(r) ==
  /\ req' = [req EXCEPT ![r] = Idle]
  /\ undone' = (undone \/ (req[r].op = "update"
                             /\ NamespaceOf[req[r].new.vpc] # NamespaceOf[row[req[r].dev].vpc]))
  /\ clean' = FALSE

Fault == faults < MaxFaults /\ faults' = faults + 1

Calling(r, do) == req[r].at = "ipam" /\ req[r].calls # <<>> /\ Head(req[r].calls).do = do

\* The call succeeds: on to the next one.
Called(r, new) ==
  req' = [req EXCEPT ![r].calls = Tail(@), ![r].new = new]

\* A client that goes away, or a network failure, cuts the call, before or after
\* the service has served it.
Cut(r) == Fault /\ Abort(r)

\* AssignFromPool, or AssignSpecificTunnelIP, which falls back to any address.
AcquireIP(r) ==
  LET call == Head(req[r].calls)
      free == {ip \in 1 .. PoolSize : lease[<<call.ns, call.fam, ip>>] = Nothing}
  IN
  /\ Calling(r, "acquire")
  /\ \/ \E ip \in free :
          /\ lease' = [lease EXCEPT ![<<call.ns, call.fam, ip>>] = req[r].dev]
          /\ \/ /\ Called(r, IF call.fam = "v4" THEN [req[r].new EXCEPT !.v4 = ip]
                             ELSE [req[r].new EXCEPT !.v6 = ip])
                /\ UNCHANGED <<undone, clean, faults>>
             \/ Cut(r)
     \/ free = {} /\ Abort(r) /\ UNCHANGED <<lease, faults>>
     \/ Cut(r) /\ UNCHANGED lease
  /\ UNCHANGED <<row, prefix, started, raced>>

\* ReleaseToPool: whoever the address is leased for.
ReleaseIP(r) ==
  LET call == Head(req[r].calls)
      address == <<call.ns, call.fam, call.ip>>
  IN
  /\ Calling(r, "release")
  /\ \/ /\ lease[address] # Nothing
        /\ lease' = [lease EXCEPT ![address] = Nothing]
        /\ (Called(r, req[r].new) /\ UNCHANGED <<undone, clean, faults>>) \/ Cut(r)
     \/ lease[address] = Nothing /\ Abort(r) /\ UNCHANGED <<lease, faults>>
     \/ Cut(r) /\ UNCHANGED lease
  /\ UNCHANGED <<row, prefix, started, raced>>

\* AssignCIDR creates the prefix, its host bits cleared, unless it exists.
AssignCIDR(r) ==
  LET call == Head(req[r].calls) IN
  /\ Calling(r, "assign")
  /\ \/ /\ prefix' = prefix \cup {<<call.ns, Clean[call.cidr]>>}
        /\ (Called(r, req[r].new) /\ UNCHANGED <<undone, clean, faults>>) \/ Cut(r)
     \/ Cut(r) /\ UNCHANGED prefix
  /\ UNCHANGED <<row, lease, started, raced>>

\* ReleaseCIDR deletes the prefix as the device has it, which may be one that was
\* never created: a default route, or one with host bits.
ReleaseCIDR(r) ==
  LET call == Head(req[r].calls)
      p == <<call.ns, call.cidr>>
  IN
  /\ Calling(r, "free")
  /\ \/ /\ p \in prefix
        /\ prefix' = prefix \ {p}
        /\ (Called(r, req[r].new) /\ UNCHANGED <<undone, clean, faults>>) \/ Cut(r)
     \/ p \notin prefix /\ Abort(r) /\ UNCHANGED <<prefix, faults>>
     \/ Cut(r) /\ UNCHANGED prefix
  /\ UNCHANGED <<row, lease, started, raced>>

\* The last call is done.  Create inserts the row; Update saves every column of
\* the row it read, and the save of a row that was deleted meanwhile inserts it
\* again; the transaction commits, or is rolled back.
Finish(r) ==
  LET d == req[r].dev IN
  /\ req[r].at = "ipam" /\ req[r].calls = <<>>
  /\ \/ /\ row' = IF req[r].op = "delete" THEN row ELSE [row EXCEPT ![d] = req[r].new]
        /\ req' = [req EXCEPT ![r] = Idle]
        /\ UNCHANGED <<undone, clean, faults>>
     \/ req[r].op # "delete" /\ Cut(r) /\ UNCHANGED row
  /\ UNCHANGED <<lease, prefix, started, raced>>

-----------------------------------------------------------------------------
Arrive(r) ==
  \E d \in Devices :
    \/ \E v \in Vpcs, cidrs \in CidrLists : CreateDevice(r, d, v, cidrs)
    \/ \E v \in Vpcs \cup {Nothing}, cidrs \in CidrLists \cup {Nothing} : UpdateDevice(r, d, v, cidrs)
    \/ DeleteDevice(r, d)

Serve(r) == MarkDeleted(r) \/ AcquireIP(r) \/ ReleaseIP(r) \/ AssignCIDR(r) \/ ReleaseCIDR(r)
              \/ Finish(r)

Next == \E r \in Requests : Arrive(r) \/ Serve(r)

Spec == Init /\ [][Next]_vars

-----------------------------------------------------------------------------
(* Properties.                                                             *)

Quiet == \A r \in Requests : req[r] = Idle
Live == {d \in Devices : row[d].state = "live"}

\* The addresses of device d's row.
AddressesOf(d) == {<<NamespaceOf[row[d].vpc], "v4", row[d].v4>>,
                   <<NamespaceOf[row[d].vpc], "v6", row[d].v6>>}
Advertised(d) == {row[d].cidrs[i] : i \in 1 .. Len(row[d].cidrs)}
BeingMoved(d) ==
  \E r \in Requests : req[r].dev = d /\ NamespaceOf[req[r].new.vpc] # NamespaceOf[row[d].vpc]

\* Every variable has its type; a live device has an address of each family.
TypeOK ==
  /\ row \in [Devices -> Row]
  /\ \A d \in Live : row[d].v4 # 0 /\ row[d].v6 # 0
  /\ lease \in [Addresses -> Devices \cup {Nothing}]
  /\ prefix \subseteq Namespaces \X Cidrs
  /\ \A r \in Requests :
       /\ req[r].op \in {"none", "create", "update", "delete"} /\ req[r].at \in {"idle", "mark", "ipam"}
       /\ req[r].dev \in Devices \cup {Nothing} /\ req[r].new \in Row
  /\ started \in 0 .. MaxRequests /\ faults \in 0 .. MaxFaults
  /\ {raced, undone, clean} \subseteq BOOLEAN

\* A live device holds the leases of its addresses, so no other device can be
\* given them - while no two requests on one device overlapped and no move was
\* rolled back, and except between the release and the commit of a move.
LiveHoldsItsAddresses ==
  ~ raced /\ ~ undone =>
    \A d \in Live : ~ BeingMoved(d) => \A a \in AddressesOf(d) : lease[a] = d

\* When every request so far has succeeded and none is running, the addresses
\* leased are exactly those of the live devices: none leaks.
NoLeakWhenAllSucceed ==
  clean /\ Quiet =>
    \A a \in Addresses : \A d \in Devices : lease[a] = d <=> d \in Live /\ a \in AddressesOf(d)

\* A lease passes to another device only through the pool, and a release frees the
\* lease of the very device the request is on (same condition).
ReleasesOwnOnly ==
  [][~ raced' /\ ~ undone' =>
       \A a \in Addresses : lease'[a] # lease[a] =>
         \E r \in Requests : req[r].dev \in {lease[a], lease'[a]} /\ req'[r] # req[r]
                             /\ Nothing \in {lease[a], lease'[a]}]_vars

\* What device.go:653 says of DeleteDevice: it deletes "an existing device and
\* associated IPAM lease".  Not so for a device with a default route.
DeletedHoldsNothing ==
  Quiet /\ ~ raced /\ faults = 0 =>
    \A d \in Devices : row[d].state = "deleted" => \A a \in Addresses : lease[a] # d

\* What the comment at device.go:364 intends: a prefix is released when it is no
\* longer advertised, so an advertised one is held.  The code releases those
\* that stay.
AdvertisedIsHeld ==
  Quiet /\ clean =>
    \A d \in Live : \A c \in Advertised(d) \ DefaultRoutes :
      <<NamespaceOf[row[d].vpc], Clean[c]>> \in prefix
=============================================================================
