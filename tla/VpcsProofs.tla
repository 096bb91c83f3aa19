----------------------------- MODULE VpcsProofs -----------------------------
(***************************************************************************)
(* For any VPCs, service networks, agents, registration keys and groups,   *)
(* and any requests in flight: nothing outlives its box, the groups in use *)
(* are there, private VPCs hold their prefixes, a single-use key makes one *)
(* agent in each table that it gives access to.                            *)
(***************************************************************************)
EXTENDS Vpcs, FiniteSetTheorems, TLAPS

Contents == Agents \cup RegKeys \cup AllGroups
Written(x) == st[x] # "new"

CreateVpcRequest == [op : {"createVpc"}, box : Vpcs, pc : {"v4", "v6", "row"}]
DeleteBoxRequest == [op : {"deleteBox"}, box : Boxes,
                     pc : {"count", "keys", "groups", "row", "v4", "v6"}]

\* A VPC that is created is not there before, and holds the prefixes it has taken.
CreatingVpc(r) ==
  /\ r \in CreateVpcRequest /\ ~ Written(r.box)
  /\ r.pc # "row" => r.box \in Private
  /\ r.box \in Private => /\ r.pc \in {"v6", "row"} => <<r.box, "v4">> \in pool
                          /\ r.pc = "row" => <<r.box, "v6">> \in pool

\* What a deletion has emptied is empty, but for what slipped in.
DeletingBox(r) ==
  LET left(xs) == \A x \in xs : Live(x) /\ r.box \in Homes(x) => x \in slipped
  IN  /\ r \in DeleteBoxRequest /\ Written(r.box)
      /\ r.pc # "count" => left(Agents)
      /\ r.pc \notin {"count", "keys"} => left(RegKeys)
      /\ r.pc \notin {"count", "keys", "groups"} => left(AllGroups)
      /\ r.pc \in {"v4", "v6"} => /\ r.box \in Private
                                  /\ Serializable => ~ Live(r.box)
      /\ r.pc = "v6" => <<r.box, "v4">> \notin pool

\* A registration key lets into a box of its agent's kind; a single-use one is of the
\* agents with the id that it has given.
OfKey(a, k) ==
  /\ Written(k) /\ (once[k] # None => a[2] = once[k])
  /\ \E b \in scope[k] : Table(b) = a[1]

CreatingAgent(r) ==
  /\ r.agent \in Agents /\ r.box \in Boxes /\ r.key \in Keys /\ r.by \in RegKeys \cup {None}
  /\ Written(r.box)
  /\ r.by # None => OfKey(r.agent, r.by)

\* What is known of a request between its read and its commit.
Request(r) ==
  /\ r.op = "createVpc" => CreatingVpc(r)
  /\ r.op = "updateBox" => r.box \in Boxes /\ Written(r.box)
  /\ r.op = "deleteBox" => DeletingBox(r)
  /\ r.op = "deleteOrg" =>
       Serializable \/ \A a \in Agents : Live(a) /\ home[a] \in Vpcs => a \in slipped
  /\ r.op = "createGroup" => r.id \in Groups /\ r.box \in Vpcs /\ Written(r.box)
  /\ r.op = "updateGroup" => r.id \in AllGroups /\ Written(r.id)
  /\ r.op = "deleteGroup" => r.id \in Groups
  /\ r.op = "createKey" => /\ r.id \in RegKeys /\ r.boxes \in Scopes
                           /\ r.once \in Ids \cup {None}
                           /\ ~ Written(r.id) /\ \A b \in r.boxes : Written(b)
  /\ r.op = "updateKey" => r.id \in RegKeys /\ Written(r.id)
  /\ r.op = "createAgent" => CreatingAgent(r)
  /\ r.op = "updateAgent" => /\ r.agent \in Agents /\ r.box \in Boxes /\ r.row[3] \in Keys \cup {None}
                             /\ Written(r.agent) /\ Written(r.box)
                             /\ r.group \in AllGroups \cup {None}
                             /\ r.group # None => Written(r.group)

\* A VPC, and a registration key, is created by one request at a time.
OneCreator ==
  \A q, r \in req :
    /\ q.op = "createVpc" /\ r.op = "createVpc" /\ q.box = r.box => q = r
    /\ q.op = "createKey" /\ r.op = "createKey" /\ q.id = r.id => q = r

Requests == IsFiniteSet(req) /\ (\A r \in req : Request(r)) /\ OneCreator

\* Who refers to a row refers to one that was written.
References ==
  /\ \A v \in Vpcs : Written(v) <=> Written(DefaultGroup(v))
  /\ \A x \in Contents : Written(x) => \A b \in Homes(x) : b \in Boxes /\ Written(b)
  /\ \A g \in AllGroups : Written(g) => Home(g) \in Vpcs
  /\ \A a \in Agents : group[a] # None => Written(group[a])

KeyOfItsAgent == \A a \in Agents : by[a] # None => OfKey(a, by[a])

\* The groups of v, and what uses them, may be missing: v is gone, was left half
\* deleted, or is about to go.
Leaving(v) == \/ v \in torn
              \/ \E q \in req : q.op = "deleteBox" /\ q.box = v /\ q.pc = "row"

GroupsHeld ==
  Serializable =>
    /\ \A v \in Vpcs : Live(v) => Live(DefaultGroup(v)) \/ Leaving(v)
    /\ \A a \in Agents : Live(a) /\ group[a] # None /\ ~ Live(group[a])
         => ~ Live(Home(group[a])) \/ Leaving(Home(group[a]))

\* The prefixes of v are being taken or released.
Moving(v) ==
  \E q \in req : /\ q.op = "createVpc" \/ (q.op = "deleteBox" /\ q.pc \in {"v4", "v6"})
                 /\ q.box = v

PrefixesHeld ==
  Serializable => \A v \in Private :
    /\ Live(v) => Prefixes(v) \subseteq pool
    /\ Prefixes(v) \cap pool # {} => Live(v) \/ v \in torn \/ Moving(v)

\* The inductive invariant.
IInv ==
  /\ TypeOK
  /\ Requests
  /\ References
  /\ KeyOfItsAgent
  /\ NothingOutlivesItsBox
  /\ GroupsHeld
  /\ PrefixesHeld

-----------------------------------------------------------------------------
\* The rows and their tables.
LEMMA Tables ==
  /\ \A v \in Vpcs : /\ DefaultGroup(v) \in AllGroups /\ DefaultGroup(v) \notin Groups
                     /\ DefaultGroup(v) \notin Agents \cup RegKeys
                     /\ DefaultGroup(v)[2] = v /\ DefaultGroup(v) # v
  /\ \A g \in AllGroups : g \in Groups \/ \E v \in Vpcs : g = DefaultGroup(v)
  /\ Contents \subseteq Rows /\ Boxes \subseteq Rows /\ Contents \cap Boxes = {}
  /\ Groups \subseteq AllGroups /\ Private \subseteq Vpcs /\ Vpcs \subseteq Boxes
  /\ Agents \cap RegKeys = {} /\ Agents \cap AllGroups = {} /\ RegKeys \cap AllGroups = {}
  /\ None \notin Rows /\ None \notin Keys
  /\ Rows = Boxes \cup Contents /\ Vpcs \cap Networks = {}
<1>1. \A v \in Vpcs : DefaultGroup(v) \in AllGroups /\ DefaultGroup(v) \notin Groups
                      /\ DefaultGroup(v)[2] = v
  BY TablesAssumption DEF AllGroups, DefaultGroup
<1>2. \A g \in AllGroups : g \in Groups \/ \E v \in Vpcs : g = DefaultGroup(v)
  BY DEF AllGroups
<1>3. /\ Contents \cap Boxes = {} /\ Rows = Boxes \cup Contents
      /\ Groups \subseteq AllGroups
  BY TablesAssumption DEF Contents, Rows, AllGroups
<1>4. \A v \in Vpcs : DefaultGroup(v) \notin Agents \cup RegKeys /\ DefaultGroup(v) # v
  BY <1>1, <1>3, TablesAssumption DEF Contents, Boxes
<1> QED
  BY <1>1, <1>2, <1>3, <1>4, TablesAssumption, VpcsAssumption DEF Boxes

\* Where a row is.
LEMMA HomeIs ==
  /\ \A x \in Agents \cup Groups : Home(x) = home[x] /\ Home(x)' = home'[x]
  /\ \A v \in Vpcs : Home(DefaultGroup(v)) = v /\ Home(DefaultGroup(v))' = v
  /\ \A x \in Agents \cup AllGroups : Homes(x) = {Home(x)} /\ Homes(x)' = {Home(x)'}
  /\ \A k \in RegKeys : Homes(k) = scope[k] /\ Homes(k)' = scope'[k]
BY Tables DEF Home, Homes

\* Homes that do not change.
LEMMA HomesKept ==
  ASSUME home' = home, scope' = scope
  PROVE  \A x : Home(x)' = Home(x) /\ Homes(x)' = Homes(x)
BY DEF Home, Homes

\* A row that moves.
LEMMA HomesMoved ==
  ASSUME TypeOK, NEW x \in Agents \cup Groups, NEW b, home' = [home EXCEPT ![x] = b], scope' = scope
  PROVE  Homes(x)' = {b} /\ \A y \in Contents \ {x} : Homes(y)' = Homes(y)
<1>1. home'[x] = b /\ \A y \in (Agents \cup Groups) \ {x} : home'[y] = home[y]
  BY DEF TypeOK
<1>2. Homes(x)' = {b}
  BY <1>1, HomeIs, Tables
<1>3. ASSUME NEW y \in Contents \ {x} PROVE Homes(y)' = Homes(y)
  <2>1. CASE y \in (Agents \cup Groups) \ {x}
    <3>1. Homes(y) = {home[y]} /\ Homes(y)' = {home'[y]}
      BY <2>1, HomeIs, Tables
    <3> QED
      BY <1>1, <2>1, <3>1
  <2>2. CASE y \in RegKeys
    BY <2>2, HomeIs
  <2>3. CASE \E v \in Vpcs : y = DefaultGroup(v)
    <3>1. PICK v \in Vpcs : y = DefaultGroup(v)
      BY <2>3
    <3>2. Home(y) = v /\ Home(y)' = v /\ y \in AllGroups
      BY <3>1, HomeIs, Tables
    <3>3. Homes(y) = {Home(y)} /\ Homes(y)' = {Home(y)'}
      BY <3>2, HomeIs
    <3> QED
      BY <3>2, <3>3
  <2> QED
    BY <2>1, <2>2, <2>3, Tables DEF Contents
<1> QED
  BY <1>2, <1>3

\* The requests stay few.
LEMMA Few == ASSUME IInv PROVE IsFiniteSet(req) /\ Cardinality(req) \in Nat /\ Cardinality(req) <= MaxRequests
BY FS_CardinalityType DEF IInv, Requests, TypeOK

\* One more request.
LEMMA Started ==
  ASSUME IInv, NEW r, Start(r)
  PROVE  /\ IsFiniteSet(req') /\ Cardinality(req') <= MaxRequests
         /\ req' = req \cup {r} /\ calls' \in 0 .. MaxCalls
<1>1. req' = req \cup {r} /\ Cardinality(req) < MaxRequests /\ calls' = calls + 1 /\ calls < MaxCalls
  BY DEF Start, Call
<1>2. IsFiniteSet(req') /\ Cardinality(req') <= Cardinality(req) + 1 /\ Cardinality(req') \in Nat
  BY <1>1, Few, FS_AddElement, FS_CardinalityType
<1>3. calls' \in 0 .. MaxCalls
  BY <1>1, VpcsAssumption DEF IInv, TypeOK
<1> QED
  BY <1>1, <1>2, <1>3, Few, VpcsAssumption

\* One request is over, or goes on.
LEMMA Replaced ==
  ASSUME IInv, NEW r \in req, NEW q,
         calls' = calls, req' = req \ {r} \/ req' = (req \ {r}) \cup {q}
  PROVE  /\ IsFiniteSet(req') /\ Cardinality(req') <= MaxRequests
         /\ calls' \in 0 .. MaxCalls
<1>1. /\ Cardinality(req) \in Nat /\ Cardinality(req) # 0
      /\ IsFiniteSet(req \ {r}) /\ Cardinality(req \ {r}) = Cardinality(req) - 1
  BY Few, FS_RemoveElement, FS_CardinalityType, FS_EmptySet
<1>2. CASE req' = req \ {r}
  BY <1>1, <1>2, Few, VpcsAssumption DEF IInv, TypeOK
<1>3. CASE req' = (req \ {r}) \cup {q}
  <2> DEFINE T == req \ {r}
  <2>1. IsFiniteSet(T) /\ Cardinality(T) = Cardinality(req) - 1 /\ req' = T \cup {q}
    BY <1>1, <1>3
  <2>2. IsFiniteSet(req') /\ Cardinality(req') <= Cardinality(T) + 1 /\ Cardinality(req') \in Nat
    <3> HIDE DEF T
    <3>1. IsFiniteSet(req') /\ Cardinality(T) \in Nat
      BY <2>1, FS_AddElement, FS_CardinalityType
    <3>2. Cardinality(req') = Cardinality(T) \/ Cardinality(req') = Cardinality(T) + 1
      BY <2>1, FS_AddElement
    <3> QED
      BY <3>1, <3>2, FS_CardinalityType
  <2> QED
    BY <1>1, <2>1, <2>2, Few, VpcsAssumption DEF IInv, TypeOK
<1> QED
  BY <1>2, <1>3

\* The initial states.
LEMMA InitInv == Init => IInv
<1> SUFFICES ASSUME Init PROVE IInv
  OBVIOUS
<1>t. PICK there \in SUBSET Boxes :
       /\ Default \in there
       /\ st = [x \in Rows |-> IF \/ x \in there
                                  \/ \E v \in there \cap Vpcs : x = DefaultGroup(v)
                                 THEN "live" ELSE "new"]
       /\ pool = UNION {Prefixes(v) : v \in there \cap Private}
  BY DEF Init
<1>0. /\ dialect \in Dialects /\ org = TRUE
      /\ home = [x \in Agents \cup Groups |-> None] /\ scope = [k \in RegKeys |-> {}]
      /\ uses = [k \in RegKeys |-> 0]
      /\ group = [a \in Agents |-> None] /\ key = [a \in Agents |-> None]
      /\ by = [a \in Agents |-> None] /\ once = [k \in RegKeys |-> None]
      /\ req = {} /\ slipped = {} /\ torn = {} /\ heard = {} /\ calls = 0
  BY DEF Init
<1>1. /\ \A b \in Boxes : st[b] = IF b \in there THEN "live" ELSE "new"
      /\ \A v \in Vpcs : st[DefaultGroup(v)] = IF v \in there THEN "live" ELSE "new"
      /\ \A x \in Agents \cup RegKeys \cup Groups : st[x] = "new"
  <2>1. \A b \in Boxes : \A v \in Vpcs : b # DefaultGroup(v)
    BY Tables DEF Contents
  <2>2. \A v, w \in Vpcs : DefaultGroup(v) = DefaultGroup(w) => v = w
    BY Tables
  <2>3. \A v \in Vpcs : DefaultGroup(v) \in Rows /\ DefaultGroup(v) \notin there
    BY Tables DEF Contents
  <2>4. \A x \in Agents \cup RegKeys \cup Groups :
          x \in Rows /\ x \notin there /\ \A v \in Vpcs : x # DefaultGroup(v)
    BY Tables DEF Contents
  <2>5. \A b \in Boxes : b \in Rows
    BY Tables
  <2> QED
    BY <1>t, <2>1, <2>2, <2>3, <2>4, <2>5
<1>2. TypeOK
  <2>1. Cardinality(req) <= MaxRequests /\ calls \in 0 .. MaxCalls
    BY <1>0, FS_EmptySet, VpcsAssumption
  <2>2. pool \subseteq Private \X {"v4", "v6"}
    BY <1>t DEF Prefixes
  <2>3. st \in [Rows -> {"new", "live", "dead", "purged"}]
    BY <1>t
  <2> QED
    BY <1>0, <2>1, <2>2, <2>3 DEF TypeOK
<1>3. Requests
  BY <1>0, FS_EmptySet DEF Requests, OneCreator
<1>4. References
  <2>1. \A x \in Contents : Written(x) => \E v \in Vpcs : x = DefaultGroup(v) /\ Written(v)
    BY <1>1, Tables DEF Contents, Written
  <2> QED
    BY <1>0, <1>1, <2>1, Tables, HomeIs DEF References, Written
<1>5. KeyOfItsAgent
  BY <1>0 DEF KeyOfItsAgent
<1>6. NothingOutlivesItsBox
  <2>1. \A x \in Contents : Live(x) => \E v \in Vpcs : x = DefaultGroup(v) /\ Live(v)
    BY <1>1, Tables DEF Contents, Live
  <2>2. \A v \in Vpcs : Homes(DefaultGroup(v)) = {v}
    BY HomeIs, Tables
  <2> QED
    BY <2>1, <2>2 DEF NothingOutlivesItsBox, Contents
<1>7. GroupsHeld
  BY <1>0, <1>1, Tables DEF GroupsHeld, Live
<1>8. PrefixesHeld
  BY <1>t, <1>1, Tables DEF PrefixesHeld, Live, Prefixes
<1> QED
  BY <1>2, <1>3, <1>4, <1>5, <1>6, <1>7, <1>8 DEF IInv

-----------------------------------------------------------------------------
\* A request stays what it is while the others commit: rows stay written, what its own
\* row must not be yet it is not, and what comes into a box that ends is noted.
LEMMA RequestKept ==
  ASSUME IInv, NEW q \in req, dialect' = dialect,
         \A x \in Rows : Written(x) => Written(x)',
         \A k \in RegKeys : Written(k) => once'[k] = once[k] /\ scope'[k] = scope[k],
         q.op = "createVpc" => /\ ~ Written(q.box)'
                               /\ \A w : <<q.box, w>> \in pool => <<q.box, w>> \in pool',
         q.op = "createKey" => ~ Written(q.id)',
         q.op = "deleteBox" =>
           /\ q.pc = "v6" /\ <<q.box, "v4">> \notin pool => <<q.box, "v4">> \notin pool'
           /\ Serializable /\ ~ Live(q.box) => ~ Live(q.box)'
           /\ q.pc # "count" => \A x \in Contents : Live(x)' /\ q.box \in Homes(x)' =>
                x \in slipped' \/ (Live(x) /\ q.box \in Homes(x) /\ x \notin slipped),
         q.op = "deleteOrg" /\ ~ Serializable =>
           \A a \in Agents : Live(a)' /\ home'[a] \in Vpcs =>
             a \in slipped' \/ (Live(a) /\ home[a] \in Vpcs /\ a \notin slipped)
  PROVE  Request(q)'
<1>0. Request(q)
  BY DEF IInv, Requests
<1>1. Serializable' = Serializable
  BY DEF Serializable
<1>2. CASE q.op = "createVpc"
  BY <1>0, <1>2 DEF Request, CreatingVpc
<1>3. CASE q.op = "deleteBox"
  <2>1. DeletingBox(q)
    BY <1>0, <1>3 DEF Request
  <2>2. Written(q.box)'
    <3>1. q.box \in Rows
      BY <2>1, Tables DEF DeletingBox, DeleteBoxRequest
    <3> QED
      BY <2>1, <3>1 DEF DeletingBox
  <2>3. DeletingBox(q)'
    BY <1>1, <1>3, <2>1, <2>2 DEF DeletingBox, Contents
  <2> QED
    BY <1>3, <2>3 DEF Request
<1>4. CASE q.op = "deleteOrg"
  BY <1>0, <1>1, <1>4 DEF Request
<1>5. CASE q.op = "createAgent"
  <2>1. q.box \in Rows /\ q.by \in RegKeys \cup {None} /\ (q.by # None => q.by \in Rows)
    BY <1>0, <1>5, Tables DEF Request, CreatingAgent, Contents
  <2> QED
    BY <1>0, <1>5, <2>1 DEF Request, CreatingAgent, OfKey
<1>7. CASE q.op = "createKey"
  <2>1. q.boxes \subseteq Rows
    BY <1>0, <1>7, Tables DEF Request, Scopes, Boxes
  <2> QED
    BY <1>0, <1>7, <2>1 DEF Request
<1>6. CASE q.op \notin {"createVpc", "deleteBox", "deleteOrg", "createAgent", "createKey"}
  BY <1>0, <1>6, Tables DEF Request, Contents
<1> QED
  BY <1>2, <1>3, <1>4, <1>5, <1>6, <1>7

\* A handler up to its commit: a request of what it has read is in flight.
LEMMA ReadInv ==
  ASSUME IInv, NEW r, Start(r), Request(r),
         r.op = "createVpc" => \A q \in req : q.op = "createVpc" => q.box # r.box,
         r.op = "createKey" => \A q \in req : q.op = "createKey" => q.id # r.id
  PROVE  IInv'
<1>1. /\ IsFiniteSet(req') /\ Cardinality(req') <= MaxRequests
      /\ req' = req \cup {r} /\ calls' \in 0 .. MaxCalls
  BY Started
<1>2. UNCHANGED <<rows, rest, slipped>> /\ heard' = {}
  BY DEF Start
<1>3. TypeOK'
  BY <1>1, <1>2 DEF IInv, TypeOK, rows, rest
<1>4. Requests'
  <2>1. \A q \in req' : Request(q)
    BY <1>1 DEF IInv, Requests
  <2>2. \A q \in req' : Request(q)'
    <3> SUFFICES ASSUME NEW q \in req', Request(q) PROVE Request(q)'
      BY <2>1
    <3>1. \A x : /\ (Written(x)' <=> Written(x)) /\ (Live(x)' <=> Live(x))
                 /\ Homes(x)' = Homes(x)
      BY <1>2 DEF Written, Live, Home, Homes, rows
    <3>2. UNCHANGED <<pool, slipped, home, scope, once>> /\ (Serializable' <=> Serializable)
      BY <1>2 DEF Serializable, rows, rest
    <3>3. CreatingVpc(q) => CreatingVpc(q)'
      BY <3>1, <3>2 DEF CreatingVpc
    <3>4. DeletingBox(q) => DeletingBox(q)'
      BY <3>1, <3>2 DEF DeletingBox
    <3>5. CreatingAgent(q) => CreatingAgent(q)'
      BY <3>1, <3>2 DEF CreatingAgent, OfKey
    <3> QED
      BY <3>1, <3>2, <3>3, <3>4, <3>5 DEF Request
  <2>3. OneCreator'
    BY <1>1 DEF IInv, Requests, OneCreator
  <2> QED
    BY <1>1, <2>2, <2>3 DEF Requests
<1>5. References' /\ KeyOfItsAgent' /\ NothingOutlivesItsBox'
  BY <1>2 DEF IInv, References, KeyOfItsAgent, OfKey, NothingOutlivesItsBox, Written, Live, Home, Homes, rows, rest
<1>6. GroupsHeld'
  <2>1. \A v : Leaving(v) => Leaving(v)'
    BY <1>1, <1>2 DEF Leaving, rest
  <2> QED
    BY <1>2, <2>1 DEF IInv, GroupsHeld, Live, Home, Serializable, rows, rest
<1>7. PrefixesHeld'
  <2>1. \A v : Moving(v) => Moving(v)'
    BY <1>1, <1>2 DEF Moving
  <2> QED
    BY <1>2, <2>1 DEF IInv, PrefixesHeld, Live, Serializable, rows, rest
<1> QED
  BY <1>3, <1>4, <1>5, <1>6, <1>7 DEF IInv

\* A live row is a written one.
LEMMA LiveIsWritten == \A x : Live(x) => Written(x)
BY DEF Live, Written

\* The handlers that read and then commit, up to the commit.
LEMMA ReadersInv ==
  ASSUME IInv,
         \/ \E v \in Vpcs : CreateVpc(v)
         \/ \E b \in Boxes : UpdateBox(b) \/ DeleteBox(b)
         \/ DeleteOrg
         \/ \E g \in Groups, v \in Vpcs : CreateGroup(g, v)
         \/ \E g \in AllGroups : UpdateGroup(g) \/ DeleteGroup(g)
         \/ \E k \in RegKeys : UpdateRegKey(k)
         \/ \E k \in RegKeys, bs \in Scopes, i \in Ids \cup {None} : CreateRegKey(k, bs, i)
         \/ \E i \in Ids, b \in Boxes, pk \in Keys, k \in RegKeys \cup {None} : CreateAgent(i, b, pk, k)
         \/ \E a \in Agents, b \in Boxes, g \in AllGroups \cup {None} : UpdateAgent(a, b, g)
  PROVE  IInv'
<1>0. TypeOK /\ References
  BY DEF IInv
<1>1. ASSUME NEW v \in Vpcs, CreateVpc(v) PROVE IInv'
  <2> DEFINE r == [op |-> "createVpc", box |-> v, pc |-> IF v \in Private THEN "v4" ELSE "row"]
  <2>1. CreatingVpc(r)
    BY <1>1 DEF CreateVpc, CreatingVpc, CreateVpcRequest, Written
  <2>2. Request(r)
    BY <2>1 DEF Request
  <2>3. \A q \in req : q.op = "createVpc" => q.box # r.box
    BY <1>1 DEF CreateVpc
  <2> QED
    BY <1>1, <2>2, <2>3, ReadInv DEF CreateVpc
<1>2. ASSUME NEW b \in Boxes, UpdateBox(b) PROVE IInv'
  <2>1. Request([op |-> "updateBox", box |-> b])
    BY <1>2, LiveIsWritten DEF Request, UpdateBox
  <2> QED
    BY <1>2, <2>1, ReadInv DEF UpdateBox
<1>3. ASSUME NEW b \in Boxes, DeleteBox(b) PROVE IInv'
  <2> DEFINE r == [op |-> "deleteBox", box |-> b, pc |-> "count"]
  <2>1. DeletingBox(r)
    BY <1>3, LiveIsWritten DEF DeleteBox, DeletingBox, DeleteBoxRequest
  <2>2. Request(r)
    BY <2>1 DEF Request
  <2> QED
    BY <1>3, <2>2, ReadInv DEF DeleteBox
<1>4. CASE DeleteOrg
  <2>1. \A a \in Agents : ~ (Live(a) /\ home[a] \in Vpcs)
    BY <1>4 DEF DeleteOrg, MayDeleteOrg, Members
  <2>2. Request([op |-> "deleteOrg"])
    BY <2>1 DEF Request
  <2> QED
    BY <1>4, <2>2, ReadInv DEF DeleteOrg
<1>5. ASSUME NEW g \in Groups, NEW v \in Vpcs, CreateGroup(g, v) PROVE IInv'
  <2>1. Request([op |-> "createGroup", id |-> g, box |-> v])
    BY <1>5, LiveIsWritten DEF Request, CreateGroup
  <2> QED
    BY <1>5, <2>1, ReadInv DEF CreateGroup
<1>6. ASSUME NEW g \in AllGroups, UpdateGroup(g) PROVE IInv'
  <2>1. Request([op |-> "updateGroup", id |-> g])
    BY <1>6, LiveIsWritten DEF Request, UpdateGroup
  <2> QED
    BY <1>6, <2>1, ReadInv DEF UpdateGroup
<1>7. ASSUME NEW g \in AllGroups, DeleteGroup(g) PROVE IInv'
  <2>1. Request([op |-> "deleteGroup", id |-> g])
    BY <1>7 DEF Request, DeleteGroup, MayDeleteGroup
  <2> QED
    BY <1>7, <2>1, ReadInv DEF DeleteGroup
<1>8. ASSUME NEW k \in RegKeys, UpdateRegKey(k) PROVE IInv'
  <2>1. Request([op |-> "updateKey", id |-> k])
    BY <1>8, LiveIsWritten DEF Request, UpdateRegKey
  <2> QED
    BY <1>8, <2>1, ReadInv DEF UpdateRegKey
<1>9. ASSUME NEW k \in RegKeys, NEW bs \in Scopes, NEW i \in Ids \cup {None}, CreateRegKey(k, bs, i)
      PROVE  IInv'
  <2> DEFINE r == [op |-> "createKey", id |-> k, boxes |-> bs, once |-> i]
  <2>1. Request(r)
    BY <1>9, LiveIsWritten DEF Request, CreateRegKey, Written
  <2>2. \A q \in req : q.op = "createKey" => q.id # r.id
    BY <1>9 DEF CreateRegKey
  <2> QED
    BY <1>9, <2>1, <2>2, ReadInv DEF CreateRegKey
<1>10. ASSUME NEW i \in Ids, NEW b \in Boxes, NEW pk \in Keys, NEW k \in RegKeys \cup {None},
              CreateAgent(i, b, pk, k)
       PROVE  IInv'
  <2>0. PICK a : a = <<Table(b), i>>
    OBVIOUS
  <2> DEFINE r == [op |-> "createAgent", agent |-> a, box |-> b, key |-> pk, by |-> k]
  <2>1. /\ k # None => Live(k) /\ (once[k] # None => i = once[k]) /\ b \in scope[k]
        /\ Live(b) /\ Start(r)
    BY <1>10, <2>0 DEF CreateAgent, AgentId, MayCreate, SingleUse
  <2>2. a \in Agents /\ a[1] = Table(b) /\ a[2] = i
    BY <2>0 DEF Agents, Table
  <2>c. CreatingAgent(r)
    BY <2>1, <2>2, LiveIsWritten DEF CreatingAgent, OfKey
  <2>3. Request(r)
    BY <2>c DEF Request
  <2> QED
    BY <2>1, <2>3, ReadInv
<1>11. ASSUME NEW a \in Agents, NEW b \in Boxes, NEW g \in AllGroups \cup {None}, UpdateAgent(a, b, g)
       PROVE  IInv'
  <2> DEFINE r == [op |-> "updateAgent", agent |-> a, box |-> b, group |-> g,
                   row |-> <<home[a], group[a], key[a]>>]
  <2>1. /\ Written(a) /\ Written(b) /\ Start(r)
        /\ g # None => Written(g)
    BY <1>0, <1>11, LiveIsWritten DEF UpdateAgent, References
  <2>2. Request(r)
    BY <1>0, <2>1 DEF Request, TypeOK
  <2> QED
    BY <2>1, <2>2, ReadInv
<1> QED
  BY <1>1, <1>2, <1>3, <1>4, <1>5, <1>6, <1>7, <1>8, <1>9, <1>10, <1>11

-----------------------------------------------------------------------------
\* A commit that writes the row x into the boxes bs, or saves it there: it is noted when
\* one of them is going away, or gone.
LEMMA WriteInv ==
  ASSUME IInv, NEW r \in req,
         r.op \in {"createGroup", "updateGroup", "createKey", "updateKey", "createAgent", "updateAgent"},
         NEW x \in Contents, NEW bs,
         \A b \in bs : b \in Boxes /\ Written(b), x \in AllGroups => bs \subseteq Vpcs,
         st' = [st EXCEPT ![x] = "live"], Slip(x, bs), Finish(r), TypeOK',
         Homes(x)' = bs, \A y \in Contents \ {x} : Homes(y)' = Homes(y),
         \A k \in RegKeys : Written(k) => once'[k] = once[k] /\ scope'[k] = scope[k],
         x \in RegKeys /\ ~ Written(x) => r.op = "createKey" /\ r.id = x,
         x \in AllGroups \ Groups => Written(x),
         UNCHANGED <<dialect, pool, torn>>,
         \A a \in Agents \ {x} : group'[a] = group[a] /\ by'[a] = by[a],
         x \in Agents =>
           /\ group'[x] \in AllGroups \cup {None}
           /\ group'[x] # None => Written(group'[x])
           /\ by'[x] \in RegKeys \cup {None}
           /\ by'[x] # None => OfKey(x, by'[x])
           /\ Serializable /\ group'[x] # None /\ ~ Live(group'[x])
                => ~ Live(Home(group'[x])) \/ Leaving(Home(group'[x]))
  PROVE  IInv'
<1>0. TypeOK
  BY DEF IInv
<1>1. /\ req' = req \ {r} /\ calls' = calls
      /\ slipped' = IF \E b \in bs : Ending(b) THEN slipped \cup {x} ELSE slipped \ {x}
  BY DEF Finish, Slip
<1>2. /\ \A y \in Rows : st'[y] = IF y = x THEN "live" ELSE st[y]
      /\ x \in Rows /\ x \notin Boxes
  BY <1>0, Tables DEF TypeOK
<1>3. /\ \A y \in Rows : (Live(y)' <=> y = x \/ Live(y)) /\ (Written(y)' <=> y = x \/ Written(y))
      /\ \A y \in Boxes : (Live(y)' <=> Live(y)) /\ (Written(y)' <=> Written(y))
  BY <1>2, Tables DEF Live, Written
<1>4. Serializable' = Serializable
  BY DEF Serializable
\* What is now in a box that is going away was written there now, or before.
<1>5. ASSUME NEW c, NEW y \in Contents, Live(y)', c \in Homes(y)', Ending(c)
      PROVE  y \in slipped' \/ (Live(y) /\ c \in Homes(y) /\ y \notin slipped)
  <2>1. CASE y = x
    BY <1>1, <1>5, <2>1
  <2>2. CASE y # x
    BY <1>1, <1>3, <1>5, <2>2, Tables
  <2> QED
    BY <2>1, <2>2
<1>h. /\ \A g \in AllGroups \ {x} : Home(g)' = Home(g)
      /\ x \in AllGroups => Home(x)' \in Vpcs
  BY HomeIs DEF Contents
<1>6. Requests'
  <2>1. IsFiniteSet(req') /\ Cardinality(req') <= MaxRequests
    BY <1>1, Replaced
  <2>2. OneCreator'
    BY <1>1 DEF IInv, Requests, OneCreator
  <2>3. ASSUME NEW q \in req, q # r PROVE Request(q)'
    <3>0. Request(q) /\ OneCreator
      BY DEF IInv, Requests
    <3>1. \A y \in Rows : Written(y) => Written(y)'
      BY <1>3
    <3>2. q.op = "createVpc" => /\ ~ Written(q.box)'
                                /\ \A w : <<q.box, w>> \in pool => <<q.box, w>> \in pool'
      BY <1>3, <3>0, Tables DEF Request, CreatingVpc, CreateVpcRequest
    <3>3. q.op = "createKey" => ~ Written(q.id)'
      BY <1>3, <2>3, <3>0, Tables DEF Request, OneCreator, Contents
    <3>4. q.op = "deleteBox" => DeletingBox(q)
      BY <3>0 DEF Request
    <3>5. q.op = "deleteBox" =>
           /\ q.pc = "v6" /\ <<q.box, "v4">> \notin pool => <<q.box, "v4">> \notin pool'
           /\ Serializable /\ ~ Live(q.box) => ~ Live(q.box)'
           /\ q.pc # "count" => \A y \in Contents : Live(y)' /\ q.box \in Homes(y)' =>
                y \in slipped' \/ (Live(y) /\ q.box \in Homes(y) /\ y \notin slipped)
      <4> SUFFICES ASSUME q.op = "deleteBox"
                   PROVE  /\ ~ Live(q.box) => ~ Live(q.box)'
                          /\ q.pc # "count" => \A y \in Contents : Live(y)' /\ q.box \in Homes(y)' =>
                               y \in slipped' \/ (Live(y) /\ q.box \in Homes(y) /\ y \notin slipped)
        OBVIOUS
      <4>1. q.box \in Boxes
        BY <3>4 DEF DeletingBox, DeleteBoxRequest
      <4>2. q.pc # "count" => Ending(q.box)
        BY DEF Ending
      <4> QED
        BY <1>3, <1>5, <4>1, <4>2
    <3>6. q.op = "deleteOrg" /\ ~ Serializable =>
           \A a \in Agents : Live(a)' /\ home'[a] \in Vpcs =>
             a \in slipped' \/ (Live(a) /\ home[a] \in Vpcs /\ a \notin slipped)
      <4> SUFFICES ASSUME q.op = "deleteOrg", ~ Serializable, NEW a \in Agents, Live(a)', home'[a] \in Vpcs
                   PROVE  a \in slipped' \/ (Live(a) /\ home[a] \in Vpcs /\ a \notin slipped)
        OBVIOUS
      <4>0. PICK c : c = home'[a]
        OBVIOUS
      <4>1. c \in Homes(a)' /\ Homes(a) = {home[a]} /\ a \in Contents
        BY <4>0, HomeIs DEF Contents
      <4>2. Ending(c)
        BY DEF Ending
      <4>3. c \in Homes(a) => home[a] \in Vpcs
        BY <4>0, <4>1
      <4> QED
        BY <1>5, <4>1, <4>2, <4>3
    <3> QED
      BY <3>1, <3>2, <3>3, <3>5, <3>6, RequestKept
  <2> QED
    BY <1>1, <2>1, <2>2, <2>3 DEF Requests
<1>7. References'
  <2>0. References
    BY DEF IInv
  <2>1. \A v \in Vpcs : Written(v)' <=> Written(DefaultGroup(v))'
    BY <1>3, <2>0, Tables DEF References, Contents
  <2>2. ASSUME NEW y \in Contents, Written(y)', NEW b \in Homes(y)'
        PROVE  b \in Boxes /\ Written(b)'
    <3>1. CASE y = x
      BY <1>3, <3>1
    <3>2. CASE y # x
      <4>1. Written(y) /\ b \in Homes(y)
        BY <1>3, <2>2, <3>2, Tables
      <4> QED
        BY <1>3, <2>0, <4>1 DEF References
    <3> QED
      BY <3>1, <3>2
  <2>4. ASSUME NEW g \in AllGroups, Written(g)' PROVE Home(g)' \in Vpcs
    <3>1. g # x => Written(g)
      BY <1>3, <2>4, Tables DEF Contents
    <3> QED
      BY <1>h, <2>0, <3>1 DEF References
  <2>3. ASSUME NEW a \in Agents, group'[a] # None PROVE Written(group[a])'
    <3>1. group'[a] \in Rows /\ Written(group'[a])
      BY <1>0, <2>0, <2>3, Tables DEF References, TypeOK, Contents
    <3> QED
      BY <1>3, <3>1
  <2> QED
    BY <2>1, <2>2, <2>3, <2>4 DEF References
<1>8. KeyOfItsAgent'
  <2> SUFFICES ASSUME NEW a \in Agents, by'[a] # None PROVE OfKey(a, by[a])'
    BY DEF KeyOfItsAgent
  <2>0. PICK k : k = by'[a]
    OBVIOUS
  <2>1. k \in RegKeys /\ OfKey(a, k)
    BY <1>0, <2>0 DEF IInv, KeyOfItsAgent, TypeOK
  <2>2. Written(k)' /\ once'[k] = once[k] /\ scope'[k] = scope[k]
    BY <1>3, <2>1, Tables DEF Contents, OfKey
  <2>3. OfKey(a, k)'
    BY <2>1, <2>2 DEF OfKey
  <2> QED
    BY <2>0, <2>3 DEF OfKey, Written
<1>9. NothingOutlivesItsBox'
  <2> SUFFICES ASSUME NEW y \in Contents, Live(y)', NEW c \in Homes(y)', ~ Live(c)' PROVE y \in slipped'
    BY DEF NothingOutlivesItsBox, Contents
  <2>1. c \in Boxes
    BY <1>7 DEF References, Live, Written
  <2>2. ~ Live(c) /\ Ending(c)
    BY <1>3, <2>1 DEF Ending
  <2>3. y \in slipped' \/ (Live(y) /\ c \in Homes(y) /\ y \notin slipped)
    BY <1>5, <2>2
  <2> QED
    BY <2>2, <2>3 DEF IInv, NothingOutlivesItsBox, Contents
<1>10. GroupsHeld'
  <2>0. \A v : Leaving(v) => Leaving(v)'
    BY <1>1 DEF Leaving
  <2>1. Serializable => \A v \in Vpcs : Live(v)' => Live(DefaultGroup(v))' \/ Leaving(v)'
    BY <1>3, <2>0, Tables DEF IInv, GroupsHeld, Contents
  <2>2. ASSUME Serializable, NEW a \in Agents, Live(a)', group'[a] # None, ~ Live(group[a])'
        PROVE  ~ Live(Home(group[a]))' \/ Leaving(Home(group[a]))'
    <3>g. PICK g : g = group'[a]
      OBVIOUS
    <3>1. g \in AllGroups /\ g \in Contents /\ g \in Rows /\ g # x /\ ~ Live(g)
      <4>1. g \in AllGroups
        BY <1>0, <2>2, <3>g DEF TypeOK
      <4>2. g \in Rows /\ ~ (st'[g] = "live")
        BY <2>2, <3>g, <4>1, Tables DEF Live, Contents
      <4> QED
        BY <1>3, <4>1, <4>2 DEF Live, Contents
    <3>2. ~ Live(Home(g)) \/ Leaving(Home(g))
      BY <1>0, <1>3, <2>2, <3>1, <3>g, Tables DEF IInv, GroupsHeld, Contents
    <3>3. Home(g)' = Home(g) /\ Home(group[a])' = Home(g)
      <4>1. Home(g)' = Home(g)
        BY <1>h, <3>1
      <4> QED
        BY <3>g, <4>1 DEF Home
    <3>4. Written(g)
      BY <1>0, <2>2, <3>g DEF IInv, References
    <3>5. Home(g) \in Boxes
      BY <3>1, <3>4, Tables DEF IInv, References
    <3>6. ~ Live(Home(g))' \/ Leaving(Home(g))'
      BY <1>3, <2>0, <3>2, <3>5, <3>3
    <3> QED
      BY <3>3, <3>6 DEF Live, Leaving
  <2> QED
    BY <1>4, <2>1, <2>2 DEF GroupsHeld
<1>11. PrefixesHeld'
  <2>1. \A v : Moving(v) => Moving(v)'
    BY <1>1 DEF Moving
  <2> QED
    BY <1>3, <1>4, <2>1, Tables DEF IInv, PrefixesHeld
<1> QED
  BY <1>6, <1>7, <1>8, <1>9, <1>10, <1>11 DEF IInv

\* The other conditions of a commit that writes no agent.
LEMMA AgentsUntouched ==
  ASSUME group' = group, by' = by, NEW x \in RegKeys \cup AllGroups
  PROVE  x \notin Agents /\ \A a \in Agents \ {x} : group'[a] = group[a] /\ by'[a] = by[a]
BY Tables

\* What a commit leaves of the bounds and of the rows it slips in.
LEMMA Committed ==
  ASSUME IInv, NEW r \in req, Finish(r), NEW x \in Contents, NEW bs, Slip(x, bs)
  PROVE  /\ IsFiniteSet(req') /\ Cardinality(req') <= MaxRequests /\ calls' \in 0 .. MaxCalls
         /\ slipped' \subseteq Rows
<1>1. req' = req \ {r} /\ calls' = calls
  BY DEF Finish
<1>2. slipped' \subseteq slipped \cup {x} /\ x \in Rows /\ slipped \subseteq Rows
  BY Tables DEF Slip, IInv, TypeOK
<1> QED
  BY <1>1, <1>2, Replaced

\* CreateSecurityGroup and UpdateSecurityGroup.
LEMMA GroupCommitsInv ==
  ASSUME IInv, NEW r \in req, CreateGroupCommit(r) \/ UpdateGroupCommit(r)
  PROVE  IInv'
<1>0. TypeOK /\ References /\ Request(r)
  BY DEF IInv, Requests
<1>1. CASE CreateGroupCommit(r)
  <2>1. /\ r.op = "createGroup" /\ r.id \in Groups /\ r.box \in Vpcs /\ Written(r.box)
        /\ r.id \in Contents /\ r.id \in Rows
    BY <1>0, <1>1, Tables DEF CreateGroupCommit, Request, Contents
  <2>2. /\ st' = [st EXCEPT ![r.id] = "live"] /\ home' = [home EXCEPT ![r.id] = r.box]
        /\ Slip(r.id, {r.box}) /\ Finish(r) /\ UNCHANGED <<scope, group, key, by, once, uses>>
        /\ UNCHANGED <<dialect, org, pool, torn>>
        /\ heard' \subseteq Vpcs
    BY <1>1 DEF CreateGroupCommit, rest, NotifyGroupChange
  <2>3. TypeOK'
    <3>1. /\ st' \in [Rows -> {"new", "live", "dead", "purged"}]
          /\ home' \in [Agents \cup Groups -> Boxes \cup {None}]
      BY <1>0, <2>1, <2>2, Tables DEF TypeOK
    <3> QED
      BY <1>0, <2>1, <2>2, <3>1, Committed DEF TypeOK
  <2>p. PICK bs : bs = {r.box}
    OBVIOUS
  <2>4. Homes(r.id)' = bs /\ \A y \in Contents \ {r.id} : Homes(y)' = Homes(y)
    BY <1>0, <2>1, <2>2, <2>p, HomesMoved
  <2>5. /\ r.id \notin RegKeys /\ r.id \in RegKeys \cup AllGroups /\ Slip(r.id, bs) /\ bs \subseteq Vpcs
        /\ \A b \in bs : b \in Boxes /\ Written(b)
    BY <2>1, <2>2, <2>p, Tables
  <2> QED
    BY <2>1, <2>2, <2>3, <2>4, <2>5, AgentsUntouched, WriteInv
<1>2. CASE UpdateGroupCommit(r)
  <2>1. /\ r.op = "updateGroup" /\ r.id \in AllGroups /\ Written(r.id)
        /\ r.id \in Contents /\ r.id \in Rows
    BY <1>0, <1>2, Tables DEF UpdateGroupCommit, Request, Contents
  <2>2. /\ st' = [st EXCEPT ![r.id] = "live"] /\ home' = home
        /\ Slip(r.id, {Home(r.id)}) /\ Finish(r) /\ UNCHANGED <<scope, group, key, by, once, uses>>
        /\ UNCHANGED <<dialect, org, pool, torn>>
        /\ heard' \subseteq Vpcs
    BY <1>2 DEF UpdateGroupCommit, Saved, rest, NotifyGroupChange
  <2>3. TypeOK'
    <3>1. st' \in [Rows -> {"new", "live", "dead", "purged"}]
      BY <1>0, <2>1, <2>2, Tables DEF TypeOK
    <3> QED
      BY <1>0, <2>1, <2>2, <3>1, Committed DEF TypeOK
  <2>p. PICK bs : bs = {Home(r.id)}
    OBVIOUS
  <2>4. bs = Homes(r.id) /\ bs \subseteq Vpcs /\ \A b \in bs : b \in Boxes /\ Written(b)
    <3>1. Homes(r.id) = {Home(r.id)}
      BY <2>1, HomeIs
    <3> QED
      BY <1>0, <2>1, <2>p, <3>1 DEF References
  <2>5. Homes(r.id)' = bs /\ \A y \in Contents \ {r.id} : Homes(y)' = Homes(y)
    BY <2>2, <2>4, HomesKept
  <2>6. r.id \notin RegKeys /\ r.id \in RegKeys \cup AllGroups /\ Slip(r.id, bs)
    BY <2>1, <2>2, <2>p, Tables
  <2> QED
    BY <2>1, <2>2, <2>3, <2>4, <2>5, <2>6, AgentsUntouched, WriteInv
<1> QED
  BY <1>1, <1>2

\* CreateRegKey and UpdateRegKey.
LEMMA RegKeyCommitsInv ==
  ASSUME IInv, NEW r \in req, CreateRegKeyCommit(r) \/ UpdateRegKeyCommit(r)
  PROVE  IInv'
<1>0. TypeOK /\ References /\ Request(r)
  BY DEF IInv, Requests
<1>1. CASE CreateRegKeyCommit(r)
  <2>1. /\ r.op = "createKey" /\ r.id \in RegKeys /\ r.boxes \in Scopes
        /\ \A b \in r.boxes : b \in Boxes /\ Written(b)
        /\ r.once \in Ids \cup {None} /\ ~ Written(r.id)
        /\ r.id \in Contents /\ r.id \in Rows
    BY <1>0, <1>1, Tables DEF CreateRegKeyCommit, Request, Contents, Scopes, Boxes
  <2>2. /\ st' = [st EXCEPT ![r.id] = "live"] /\ scope' = [scope EXCEPT ![r.id] = r.boxes]
        /\ once' = [once EXCEPT ![r.id] = r.once]
        /\ Slip(r.id, r.boxes) /\ Finish(r) /\ UNCHANGED <<home, group, key, by, uses>>
        /\ UNCHANGED <<dialect, org, pool, torn>>
        /\ heard' = {}
    BY <1>1 DEF CreateRegKeyCommit, rest, Quiet
  <2>3. TypeOK'
    <3>1. /\ st' \in [Rows -> {"new", "live", "dead", "purged"}]
          /\ scope' \in [RegKeys -> Scopes \cup {{}}]
          /\ once' \in [RegKeys -> Ids \cup {None}]
      BY <1>0, <2>1, <2>2, Tables DEF TypeOK
    <3> QED
      BY <1>0, <2>1, <2>2, <3>1, Committed DEF TypeOK
  <2>4. Homes(r.id)' = r.boxes /\ \A y \in Contents \ {r.id} : Homes(y)' = Homes(y)
    BY <1>0, <2>1, <2>2 DEF Home, Homes, TypeOK
  <2>5. r.id \notin AllGroups /\ r.id \in RegKeys \cup AllGroups
    BY <2>1, Tables
  <2>6. \A k \in RegKeys : Written(k) => once'[k] = once[k] /\ scope'[k] = scope[k]
    BY <1>0, <2>1, <2>2 DEF TypeOK
  <2> QED
    BY <2>1, <2>2, <2>3, <2>4, <2>5, <2>6, AgentsUntouched, WriteInv
<1>2. CASE UpdateRegKeyCommit(r)
  <2>1. /\ r.op = "updateKey" /\ r.id \in RegKeys /\ Written(r.id)
        /\ r.id \in Contents /\ r.id \in Rows
    BY <1>0, <1>2, Tables DEF UpdateRegKeyCommit, Request, Contents
  <2>2. /\ st' = [st EXCEPT ![r.id] = "live"] /\ home' = home
        /\ Slip(r.id, scope[r.id]) /\ Finish(r) /\ UNCHANGED <<scope, group, key, by, once, uses>>
        /\ UNCHANGED <<dialect, org, pool, torn>>
        /\ heard' = {}
    BY <1>2 DEF UpdateRegKeyCommit, Saved, rest, Quiet
  <2>3. TypeOK'
    <3>1. st' \in [Rows -> {"new", "live", "dead", "purged"}]
      BY <1>0, <2>1, <2>2, Tables DEF TypeOK
    <3> QED
      BY <1>0, <2>1, <2>2, <3>1, Committed DEF TypeOK
  <2>p. PICK bs : bs = scope[r.id]
    OBVIOUS
  <2>4. bs = Homes(r.id) /\ \A b \in bs : b \in Boxes /\ Written(b)
    BY <1>0, <2>1, <2>p, HomeIs DEF References
  <2>5. Homes(r.id)' = bs /\ \A y \in Contents \ {r.id} : Homes(y)' = Homes(y)
    BY <2>2, <2>4, HomesKept
  <2>6. r.id \notin AllGroups /\ r.id \in RegKeys \cup AllGroups /\ Slip(r.id, bs)
    BY <2>1, <2>2, <2>p, Tables
  <2> QED
    BY <2>1, <2>2, <2>3, <2>4, <2>5, <2>6, AgentsUntouched, WriteInv
<1> QED
  BY <1>1, <1>2

\* The counts of the agents that keys have made.
LEMMA Counts ==
  ASSUME TypeOK, NEW k \in RegKeys \cup {None}, NEW n \in Int, Uses(k, n)
  PROVE  uses' \in [RegKeys -> Int]
<1>1. CASE SingleUse(k)
  <2>1. k \in RegKeys /\ uses' = [uses EXCEPT ![k] = @ + n]
    BY <1>1 DEF SingleUse, Uses
  <2> QED
    BY <2>1 DEF TypeOK
<1>2. CASE ~ SingleUse(k)
  BY <1>2 DEF Uses, TypeOK
<1> QED
  BY <1>1, <1>2

\* CreateDevice and CreateSite: a device's first group is its VPC's.
LEMMA CreateAgentInv ==
  ASSUME IInv, NEW r \in req, CreateAgentCommit(r)
  PROVE  IInv'
<1> DEFINE a == r.agent
<1>0. TypeOK /\ References /\ CreatingAgent(r) /\ r.op = "createAgent"
  BY DEF IInv, Requests, Request, CreateAgentCommit
<1>1. /\ a \in Agents /\ r.box \in Boxes /\ r.key \in Keys /\ r.by \in RegKeys \cup {None}
      /\ Written(r.box) /\ a \in Contents /\ a \in Rows /\ a \notin RegKeys /\ a \notin AllGroups
      /\ r.by # None => OfKey(a, r.by)
  BY <1>0, Tables DEF CreatingAgent, Contents
<1>2. /\ st' = [st EXCEPT ![a] = "live"] /\ home' = [home EXCEPT ![a] = r.box]
      /\ group' = [group EXCEPT ![a] = FirstGroup(r.box)]
      /\ key' = [key EXCEPT ![a] = r.key] /\ by' = [by EXCEPT ![a] = r.by]
      /\ Slip(a, {r.box}) /\ Finish(r) /\ once' = once /\ scope' = scope
      /\ Uses(r.by, 1)
      /\ UNCHANGED <<dialect, org, pool, torn>>
      /\ heard' = {}
      /\ Serializable => Live(r.box)
  BY DEF CreateAgentCommit, rest, Quiet, MayCreate
<1>3. /\ FirstGroup(r.box) \in AllGroups \cup {None}
      /\ FirstGroup(r.box) # None => r.box \in Vpcs /\ FirstGroup(r.box) = DefaultGroup(r.box)
                                     /\ Written(FirstGroup(r.box)) /\ Home(FirstGroup(r.box)) = r.box
  BY <1>0, <1>1, Tables, HomeIs DEF FirstGroup, References
<1>4. TypeOK'
  <2>1. /\ st' \in [Rows -> {"new", "live", "dead", "purged"}]
        /\ home' \in [Agents \cup Groups -> Boxes \cup {None}]
    BY <1>0, <1>1, <1>2, Tables DEF TypeOK
  <2>2. /\ group' \in [Agents -> AllGroups \cup {None}] /\ key' \in [Agents -> Keys \cup {None}]
        /\ by' \in [Agents -> RegKeys \cup {None}]
    BY <1>0, <1>1, <1>2, <1>3 DEF TypeOK
  <2>3. uses' \in [RegKeys -> Int]
    BY <1>0, <1>1, <1>2, Counts
  <2> QED
    BY <1>0, <1>1, <1>2, <2>1, <2>2, <2>3, Committed DEF TypeOK
<1>p. PICK bs : bs = {r.box}
  OBVIOUS
<1>5. /\ Homes(a)' = bs /\ \A y \in Contents \ {a} : Homes(y)' = Homes(y)
      /\ Slip(a, bs) /\ \A b \in bs : b \in Boxes /\ Written(b)
  BY <1>0, <1>1, <1>2, <1>p, HomesMoved
<1>6. \A c \in Agents \ {a} : group'[c] = group[c] /\ by'[c] = by[c]
  BY <1>0, <1>1, <1>2 DEF TypeOK
<1>7. group'[a] = FirstGroup(r.box) /\ by'[a] = r.by
  BY <1>0, <1>1, <1>2 DEF TypeOK
<1>8. Serializable /\ group'[a] # None /\ ~ Live(group'[a]) => Leaving(Home(group'[a]))
  BY <1>2, <1>3, <1>7 DEF IInv, GroupsHeld
<1>9. /\ group'[a] \in AllGroups \cup {None}
      /\ group'[a] # None => Written(group'[a])
      /\ by'[a] \in RegKeys \cup {None}
      /\ by'[a] # None => OfKey(a, by'[a])
  BY <1>1, <1>3, <1>7
<1> QED
  BY <1>0, <1>1, <1>2, <1>4, <1>5, <1>6, <1>8, <1>9, WriteInv

\* UpdateDevice and UpdateSite: what the caller gives for a group was there when it was
\* looked at, and still is where that is promised.
LEMMA UpdateAgentInv ==
  ASSUME IInv, NEW r \in req, UpdateAgentCommit(r)
  PROVE  IInv'
<1> DEFINE a == r.agent
<1>0. TypeOK /\ References /\ Request(r) /\ r.op = "updateAgent"
  BY DEF IInv, Requests, UpdateAgentCommit
<1>1. /\ a \in Agents /\ r.box \in Boxes /\ r.row[3] \in Keys \cup {None}
      /\ Written(a) /\ Written(r.box) /\ r.group \in AllGroups \cup {None}
      /\ r.group # None => Written(r.group)
      /\ a \in Contents /\ a \in Rows /\ a \notin RegKeys /\ a \notin AllGroups
  BY <1>0, Tables DEF Request, Contents
<1>2. /\ st' = [st EXCEPT ![a] = "live"] /\ home' = [home EXCEPT ![a] = r.box]
      /\ group' = [group EXCEPT ![a] = r.group]
      /\ key' = [key EXCEPT ![a] = r.row[3]]
      /\ Slip(a, {r.box}) /\ Finish(r) /\ by' = by /\ once' = once /\ scope' = scope
      /\ Uses(by[a], IF st[a] = "purged" THEN 1 ELSE 0)
      /\ UNCHANGED <<dialect, org, pool, torn>>
      /\ heard' = {}
      /\ Serializable => Live(a) /\ (r.group # group[a] => Live(r.group))
  BY DEF UpdateAgentCommit, rest, Quiet
<1>3. TypeOK'
  <2>1. /\ st' \in [Rows -> {"new", "live", "dead", "purged"}]
        /\ home' \in [Agents \cup Groups -> Boxes \cup {None}]
    BY <1>0, <1>1, <1>2, Tables DEF TypeOK
  <2>2. group' \in [Agents -> AllGroups \cup {None}] /\ key' \in [Agents -> Keys \cup {None}]
    BY <1>0, <1>1, <1>2 DEF TypeOK
  <2>3. uses' \in [RegKeys -> Int]
    <3>1. PICK k : k = by[a]
      OBVIOUS
    <3>2. PICK n \in Int : n = IF st[a] = "purged" THEN 1 ELSE 0
      OBVIOUS
    <3>3. k \in RegKeys \cup {None} /\ Uses(k, n)
      BY <1>0, <1>1, <1>2, <3>1, <3>2 DEF TypeOK
    <3> QED
      BY <1>0, <3>3, Counts
  <2> QED
    BY <1>0, <1>1, <1>2, <2>1, <2>2, <2>3, Committed DEF TypeOK
<1>p. PICK bs : bs = {r.box}
  OBVIOUS
<1>4. /\ Homes(a)' = bs /\ \A y \in Contents \ {a} : Homes(y)' = Homes(y)
      /\ Slip(a, bs) /\ \A b \in bs : b \in Boxes /\ Written(b)
  BY <1>0, <1>1, <1>2, <1>p, HomesMoved
<1>5. \A c \in Agents \ {a} : group'[c] = group[c] /\ by'[c] = by[c]
  BY <1>0, <1>1, <1>2 DEF TypeOK
<1>6. group'[a] = r.group /\ by'[a] = by[a]
  BY <1>0, <1>1, <1>2 DEF TypeOK
<1>7. Serializable /\ group'[a] # None /\ ~ Live(group'[a])
        => ~ Live(Home(group'[a])) \/ Leaving(Home(group'[a]))
  BY <1>1, <1>2, <1>6 DEF IInv, GroupsHeld
<1>8. /\ group'[a] \in AllGroups \cup {None}
      /\ group'[a] # None => Written(group'[a])
      /\ by'[a] \in RegKeys \cup {None}
      /\ by'[a] # None => OfKey(a, by'[a])
  BY <1>0, <1>1, <1>6 DEF IInv, KeyOfItsAgent, TypeOK
<1> QED
  BY <1>0, <1>1, <1>2, <1>3, <1>4, <1>5, <1>7, <1>8, WriteInv

-----------------------------------------------------------------------------
\* Rows that are deleted were live; none is written.
LEMMA Buried ==
  ASSUME TypeOK, NEW xs, Bury(xs)
  PROVE  /\ st' \in [Rows -> {"new", "live", "dead", "purged"}]
         /\ \A y \in Rows : (Live(y)' <=> Live(y) /\ y \notin xs) /\ (Written(y)' <=> Written(y))
<1>1. \A y \in Rows : st'[y] = IF y \in xs /\ Live(y) THEN "dead" ELSE st[y]
  BY DEF Bury
<1>2. st' \in [Rows -> {"new", "live", "dead", "purged"}]
  BY DEF Bury, TypeOK
<1> QED
  BY <1>1, <1>2 DEF Live, Written

\* A step that deletes the rows xs, or none, and moves requests on.
LEMMA BuryInv ==
  ASSUME IInv, NEW xs,
         \A y \in Rows : (Live(y)' <=> Live(y) /\ y \notin xs) /\ (Written(y)' <=> Written(y)),
         UNCHANGED <<dialect, home, scope, by, once, slipped, pool>>, torn \subseteq torn', TypeOK',
         \A a \in Agents : group'[a] \in {group[a], None},
         \A b \in Boxes \cap xs, y \in Contents \ xs : Live(y) /\ b \in Homes(y) => y \in slipped,
         Serializable =>
           /\ \A v \in Vpcs : DefaultGroup(v) \in xs /\ Live(v) /\ v \notin xs => Leaving(v)'
           /\ \A a \in Agents, g \in AllGroups \cap xs :
                Live(a) /\ a \notin xs /\ group'[a] = g => Home(g) \in xs \/ Leaving(Home(g))'
           /\ \A v \in Vpcs : Leaving(v) => Leaving(v)' \/ ~ Live(v) \/ v \in xs
           /\ \A v \in Private : Moving(v) \/ (v \in xs /\ Live(v)) =>
                Moving(v)' \/ v \in torn' \/ Prefixes(v) \cap pool = {},
         IsFiniteSet(req'), OneCreator', \A q \in req' : q \in req \/ Request(q)'
  PROVE  IInv'
<1>0. TypeOK
  BY DEF IInv
<1>1. Serializable' = Serializable /\ \A x : Home(x)' = Home(x) /\ Homes(x)' = Homes(x)
  BY HomesKept DEF Serializable
<1>2. Requests'
  <2> SUFFICES ASSUME NEW q \in req PROVE Request(q)'
    BY DEF Requests
  <2>0. Request(q)
    BY DEF IInv, Requests
  <2>1. q.op = "createVpc" => ~ Written(q.box)'
    BY <2>0, Tables DEF Request, CreatingVpc, CreateVpcRequest
  <2>2. q.op = "createKey" => ~ Written(q.id)'
    BY <2>0, Tables DEF Request, Contents
  <2>3. q.op = "deleteBox" => q.box \in Rows
    BY <2>0, Tables DEF Request, DeletingBox, DeleteBoxRequest
  <2>4. q.op = "deleteBox" =>
          /\ ~ Live(q.box) => ~ Live(q.box)'
          /\ \A y \in Contents : Live(y)' /\ q.box \in Homes(y)' =>
               y \in slipped' \/ (Live(y) /\ q.box \in Homes(y) /\ y \notin slipped)
    BY <1>1, <2>3, Tables
  <2>5. \A a \in Agents : Live(a)' /\ home'[a] \in Vpcs =>
          a \in slipped' \/ (Live(a) /\ home[a] \in Vpcs /\ a \notin slipped)
    BY Tables DEF Contents
  <2> QED
    BY <2>1, <2>2, <2>4, <2>5, RequestKept
<1>3. References'
  <2>0. References
    BY DEF IInv
  <2>1. \A v \in Vpcs : Written(v)' <=> Written(DefaultGroup(v))'
    BY <2>0, Tables DEF References, Contents
  <2>2. ASSUME NEW y \in Contents, Written(y)', NEW b \in Homes(y)' PROVE b \in Boxes /\ Written(b)'
    <3>1. Written(y) /\ b \in Homes(y)
      BY <1>1, <2>2, Tables
    <3>2. b \in Boxes /\ Written(b)
      BY <2>0, <3>1 DEF References
    <3> QED
      BY <3>2, Tables
  <2>4. \A g \in AllGroups : Written(g)' => Home(g)' \in Vpcs
    BY <1>1, <2>0, Tables DEF References, Contents
  <2>3. \A a \in Agents : group'[a] # None => Written(group[a])'
    <3> SUFFICES ASSUME NEW a \in Agents, group'[a] # None PROVE Written(group[a])'
      OBVIOUS
    <3>1. PICK g : g = group'[a]
      OBVIOUS
    <3>2. g = group[a] /\ g \in AllGroups /\ Written(g)
      BY <1>0, <2>0, <3>1 DEF References, TypeOK
    <3>3. Written(g)'
      BY <3>2, Tables DEF Contents
    <3> QED
      BY <3>1, <3>3 DEF Written
  <2> QED
    BY <2>1, <2>2, <2>3, <2>4 DEF References
<1>4. KeyOfItsAgent'
  <2> SUFFICES ASSUME NEW a \in Agents, by[a] # None PROVE OfKey(a, by[a])'
    BY DEF KeyOfItsAgent
  <2>1. PICK k : k = by[a]
    OBVIOUS
  <2>2. k \in RegKeys /\ OfKey(a, k)
    BY <1>0, <2>1 DEF IInv, KeyOfItsAgent, TypeOK
  <2>3. OfKey(a, k)'
    BY <2>2, Tables DEF Contents, OfKey
  <2> QED
    BY <2>1, <2>3 DEF OfKey, Written
<1>5. NothingOutlivesItsBox'
  <2> SUFFICES ASSUME NEW y \in Contents, Live(y)', NEW b \in Homes(y)', ~ Live(b)' PROVE y \in slipped
    BY DEF NothingOutlivesItsBox, Contents
  <2>1. Live(y) /\ y \notin xs
    BY Tables
  <2>2. b \in Homes(y)
    BY <1>1
  <2>3. b \in Boxes /\ b \in Rows
    BY <2>1, <2>2, LiveIsWritten, Tables DEF IInv, References
  <2>5. ~ Live(b) \/ b \in xs
    BY <2>3
  <2> QED
    BY <2>1, <2>2, <2>3, <2>5 DEF IInv, NothingOutlivesItsBox, Contents
<1>6. GroupsHeld'
  <2>1. Serializable => \A v \in Vpcs : Live(v)' => Live(DefaultGroup(v))' \/ Leaving(v)'
    <3> SUFFICES ASSUME Serializable, NEW v \in Vpcs, Live(v)', ~ Live(DefaultGroup(v))' PROVE Leaving(v)'
      OBVIOUS
    <3>1. Live(v) /\ v \notin xs
      BY Tables
    <3>2. DefaultGroup(v) \in xs \/ ~ Live(DefaultGroup(v))
      BY Tables DEF Contents
    <3> QED
      BY <3>1, <3>2 DEF IInv, GroupsHeld
  <2>2. ASSUME Serializable, NEW a \in Agents, Live(a)', group'[a] # None, ~ Live(group[a])'
        PROVE  ~ Live(Home(group[a]))' \/ Leaving(Home(group[a]))'
    <3>1. PICK g : g = group'[a]
      OBVIOUS
    <3>2. PICK h : h = Home(g)
      OBVIOUS
    <3>3. /\ g = group[a] /\ g \in AllGroups /\ g \in Rows /\ Written(g) /\ Live(a) /\ a \notin xs
          /\ Home(group[a])' = h
      BY <1>0, <1>1, <2>2, <3>1, <3>2, Tables DEF TypeOK, IInv, References, Contents, Home
    <3>4. h \in Vpcs /\ h \in Rows
      BY <3>2, <3>3, Tables DEF IInv, References
    <3>5. g \in xs \/ ~ Live(g)
      <4>1. ~ Live(g)'
        BY <2>2, <3>1 DEF Live
      <4> QED
        BY <3>3, <4>1
    <3>6. ~ Live(h)' \/ Leaving(h)'
      <4>1. CASE g \in xs
        BY <2>2, <3>1, <3>2, <3>3, <3>4, <4>1
      <4>2. CASE ~ Live(g)
        <5>1. ~ Live(h) \/ Leaving(h)
          BY <2>2, <3>1, <3>2, <3>3, <4>2 DEF IInv, GroupsHeld
        <5> QED
          BY <2>2, <3>4, <5>1
      <4> QED
        BY <3>5, <4>1, <4>2
    <3> QED
      BY <3>3, <3>6 DEF Live, Leaving
  <2> QED
    BY <1>1, <2>1, <2>2 DEF GroupsHeld
<1>7. PrefixesHeld'
  <2> SUFFICES ASSUME Serializable, NEW v \in Private
               PROVE  /\ Live(v)' => Prefixes(v) \subseteq pool
                      /\ Prefixes(v) \cap pool # {} => Live(v)' \/ v \in torn' \/ Moving(v)'
    BY <1>1 DEF PrefixesHeld, Prefixes
  <2>1. /\ Live(v) => Prefixes(v) \subseteq pool
        /\ Prefixes(v) \cap pool # {} => Live(v) \/ v \in torn \/ Moving(v)
    BY DEF IInv, PrefixesHeld
  <2>2. v \in Rows
    BY Tables
  <2> QED
    BY <2>1, <2>2
<1> QED
  BY <1>2, <1>3, <1>4, <1>5, <1>6, <1>7 DEF IInv

\* A request of DeleteBox that goes on to the next statement.
LEMMA WentOn ==
  ASSUME IInv, NEW r \in req, r.op = "deleteBox",
         NEW pc \in {"count", "keys", "groups", "row", "v4", "v6"}, Go(r, pc)
  PROVE  /\ IsFiniteSet(req') /\ Cardinality(req') <= MaxRequests /\ calls' \in 0 .. MaxCalls
         /\ OneCreator'
         /\ \E q \in req' :
              /\ q \in DeleteBoxRequest /\ q.op = "deleteBox" /\ q.box = r.box /\ q.pc = pc
              /\ \A x \in req' : x = q \/ x \in req
         /\ \A x \in req : x = r \/ x \in req'
<1>0. DeletingBox(r) /\ r \in DeleteBoxRequest /\ OneCreator
  BY DEF IInv, Requests, Request, DeletingBox
<1> DEFINE q == [r EXCEPT !.pc = pc]
<1>1. q \in DeleteBoxRequest /\ q.op = "deleteBox" /\ q.box = r.box /\ q.pc = pc
  BY <1>0 DEF DeleteBoxRequest
<1>2. req' = (req \ {r}) \cup {q} /\ calls' = calls
  BY DEF Go
<1> HIDE DEF q
<1>3. IsFiniteSet(req') /\ Cardinality(req') <= MaxRequests /\ calls' \in 0 .. MaxCalls
  BY <1>2, Replaced
<1>4. OneCreator'
  BY <1>0, <1>1, <1>2 DEF OneCreator
<1> QED
  BY <1>1, <1>2, <1>3, <1>4

\* A request that is over.
LEMMA Over ==
  ASSUME IInv, NEW r \in req, Finish(r)
  PROVE  /\ IsFiniteSet(req') /\ Cardinality(req') <= MaxRequests /\ calls' \in 0 .. MaxCalls
         /\ OneCreator' /\ req' = req \ {r}
BY Replaced DEF Finish, IInv, Requests, OneCreator

\* DeleteBox counts what must not be there: from now on what comes slips in.
LEMMA DeleteCountInv ==
  ASSUME IInv, NEW r \in req, DeleteCount(r)
  PROVE  IInv'
<1>0. /\ TypeOK /\ r.op = "deleteBox" /\ r.pc = "count" /\ DeletingBox(r)
  BY DEF IInv, Requests, Request, DeleteCount
<1>1. /\ UNCHANGED <<dialect, org, st, home, scope, group, key, by, once, uses, slipped, pool, torn>> /\ heard' = {}
      /\ (Members(r.box) = {} /\ Go(r, "keys")) \/ Finish(r)
  BY DEF DeleteCount, Count, Quiet, rows, rest
<1>2. /\ IsFiniteSet(req') /\ Cardinality(req') <= MaxRequests /\ calls' \in 0 .. MaxCalls
      /\ OneCreator' /\ \A x \in req : x = r \/ x \in req'
  BY <1>0, <1>1, WentOn, Over
<1>3. TypeOK'
  BY <1>0, <1>1, <1>2 DEF TypeOK
<1>4. \A q \in req' : q \in req \/ Request(q)'
  <2>1. CASE Finish(r)
    BY <2>1, Over
  <2>2. CASE Members(r.box) = {} /\ Go(r, "keys")
    <3>1. PICK q \in req' :
            /\ q \in DeleteBoxRequest /\ q.op = "deleteBox" /\ q.box = r.box /\ q.pc = "keys"
            /\ \A x \in req' : x = q \/ x \in req
      BY <1>0, <2>2, WentOn
    <3>2. \A a \in Agents : ~ (Live(a)' /\ r.box \in Homes(a)')
      BY <1>1, <2>2, HomeIs DEF Members, Live
    <3>3. DeletingBox(q)'
      BY <1>0, <1>1, <3>1, <3>2 DEF DeletingBox, Written
    <3>4. Request(q)'
      BY <3>1, <3>3 DEF Request
    <3> QED
      BY <3>1, <3>4
  <2> QED
    BY <1>1, <2>1, <2>2
<1>5. \A v : Leaving(v) => Leaving(v)'
  BY <1>0, <1>1, <1>2 DEF Leaving
<1>6. \A v : Moving(v) => Moving(v)'
  BY <1>0, <1>2 DEF Moving
<1>7. \A y \in Rows : (Live(y)' <=> Live(y) /\ y \notin {}) /\ (Written(y)' <=> Written(y))
  BY <1>1 DEF Live, Written
<1> QED
  BY <1>1, <1>2, <1>3, <1>4, <1>5, <1>6, <1>7, BuryInv

\* DeleteBox deletes the registration keys of the box.
LEMMA DeleteRegKeysInv ==
  ASSUME IInv, NEW r \in req, DeleteRegKeysOf(r)
  PROVE  IInv'
<1> DEFINE xs == {k \in RegKeys : r.box \in scope[k]}
           pc == IF r.box \in Vpcs THEN "groups" ELSE "row"
<1>0. /\ TypeOK /\ References /\ r.op = "deleteBox" /\ r.pc = "keys" /\ DeletingBox(r)
      /\ r \in DeleteBoxRequest /\ r.box \in Boxes
  BY DEF IInv, Requests, Request, DeleteRegKeysOf, DeletingBox, DeleteBoxRequest
<1>1. /\ UNCHANGED <<dialect, org, home, scope, group, key, by, once, uses, slipped, pool, torn>> /\ heard' = {}
      /\ Bury(xs) /\ Go(r, pc)
  BY DEF DeleteRegKeysOf, Quiet, rest
<1>2. /\ IsFiniteSet(req') /\ Cardinality(req') <= MaxRequests /\ calls' \in 0 .. MaxCalls
      /\ OneCreator' /\ \A x \in req : x = r \/ x \in req'
  BY <1>0, <1>1, WentOn
<1>3. /\ st' \in [Rows -> {"new", "live", "dead", "purged"}]
      /\ \A y \in Rows : (Live(y)' <=> Live(y) /\ y \notin xs) /\ (Written(y)' <=> Written(y))
  BY <1>0, <1>1, Buried
<1>4. TypeOK'
  BY <1>0, <1>1, <1>2, <1>3 DEF TypeOK
<1>5. \A q \in req' : q \in req \/ Request(q)'
  <2>1. PICK q \in req' :
          /\ q \in DeleteBoxRequest /\ q.op = "deleteBox" /\ q.box = r.box /\ q.pc = pc
          /\ \A x \in req' : x = q \/ x \in req
    BY <1>0, <1>1, WentOn
  <2>2. \A y \in Agents \cup RegKeys : Live(y)' /\ r.box \in Homes(y)' => y \in slipped'
    <3>1. \A k \in RegKeys : ~ (Live(k)' /\ r.box \in Homes(k)')
      BY <1>1, <1>3, HomeIs, Tables DEF Contents
    <3>2. \A a \in Agents : Live(a)' /\ r.box \in Homes(a)' => Live(a) /\ r.box \in Homes(a)
      BY <1>1, <1>3, HomeIs, Tables DEF Contents
    <3> QED
      BY <1>0, <1>1, <3>1, <3>2 DEF DeletingBox
  <2>3. r.box \notin Vpcs => \A g \in AllGroups : ~ (Live(g)' /\ r.box \in Homes(g)')
    <3> SUFFICES ASSUME NEW g \in AllGroups, Live(g)', r.box \in Homes(g)' PROVE r.box \in Vpcs
      OBVIOUS
    <3>1. Written(g) /\ Home(g) = r.box
      BY <1>1, <1>3, LiveIsWritten, HomesKept, HomeIs, Tables DEF Contents
    <3> QED
      BY <1>0, <3>1 DEF References
  <2>4. Written(r.box)'
    BY <1>0, <1>3, Tables DEF DeletingBox
  <2>5. DeletingBox(q)'
    BY <2>1, <2>2, <2>3, <2>4 DEF DeletingBox
  <2> QED
    BY <2>1, <2>5 DEF Request
<1>6. \A v : (Leaving(v) => Leaving(v)') /\ (Moving(v) => Moving(v)')
  BY <1>0, <1>1, <1>2 DEF Leaving, Moving
<1>7. xs \cap Boxes = {} /\ xs \cap AllGroups = {} /\ \A v \in Vpcs : v \notin xs /\ DefaultGroup(v) \notin xs
  BY Tables DEF Contents
<1> HIDE DEF xs
<1> QED
  BY <1>1, <1>2, <1>3, <1>4, <1>5, <1>6, <1>7, Tables, BuryInv

\* DeleteVPC deletes the security groups of the VPC: it is about to go.
LEMMA DeleteGroupsInv ==
  ASSUME IInv, NEW r \in req, DeleteGroupsOf(r)
  PROVE  IInv'
<1> DEFINE xs == {g \in AllGroups : Home(g) = r.box}
<1>0. /\ TypeOK /\ References /\ r.op = "deleteBox" /\ r.pc = "groups" /\ DeletingBox(r)
      /\ r \in DeleteBoxRequest /\ r.box \in Boxes
  BY DEF IInv, Requests, Request, DeleteGroupsOf, DeletingBox, DeleteBoxRequest
<1>1. /\ UNCHANGED <<dialect, org, home, scope, group, key, by, once, uses, slipped, pool, torn>> /\ heard' = {}
      /\ Bury(xs) /\ Go(r, "row")
  BY DEF DeleteGroupsOf, Quiet, rest
<1>2. /\ IsFiniteSet(req') /\ Cardinality(req') <= MaxRequests /\ calls' \in 0 .. MaxCalls
      /\ OneCreator' /\ \A x \in req : x = r \/ x \in req'
  BY <1>0, <1>1, WentOn
<1>3. /\ st' \in [Rows -> {"new", "live", "dead", "purged"}]
      /\ \A y \in Rows : (Live(y)' <=> Live(y) /\ y \notin xs) /\ (Written(y)' <=> Written(y))
  BY <1>0, <1>1, Buried
<1>4. TypeOK'
  BY <1>0, <1>1, <1>2, <1>3 DEF TypeOK
<1>5. PICK q \in req' :
        /\ q \in DeleteBoxRequest /\ q.op = "deleteBox" /\ q.box = r.box /\ q.pc = "row"
        /\ \A x \in req' : x = q \/ x \in req
  BY <1>0, <1>1, WentOn
<1>6. \A x \in req' : x \in req \/ Request(x)'
  <2>1. \A y \in Agents \cup RegKeys : Live(y)' /\ r.box \in Homes(y)' => y \in slipped'
    <3>1. \A y \in Agents \cup RegKeys : Live(y)' /\ r.box \in Homes(y)' => Live(y) /\ r.box \in Homes(y)
      BY <1>1, <1>3, HomeIs, Tables DEF Contents
    <3> QED
      BY <1>0, <1>1, <3>1 DEF DeletingBox
  <2>2. \A g \in AllGroups : ~ (Live(g)' /\ r.box \in Homes(g)')
    BY <1>1, <1>3, HomesKept, HomeIs, Tables DEF Contents
  <2>3. Written(r.box)'
    BY <1>0, <1>3, Tables DEF DeletingBox
  <2>4. DeletingBox(q)'
    BY <1>5, <2>1, <2>2, <2>3 DEF DeletingBox
  <2> QED
    BY <1>5, <2>4 DEF Request
<1>7. Leaving(r.box)'
  BY <1>5 DEF Leaving
<1>8. \A v : (Leaving(v) => Leaving(v)') /\ (Moving(v) => Moving(v)')
  BY <1>0, <1>1, <1>2 DEF Leaving, Moving
<1>9. /\ xs \cap Boxes = {} /\ \A v \in Vpcs : v \notin xs
      /\ \A g \in xs : Home(g) = r.box
      /\ \A v \in Vpcs : DefaultGroup(v) \in xs => v = r.box
  BY Tables, HomeIs DEF Contents
<1>10. \A g \in xs : Leaving(Home(g))'
  <2> SUFFICES ASSUME NEW g \in xs PROVE Leaving(Home(g))'
    OBVIOUS
  <2>1. Home(g)' = r.box
    BY <1>1, HomesKept
  <2> QED
    BY <1>7, <2>1 DEF Leaving
<1>11. \A v \in Vpcs : DefaultGroup(v) \in xs => Leaving(v)'
  BY <1>7, <1>9
<1>12. /\ \A v \in Private : v \notin xs
       /\ \A b \in Boxes : b \notin xs
  BY <1>9, Tables
<1> HIDE DEF xs
<1> QED
  BY <1>1, <1>2, <1>3, <1>4, <1>6, <1>8, <1>10, <1>11, <1>12, BuryInv

\* DeleteBox deletes the row: whatever is in it has slipped in.
LEMMA DeleteRowInv ==
  ASSUME IInv, NEW r \in req, DeleteRow(r)
  PROVE  IInv'
<1> DEFINE xs == {r.box}
<1>0. /\ TypeOK /\ References /\ r.op = "deleteBox" /\ r.pc = "row" /\ DeletingBox(r)
      /\ r \in DeleteBoxRequest /\ r.box \in Boxes
  BY DEF IInv, Requests, Request, DeleteRow, DeletingBox, DeleteBoxRequest
<1>1. /\ UNCHANGED <<dialect, org, home, scope, group, key, by, once, uses, slipped, pool, torn>> /\ heard' = {}
      /\ Bury(xs)
      /\ (r.box \in Private /\ Go(r, "v4")) \/ (r.box \notin Private /\ Finish(r))
  BY DEF DeleteRow, Quiet, rest
<1>2. /\ IsFiniteSet(req') /\ Cardinality(req') <= MaxRequests /\ calls' \in 0 .. MaxCalls
      /\ OneCreator' /\ \A x \in req : x = r \/ x \in req'
  BY <1>0, <1>1, WentOn, Over
<1>3. /\ st' \in [Rows -> {"new", "live", "dead", "purged"}]
      /\ \A y \in Rows : (Live(y)' <=> Live(y) /\ y \notin xs) /\ (Written(y)' <=> Written(y))
  BY <1>0, <1>1, Buried
<1>4. TypeOK'
  BY <1>0, <1>1, <1>2, <1>3 DEF TypeOK
<1>5. \A y \in Contents : Live(y) /\ r.box \in Homes(y) => y \in slipped
  BY <1>0 DEF DeletingBox, Contents
<1>6. \A x \in req' : x \in req \/ Request(x)'
  <2>1. CASE Finish(r)
    BY <2>1, Over
  <2>2. CASE r.box \in Private /\ Go(r, "v4")
    <3>1. PICK q \in req' :
            /\ q \in DeleteBoxRequest /\ q.op = "deleteBox" /\ q.box = r.box /\ q.pc = "v4"
            /\ \A x \in req' : x = q \/ x \in req
      BY <1>0, <2>2, WentOn
    <3>2. \A y \in Contents : Live(y)' /\ r.box \in Homes(y)' => y \in slipped'
      BY <1>1, <1>3, <1>5, HomesKept, Tables
    <3>3. Written(r.box)' /\ ~ Live(r.box)'
      BY <1>0, <1>3, Tables DEF DeletingBox
    <3>4. DeletingBox(q)'
      BY <2>2, <3>1, <3>2, <3>3 DEF DeletingBox, Contents
    <3> QED
      BY <3>1, <3>4 DEF Request
  <2> QED
    BY <1>1, <2>1, <2>2
<1>7. \A v : Leaving(v) => Leaving(v)' \/ v \in xs
  BY <1>0, <1>1, <1>2 DEF Leaving
<1>8. \A v : Moving(v) => Moving(v)'
  BY <1>0, <1>2 DEF Moving
<1>9. r.box \in Private => Moving(r.box)'
  <2> SUFFICES ASSUME r.box \in Private PROVE Moving(r.box)'
    OBVIOUS
  <2>1. Go(r, "v4")
    BY <1>1
  <2>2. \E q \in req' : q.op = "deleteBox" /\ q.box = r.box /\ q.pc = "v4"
    BY <1>0, <2>1, WentOn
  <2> QED
    BY <2>2 DEF Moving
<1>10. xs \cap AllGroups = {} /\ \A v \in Vpcs : DefaultGroup(v) \notin xs
  BY <1>0, Tables DEF Contents
<1>11. \A b \in Boxes \cap xs, y \in Contents \ xs : Live(y) /\ b \in Homes(y) => y \in slipped
  BY <1>5
<1>12. \A v \in Private : Moving(v) \/ (v \in xs /\ Live(v)) => Moving(v)'
  BY <1>8, <1>9
<1> HIDE DEF xs
<1> QED
  BY <1>1, <1>2, <1>3, <1>4, <1>6, <1>7, <1>10, <1>11, <1>12, Tables, BuryInv

\* deleteOrganization ends everything of the VPCs at once; the agents that it leaves
\* came after it had looked.
LEMMA DeleteOrgInv ==
  ASSUME IInv, NEW r \in req, DeleteOrgCommit(r)
  PROVE  IInv'
<1> DEFINE xs == Vpcs \cup AllGroups \cup {k \in RegKeys : scope[k] \cap Vpcs # {}}
<1>0. /\ TypeOK /\ References /\ r.op = "deleteOrg"
      /\ Serializable => \A v \in Vpcs : Members(v) = {}
      /\ ~ Serializable => \A a \in Agents : Live(a) /\ home[a] \in Vpcs => a \in slipped
  BY DEF IInv, Requests, Request, DeleteOrgCommit, MayDeleteOrg
<1>1. /\ UNCHANGED <<dialect, pool, home, scope, group, key, by, once, uses, slipped>> /\ heard' = {}
      /\ Bury(xs) /\ Finish(r) /\ org' = FALSE
      /\ torn' = torn \cup {v \in Private : Live(v)}
  BY DEF DeleteOrgCommit, Quiet
<1>2. /\ IsFiniteSet(req') /\ Cardinality(req') <= MaxRequests /\ calls' \in 0 .. MaxCalls
      /\ OneCreator' /\ req' = req \ {r}
  BY <1>1, Over
<1>3. /\ st' \in [Rows -> {"new", "live", "dead", "purged"}]
      /\ \A y \in Rows : (Live(y)' <=> Live(y) /\ y \notin xs) /\ (Written(y)' <=> Written(y))
  BY <1>0, <1>1, Buried
<1>4. TypeOK'
  <2>1. torn' \subseteq Vpcs
    BY <1>0, <1>1, Tables DEF TypeOK
  <2> QED
    BY <1>0, <1>1, <1>2, <1>3, <2>1 DEF TypeOK
<1>5. ASSUME NEW b \in Boxes \cap xs, NEW y \in Contents \ xs, Live(y), b \in Homes(y)
      PROVE  y \in slipped
  <2>1. b \in Vpcs /\ y \in Agents \cup RegKeys
    BY <1>5, Tables DEF Contents
  <2>2. y \in Agents
    BY <1>5, <2>1, HomeIs
  <2>3. home[y] = b
    BY <1>5, <2>2, HomeIs
  <2> QED
    BY <1>0, <1>5, <2>1, <2>2, <2>3 DEF Members
<1>6. \A v \in Vpcs : v \in xs
  OBVIOUS
<1>7. ASSUME NEW a \in Agents, NEW g \in AllGroups \cap xs, group'[a] = g
      PROVE  Home(g) \in xs
  <2>1. g # None /\ group[a] = g
    BY <1>1, <1>7, Tables DEF Contents
  <2>2. Written(g)
    BY <1>0, <2>1 DEF References
  <2> QED
    BY <1>0, <2>2 DEF References
<1>8. \A v \in Private : Moving(v) \/ (v \in xs /\ Live(v)) => Moving(v)' \/ v \in torn'
  BY <1>0, <1>1, <1>2 DEF Moving
<1>9. torn \subseteq torn'
  BY <1>1
<1> HIDE DEF xs
<1> QED
  BY <1>1, <1>2, <1>3, <1>4, <1>5, <1>6, <1>7, <1>8, <1>9, BuryInv

\* DeleteSecurityGroup takes the group off the devices of its VPC.
LEMMA DeleteGroupInv ==
  ASSUME IInv, NEW r \in req, DeleteGroupCommit(r)
  PROVE  IInv'
<1> DEFINE xs == {r.id}
<1>0. /\ TypeOK /\ r.op = "deleteGroup" /\ r.id \in Groups
      /\ Serializable => \A a \in Agents : Live(a) => group[a] # r.id
  BY DEF IInv, Requests, Request, DeleteGroupCommit, MayDeleteGroup
<1>1. /\ UNCHANGED <<dialect, org, pool, torn, home, scope, key, by, once, uses, slipped>> /\ heard' \subseteq Vpcs
      /\ Bury(xs) /\ Finish(r)
      /\ group' = [a \in Agents |-> IF Live(a) /\ group[a] = r.id /\ home[a] = Home(r.id)
                                      THEN None ELSE group[a]]
  BY DEF DeleteGroupCommit, NotifyGroupChange, rest
<1>2. /\ IsFiniteSet(req') /\ Cardinality(req') <= MaxRequests /\ calls' \in 0 .. MaxCalls
      /\ OneCreator' /\ req' = req \ {r}
  BY <1>1, Over
<1>3. /\ st' \in [Rows -> {"new", "live", "dead", "purged"}]
      /\ \A y \in Rows : (Live(y)' <=> Live(y) /\ y \notin xs) /\ (Written(y)' <=> Written(y))
  BY <1>0, <1>1, Buried
<1>4. \A a \in Agents : group'[a] \in {group[a], None}
  BY <1>1
<1>5. TypeOK'
  <2>1. group' \in [Agents -> AllGroups \cup {None}]
    BY <1>0, <1>1 DEF TypeOK
  <2> QED
    BY <1>0, <1>1, <1>2, <1>3, <2>1 DEF TypeOK
<1>6. /\ \A b \in Boxes : b \notin xs
      /\ \A v \in Vpcs : DefaultGroup(v) \notin xs /\ v \notin xs
      /\ None \notin xs
  BY <1>0, Tables DEF Contents
<1>7. Serializable => \A a \in Agents, g \in xs : Live(a) => group'[a] # g
  BY <1>0, <1>4, <1>6
<1>8. \A v : (Leaving(v) => Leaving(v)') /\ (Moving(v) => Moving(v)')
  BY <1>0, <1>1, <1>2 DEF Leaving, Moving
<1>9. \A v \in Private : v \notin xs
  BY <1>6, Tables
<1> HIDE DEF xs
<1> QED
  BY <1>1, <1>2, <1>3, <1>4, <1>5, <1>6, <1>7, <1>8, <1>9, BuryInv

\* DeleteRegKey, DeleteDevice, DeleteSite and the garbage collector: each one statement.
LEMMA DeletesInv ==
  ASSUME IInv,
         \/ \E k \in RegKeys : DeleteRegKey(k)
         \/ \E a \in Agents : DeleteAgent(a)
         \/ \E x \in Rows : GarbageCollect(x)
  PROVE  IInv'
<1>0. TypeOK /\ IsFiniteSet(req) /\ OneCreator /\ Cardinality(req) <= MaxRequests
  BY DEF IInv, Requests, TypeOK
<1>1. /\ Call /\ UNCHANGED <<dialect, org, pool, torn, home, scope, group, by, once, req, slipped>>
      /\ uses' = uses \/ \E x \in Rows : Uses(IF x \in Agents THEN by[x] ELSE None, -1)
      /\ heard' = {}
  BY DEF DeleteRegKey, DeleteAgent, GarbageCollect, Quiet, rest
<1>2. calls' \in 0 .. MaxCalls
  BY <1>0, <1>1, VpcsAssumption DEF Call, TypeOK
<1>3. key' \in [Agents -> Keys \cup {None}]
  BY <1>0 DEF DeleteRegKey, DeleteAgent, GarbageCollect, TypeOK
<1>4. PICK xs \in SUBSET (Agents \cup RegKeys) :
        /\ st' \in [Rows -> {"new", "live", "dead", "purged"}]
        /\ \A y \in Rows : (Live(y)' <=> Live(y) /\ y \notin xs) /\ (Written(y)' <=> Written(y))
  <2>1. ASSUME NEW x \in Agents \cup RegKeys, Bury({x})
        PROVE  \E xs \in SUBSET (Agents \cup RegKeys) :
                 /\ st' \in [Rows -> {"new", "live", "dead", "purged"}]
                 /\ \A y \in Rows : (Live(y)' <=> Live(y) /\ y \notin xs) /\ (Written(y)' <=> Written(y))
    <3> WITNESS {x} \in SUBSET (Agents \cup RegKeys)
    <3> QED
      BY <1>0, <2>1, Buried
  <2>2. ASSUME NEW x \in Rows, GarbageCollect(x)
        PROVE  \E xs \in SUBSET (Agents \cup RegKeys) :
                 /\ st' \in [Rows -> {"new", "live", "dead", "purged"}]
                 /\ \A y \in Rows : (Live(y)' <=> Live(y) /\ y \notin xs) /\ (Written(y)' <=> Written(y))
    <3> WITNESS {} \in SUBSET (Agents \cup RegKeys)
    <3>1. st[x] = "dead" /\ st' = [st EXCEPT ![x] = "purged"]
      BY <2>2 DEF GarbageCollect
    <3> QED
      BY <1>0, <3>1 DEF TypeOK, Live, Written
  <2> QED
    BY <2>1, <2>2 DEF DeleteRegKey, DeleteAgent
<1>u. uses' \in [RegKeys -> Int]
  BY <1>0, <1>1 DEF TypeOK, Uses
<1>5. TypeOK'
  BY <1>0, <1>1, <1>2, <1>3, <1>4, <1>u DEF TypeOK
<1>6. /\ \A b \in Boxes : b \notin xs
      /\ \A g \in AllGroups : g \notin xs
      /\ \A v \in Vpcs : DefaultGroup(v) \notin xs /\ v \notin xs
      /\ \A v \in Private : v \notin xs
  BY Tables DEF Contents
<1>7. OneCreator' /\ \A v : (Leaving(v) => Leaving(v)') /\ (Moving(v) => Moving(v)')
  BY <1>0, <1>1 DEF OneCreator, Leaving, Moving
<1>8. IsFiniteSet(req') /\ req' = req
  BY <1>0, <1>1
<1> QED
  BY <1>1, <1>4, <1>5, <1>6, <1>7, <1>8, BuryInv

\* A request that ends early leaves a note of what it has done.
LEMMA AbortInv ==
  ASSUME IInv, NEW r \in req, Abort(r)
  PROVE  IInv'
<1>0. TypeOK /\ Request(r)
  BY DEF IInv, Requests
<1>1. /\ UNCHANGED <<dialect, org, st, home, scope, group, key, by, once, uses, pool, slipped>> /\ heard' = {}
      /\ Finish(r)
      /\ torn' = IF \/ r.op = "deleteBox" /\ r.box \in Vpcs /\ r.pc \in {"row", "v4", "v6"}
                    \/ r.op = "createVpc" /\ r.box \in Private
                   THEN torn \cup {r.box} ELSE torn
  BY DEF Abort, Quiet, rows
<1>2. /\ IsFiniteSet(req') /\ Cardinality(req') <= MaxRequests /\ calls' \in 0 .. MaxCalls
      /\ OneCreator' /\ req' = req \ {r}
  BY <1>1, Over
<1>3. torn \subseteq torn' /\ torn' \subseteq Vpcs
  BY <1>0, <1>1, Tables DEF TypeOK
<1>4. TypeOK'
  BY <1>0, <1>1, <1>2, <1>3 DEF TypeOK
<1>5. \A v \in Vpcs : Leaving(v) => Leaving(v)'
  BY <1>1, <1>2, <1>3 DEF Leaving
<1>6. \A v \in Private : Moving(v) => Moving(v)' \/ v \in torn'
  BY <1>1, <1>2, <1>3, Tables DEF Moving
<1>7. \A y \in Rows : (Live(y)' <=> Live(y) /\ y \notin {}) /\ (Written(y)' <=> Written(y))
  BY <1>1 DEF Live, Written
<1> QED
  BY <1>1, <1>2, <1>3, <1>4, <1>5, <1>6, <1>7, BuryInv

-----------------------------------------------------------------------------
\* A step that takes or releases prefixes for the request r.
LEMMA PoolInv ==
  ASSUME IInv, NEW r \in req,
         UNCHANGED <<dialect, st, home, scope, group, by, once, torn, slipped>>, TypeOK',
         IsFiniteSet(req'), OneCreator', \A q \in req' : q \in req \ {r} \/ Request(q)',
         \A q \in req \ {r} :
           /\ q.op = "createVpc" => \A w : <<q.box, w>> \in pool => <<q.box, w>> \in pool'
           /\ q.op = "deleteBox" /\ <<q.box, "v4">> \notin pool => <<q.box, "v4">> \notin pool',
         \A v : Leaving(v) => Leaving(v)',
         PrefixesHeld'
  PROVE  IInv'
<1>1. /\ Serializable' = Serializable
      /\ \A x : /\ (Live(x)' <=> Live(x)) /\ (Written(x)' <=> Written(x))
                /\ Home(x)' = Home(x) /\ Homes(x)' = Homes(x)
  BY HomesKept DEF Serializable, Live, Written
<1>2. Requests'
  <2> SUFFICES ASSUME NEW q \in req \ {r} PROVE Request(q)'
    BY DEF Requests
  <2>0. Request(q)
    BY DEF IInv, Requests
  <2>1. q.op = "createVpc" => ~ Written(q.box)
    BY <2>0 DEF Request, CreatingVpc
  <2>2. q.op = "createKey" => ~ Written(q.id)
    BY <2>0 DEF Request
  <2> QED
    BY <1>1, <2>1, <2>2, RequestKept
<1>3. References' /\ KeyOfItsAgent' /\ NothingOutlivesItsBox'
  BY DEF IInv, References, KeyOfItsAgent, OfKey, NothingOutlivesItsBox, Written, Live, Home, Homes
<1>4. GroupsHeld'
  <2>1. \A v : Leaving(v) => Leaving(v)'
    OBVIOUS
  <2> HIDE DEF Leaving
  <2> QED
    BY <1>1, <2>1 DEF IInv, GroupsHeld, Live, Home, Leaving
<1> QED
  BY <1>2, <1>3, <1>4 DEF IInv

\* DeleteVPC releases a prefix of a VPC that is gone.
LEMMA DeletePrefixInv ==
  ASSUME IInv, NEW r \in req, DeletePrefix(r)
  PROVE  IInv'
<1>0. /\ TypeOK /\ r.op = "deleteBox" /\ r.pc \in {"v4", "v6"} /\ DeletingBox(r)
      /\ r \in DeleteBoxRequest /\ r.box \in Private /\ Written(r.box)
      /\ Serializable => ~ Live(r.box)
  BY DEF IInv, Requests, Request, DeletePrefix, DeletingBox
<1>1. /\ UNCHANGED <<dialect, org, st, home, scope, group, key, by, once, uses, torn, slipped>> /\ heard' = {}
      /\ pool' = pool \ {<<r.box, r.pc>>}
      /\ (r.pc = "v4" /\ Go(r, "v6")) \/ (r.pc = "v6" /\ Finish(r))
  BY <1>0 DEF DeletePrefix, Released, Quiet, rows
<1>2. /\ IsFiniteSet(req') /\ Cardinality(req') <= MaxRequests /\ calls' \in 0 .. MaxCalls
      /\ OneCreator' /\ \A x \in req : x = r \/ x \in req'
  BY <1>0, <1>1, WentOn, Over
<1>3. TypeOK'
  BY <1>0, <1>1, <1>2 DEF TypeOK
<1>4. \A x \in req' : x \in req \ {r} \/ Request(x)'
  <2>1. CASE Finish(r)
    BY <2>1, Over
  <2>2. CASE r.pc = "v4" /\ Go(r, "v6")
    <3>1. PICK q \in req' :
            /\ q \in DeleteBoxRequest /\ q.op = "deleteBox" /\ q.box = r.box /\ q.pc = "v6"
            /\ \A x \in req' : x = q \/ x \in req
      BY <1>0, <2>2, WentOn
    <3>2. <<q.box, "v4">> \notin pool'
      BY <1>1, <2>2, <3>1
    <3>3. DeletingBox(q)'
      BY <1>0, <1>1, <3>1, <3>2 DEF DeletingBox, Written, Live, Home, Homes, Serializable
    <3>4. Request(q)'
      BY <3>1, <3>3 DEF Request
    <3>5. r \notin req'
      <4>1. [r EXCEPT !.pc = "v6"].pc = "v6"
        BY <1>0 DEF DeleteBoxRequest
      <4>2. r # [r EXCEPT !.pc = "v6"]
        BY <2>2, <4>1
      <4> QED
        BY <2>2, <4>2 DEF Go
    <3> QED
      BY <3>1, <3>4, <3>5
  <2> QED
    BY <1>1, <2>1, <2>2
<1>5. \A q \in req \ {r} :
        /\ q.op = "createVpc" => \A w : <<q.box, w>> \in pool => <<q.box, w>> \in pool'
        /\ q.op = "deleteBox" /\ <<q.box, "v4">> \notin pool => <<q.box, "v4">> \notin pool'
  <2>1. \A q \in req : q.op = "createVpc" => ~ Written(q.box)
    BY DEF IInv, Requests, Request, CreatingVpc
  <2> QED
    BY <1>0, <1>1, <2>1
<1>6. \A v : Leaving(v) => Leaving(v)'
  BY <1>0, <1>1, <1>2 DEF Leaving
<1>7. PrefixesHeld'
  <2> SUFFICES ASSUME Serializable, NEW v \in Private
               PROVE  /\ Live(v) => Prefixes(v) \subseteq pool'
                      /\ Prefixes(v) \cap pool' # {} => Live(v) \/ v \in torn \/ Moving(v)'
    BY <1>1 DEF PrefixesHeld, Prefixes, Live, Serializable
  <2>0. /\ Live(v) => Prefixes(v) \subseteq pool
        /\ Prefixes(v) \cap pool # {} => Live(v) \/ v \in torn \/ Moving(v)
    BY DEF IInv, PrefixesHeld
  <2>1. CASE v # r.box
    <3>1. Moving(v) => Moving(v)'
      BY <1>2, <2>1 DEF Moving
    <3>2. \A w : <<v, w>> \in pool' <=> <<v, w>> \in pool
      BY <1>1, <2>1
    <3>3. Prefixes(v) \subseteq pool => Prefixes(v) \subseteq pool'
      BY <3>2 DEF Prefixes
    <3>4. Prefixes(v) \cap pool' # {} => Prefixes(v) \cap pool # {}
      BY <1>1
    <3> QED
      BY <2>0, <3>1, <3>3, <3>4
  <2>2. CASE v = r.box /\ r.pc = "v4"
    <3>1. Moving(v)'
      <4>1. \E q \in req' : q.op = "deleteBox" /\ q.box = r.box /\ q.pc = "v6"
        BY <1>0, <1>1, <2>2, WentOn
      <4> QED
        BY <2>2, <4>1 DEF Moving
    <3> QED
      BY <1>0, <2>2, <3>1
  <2>3. CASE v = r.box /\ r.pc = "v6"
    <3>1. <<v, "v4">> \notin pool' /\ <<v, "v6">> \notin pool'
      BY <1>0, <1>1, <2>3 DEF DeletingBox
    <3>2. Prefixes(v) \cap pool' = {}
      BY <3>1 DEF Prefixes
    <3> QED
      BY <1>0, <2>3, <3>2
  <2> QED
    BY <1>0, <2>1, <2>2, <2>3
<1> QED
  BY <1>1, <1>2, <1>3, <1>4, <1>5, <1>6, <1>7, PoolInv

\* CreateVPC takes a prefix for a VPC that is not there yet.
LEMMA CreateVpcPrefixInv ==
  ASSUME IInv, NEW r \in req, CreateVpcPrefix(r)
  PROVE  IInv'
<1>0. /\ TypeOK /\ OneCreator /\ r.op = "createVpc" /\ r.pc \in {"v4", "v6"} /\ CreatingVpc(r)
      /\ r \in CreateVpcRequest /\ r.box \in Private /\ ~ Written(r.box)
  BY DEF IInv, Requests, Request, CreateVpcPrefix, CreatingVpc
<1>1. /\ UNCHANGED <<dialect, org, st, home, scope, group, key, by, once, uses, torn, slipped>> /\ heard' = {}
      /\ pool' = pool \cup {<<r.box, r.pc>>}
      /\ Go(r, IF r.pc = "v4" THEN "v6" ELSE "row")
  BY <1>0 DEF CreateVpcPrefix, Quiet, rows
<1> DEFINE n == [r EXCEPT !.pc = IF r.pc = "v4" THEN "v6" ELSE "row"]
<1>2. /\ n \in CreateVpcRequest /\ n.op = "createVpc" /\ n.box = r.box
      /\ n.pc = IF r.pc = "v4" THEN "v6" ELSE "row"
  BY <1>0 DEF CreateVpcRequest
<1>3. req' = (req \ {r}) \cup {n} /\ calls' = calls
  BY <1>1 DEF Go
<1> HIDE DEF n
<1>4. /\ IsFiniteSet(req') /\ Cardinality(req') <= MaxRequests /\ calls' \in 0 .. MaxCalls
      /\ OneCreator'
  BY <1>0, <1>2, <1>3, Replaced DEF OneCreator
<1>5. TypeOK'
  <2>1. pool' \subseteq Private \X {"v4", "v6"}
    BY <1>0, <1>1 DEF TypeOK
  <2> QED
    BY <1>0, <1>1, <1>4, <2>1 DEF TypeOK
<1>6. \A x \in req' : x \in req \ {r} \/ Request(x)'
  <2>1. CreatingVpc(n)'
    BY <1>0, <1>1, <1>2 DEF CreatingVpc, Written
  <2>2. Request(n)'
    BY <1>2, <2>1 DEF Request
  <2> QED
    BY <1>3, <2>2
<1>7. \A q \in req \ {r} :
        /\ q.op = "createVpc" => \A w : <<q.box, w>> \in pool => <<q.box, w>> \in pool'
        /\ q.op = "deleteBox" /\ <<q.box, "v4">> \notin pool => <<q.box, "v4">> \notin pool'
  <2>1. \A q \in req : q.op = "deleteBox" => Written(q.box)
    BY DEF IInv, Requests, Request, DeletingBox
  <2> QED
    BY <1>0, <1>1, <2>1
<1>8. \A v : Leaving(v) => Leaving(v)'
  BY <1>0, <1>1, <1>3 DEF Leaving
<1>9. PrefixesHeld'
  <2> SUFFICES ASSUME Serializable, NEW v \in Private
               PROVE  /\ Live(v) => Prefixes(v) \subseteq pool'
                      /\ Prefixes(v) \cap pool' # {} => Live(v) \/ v \in torn \/ Moving(v)'
    BY <1>1 DEF PrefixesHeld, Prefixes, Live, Serializable
  <2>0. /\ Live(v) => Prefixes(v) \subseteq pool
        /\ Prefixes(v) \cap pool # {} => Live(v) \/ v \in torn \/ Moving(v)
    BY DEF IInv, PrefixesHeld
  <2>1. Moving(r.box)' /\ (Moving(v) => Moving(v)')
    BY <1>0, <1>2, <1>3 DEF Moving
  <2>2. v # r.box => (Prefixes(v) \cap pool' # {} => Prefixes(v) \cap pool # {})
    BY <1>1 DEF Prefixes
  <2> QED
    BY <1>1, <2>0, <2>1, <2>2
<1> QED
  BY <1>1, <1>4, <1>5, <1>6, <1>7, <1>8, <1>9, PoolInv

-----------------------------------------------------------------------------
\* A step that writes the box b, a new VPC with its default group, or saves it.
LEMMA BoxInv ==
  ASSUME IInv, NEW b \in Boxes, NEW xs,
         xs = {b} \/ (b \in Vpcs /\ xs = {b, DefaultGroup(b)}),
         \A y \in Rows : /\ Live(y)' <=> Live(y) \/ y \in xs
                         /\ Written(y)' <=> Written(y) \/ y \in xs,
         Written(b) => xs = {b},
         ~ Written(b) /\ b \in Vpcs => xs = {b, DefaultGroup(b)},
         Serializable => Live(b) \/ (~ Written(b) /\ (b \in Private => Prefixes(b) \subseteq pool)),
         UNCHANGED <<dialect, home, scope, group, by, once, slipped, pool, torn>>, TypeOK',
         IsFiniteSet(req'), req' \subseteq req,
         \A q \in req' : q.op = "createVpc" => q.box # b,
         \A v : Leaving(v) => Leaving(v)',
         \A v : v # b /\ Moving(v) => Moving(v)'
  PROVE  IInv'
<1>0. TypeOK /\ References
  BY DEF IInv
<1>1. Serializable' = Serializable /\ \A x : Home(x)' = Home(x) /\ Homes(x)' = Homes(x)
  BY HomesKept DEF Serializable
<1>2. /\ \A y \in Contents : (y \in xs => /\ y = DefaultGroup(b) /\ b \in Vpcs /\ ~ Written(y)
                                         /\ Home(y) = b /\ Homes(y) = {b})
      /\ \A y \in Boxes : y \in xs <=> y = b
      /\ \A y \in Agents \cup RegKeys : y \notin xs
      /\ b \in Rows
  <2>1. b \notin Contents
    BY Tables
  <2>2. b \in Vpcs => /\ Home(DefaultGroup(b)) = b /\ Homes(DefaultGroup(b)) = {b}
                      /\ DefaultGroup(b) \notin Boxes
                      /\ DefaultGroup(b) \notin Agents \cup RegKeys
                      /\ ~ Written(b) => ~ Written(DefaultGroup(b))
    BY <1>0, HomeIs, Tables DEF Contents, References
  <2> QED
    BY <2>1, <2>2, Tables DEF Contents
<1>3. Requests'
  <2>1. OneCreator'
    BY DEF IInv, Requests, OneCreator
  <2> SUFFICES ASSUME NEW q \in req' PROVE Request(q)'
    BY <2>1 DEF Requests
  <2>0. Request(q) /\ q \in req
    BY DEF IInv, Requests
  <2>2. q.op = "createVpc" => ~ Written(q.box)'
    BY <1>2, <2>0, Tables DEF Request, CreatingVpc, CreateVpcRequest
  <2>3. q.op = "createKey" => ~ Written(q.id)'
    BY <1>2, <2>0, Tables DEF Request, Contents
  <2>4. q.op = "deleteBox" =>
          /\ Serializable /\ ~ Live(q.box) => ~ Live(q.box)'
          /\ \A y \in Contents : Live(y)' /\ q.box \in Homes(y)' =>
               y \in slipped' \/ (Live(y) /\ q.box \in Homes(y) /\ y \notin slipped)
    <3> SUFFICES ASSUME q.op = "deleteBox"
                 PROVE  /\ Serializable /\ ~ Live(q.box) => ~ Live(q.box)'
                        /\ \A y \in Contents : Live(y)' /\ q.box \in Homes(y)' =>
                             y \in slipped' \/ (Live(y) /\ q.box \in Homes(y) /\ y \notin slipped)
      OBVIOUS
    <3>1. q.box \in Boxes /\ q.box \in Rows /\ Written(q.box)
      BY <2>0, Tables DEF Request, DeletingBox, DeleteBoxRequest
    <3>2. Serializable /\ ~ Live(q.box) => ~ Live(q.box)'
      BY <1>2, <3>1
    <3>3. ASSUME NEW y \in Contents, Live(y)', q.box \in Homes(y)'
          PROVE  Live(y) /\ q.box \in Homes(y)
      <4>1. q.box \in Homes(y)
        BY <1>1, <3>3
      <4>2. y \notin xs
        BY <1>2, <3>1, <4>1
      <4> QED
        BY <3>3, <4>1, <4>2, Tables
    <3> QED
      BY <3>2, <3>3
  <2>5. \A a \in Agents : Live(a)' /\ home'[a] \in Vpcs =>
          a \in slipped' \/ (Live(a) /\ home[a] \in Vpcs /\ a \notin slipped)
    BY <1>2, Tables DEF Contents
  <2> QED
    BY <2>0, <2>2, <2>3, <2>4, <2>5, RequestKept
<1>4. References'
  <2>1. \A v \in Vpcs : Written(v)' <=> Written(DefaultGroup(v))'
    <3> SUFFICES ASSUME NEW v \in Vpcs PROVE Written(v)' <=> Written(DefaultGroup(v))'
      OBVIOUS
    <3>1. /\ v \in Boxes /\ v \in Rows /\ DefaultGroup(v) \in Contents /\ DefaultGroup(v) \in Rows
          /\ Written(v) <=> Written(DefaultGroup(v))
          /\ b \in Vpcs /\ DefaultGroup(v) = DefaultGroup(b) => v = b
      BY <1>0, Tables DEF References, Contents
    <3>2. v # b => DefaultGroup(v) \notin xs
      BY <1>2, <3>1
    <3>3. CASE v = b
      <4>1. Written(b) => Written(DefaultGroup(b))'
        BY <3>1, <3>3
      <4>2. ~ Written(b) => DefaultGroup(b) \in xs
        BY <3>3
      <4> QED
        BY <1>2, <3>1, <3>3, <4>1, <4>2
    <3> QED
      BY <1>2, <3>1, <3>2, <3>3
  <2>2. ASSUME NEW y \in Contents, Written(y)', NEW h \in Homes(y)' PROVE h \in Boxes /\ Written(h)'
    <3>1. (Written(y) \/ y \in xs) /\ h \in Homes(y)
      BY <1>1, <2>2, Tables
    <3>2. h \in Boxes /\ (Written(h) \/ h = b)
      BY <1>0, <1>2, <3>1 DEF References
    <3> QED
      BY <1>2, <3>2, Tables
  <2>4. \A g \in AllGroups : Written(g)' => Home(g)' \in Vpcs
    BY <1>0, <1>1, <1>2, Tables DEF References, Contents
  <2>3. \A a \in Agents : group'[a] # None => Written(group[a])'
    <3> SUFFICES ASSUME NEW a \in Agents, group'[a] # None PROVE Written(group[a])'
      OBVIOUS
    <3>1. PICK g : g = group'[a]
      OBVIOUS
    <3>2. g = group[a] /\ g \in AllGroups /\ Written(g)
      BY <1>0, <3>1 DEF References, TypeOK
    <3>3. Written(g)'
      BY <3>2, Tables DEF Contents
    <3> QED
      BY <3>1, <3>3 DEF Written
  <2> QED
    BY <2>1, <2>2, <2>3, <2>4 DEF References
<1>5. KeyOfItsAgent'
  <2> SUFFICES ASSUME NEW a \in Agents, by[a] # None PROVE OfKey(a, by[a])'
    BY DEF KeyOfItsAgent
  <2>1. PICK k : k = by[a]
    OBVIOUS
  <2>2. k \in RegKeys /\ OfKey(a, k)
    BY <1>0, <2>1 DEF IInv, KeyOfItsAgent, TypeOK
  <2>3. OfKey(a, k)'
    BY <2>2, Tables DEF Contents, OfKey
  <2> QED
    BY <2>1, <2>3 DEF OfKey, Written
<1>6. NothingOutlivesItsBox'
  <2> SUFFICES ASSUME NEW y \in Contents, Live(y)', NEW h \in Homes(y)', ~ Live(h)' PROVE y \in slipped
    BY DEF NothingOutlivesItsBox, Contents
  <2>1. h \in Homes(y)
    BY <1>1
  <2>2. ~ Live(h)'
    OBVIOUS
  <2>3. y \notin xs
    BY <1>2, <2>1, <2>2
  <2>4. Live(y)
    BY <2>3, Tables
  <2>5. h \in Rows
    BY <1>0, <2>1, <2>4, LiveIsWritten, Tables DEF References
  <2> QED
    BY <2>1, <2>2, <2>4, <2>5 DEF IInv, NothingOutlivesItsBox, Contents
<1>7. GroupsHeld'
  <2>1. ASSUME Serializable, NEW v \in Vpcs, Live(v)', ~ Live(DefaultGroup(v))' PROVE Leaving(v)'
    <3>1. v \in Rows /\ v \in Boxes /\ DefaultGroup(v) \in Rows
      BY Tables DEF Contents
    <3>2. Live(v) /\ ~ Live(DefaultGroup(v))
      BY <1>2, <2>1, <3>1
    <3> QED
      BY <2>1, <3>2 DEF IInv, GroupsHeld
  <2>2. ASSUME Serializable, NEW a \in Agents, Live(a)', group'[a] # None, ~ Live(group[a])'
        PROVE  ~ Live(Home(group[a]))' \/ Leaving(Home(group[a]))'
    <3>1. PICK g : g = group'[a]
      OBVIOUS
    <3>2. PICK h : h = Home(g)
      OBVIOUS
    <3>3. /\ g = group[a] /\ g \in AllGroups /\ g \in Rows /\ Written(g) /\ Live(a)
          /\ Home(group[a])' = h
      <4>1. g = group[a] /\ g \in AllGroups /\ Written(g)
        BY <1>0, <2>2, <3>1 DEF TypeOK, References
      <4>2. Home(group[a])' = h
        BY <1>1, <3>2, <4>1 DEF Home
      <4>3. g \in Rows /\ Live(a)
        BY <1>2, <2>2, <4>1, Tables DEF Contents
      <4> QED
        BY <4>1, <4>2, <4>3
    <3>4. h \in Vpcs /\ h \in Boxes /\ h \in Rows /\ Written(h)
      BY <1>0, <3>2, <3>3, HomeIs, Tables DEF References, Contents
    <3>5. ~ Live(g)
      <4>1. ~ Live(g)'
        BY <2>2, <3>1 DEF Live
      <4> QED
        BY <3>3, <4>1
    <3>6. ~ Live(h) \/ Leaving(h)
      BY <2>2, <3>1, <3>2, <3>3, <3>5 DEF IInv, GroupsHeld
    <3>7. ~ Live(h)' \/ Leaving(h)'
      BY <1>2, <2>2, <3>4, <3>6
    <3> QED
      BY <3>3, <3>7 DEF Live, Leaving
  <2> QED
    BY <1>1, <2>1, <2>2 DEF GroupsHeld
<1>8. PrefixesHeld'
  <2> SUFFICES ASSUME Serializable, NEW v \in Private
               PROVE  /\ Live(v)' => Prefixes(v) \subseteq pool
                      /\ Prefixes(v) \cap pool # {} => Live(v)' \/ v \in torn' \/ Moving(v)'
    BY <1>1 DEF PrefixesHeld, Prefixes
  <2>1. /\ Live(v) => Prefixes(v) \subseteq pool
        /\ Prefixes(v) \cap pool # {} => Live(v) \/ v \in torn \/ Moving(v)
    BY DEF IInv, PrefixesHeld
  <2>2. v \in Rows /\ v \in Boxes
    BY Tables
  <2> QED
    BY <1>2, <2>1, <2>2
<1> QED
  BY <1>3, <1>4, <1>5, <1>6, <1>7, <1>8 DEF IInv

\* CreateVPC commits the VPC with its default security group.
LEMMA CreateVpcInv ==
  ASSUME IInv, NEW r \in req, CreateVpcCommit(r)
  PROVE  IInv'
<1> DEFINE b == r.box
           xs == {b, DefaultGroup(b)}
<1>0. /\ TypeOK /\ OneCreator /\ r.op = "createVpc" /\ r.pc = "row" /\ CreatingVpc(r)
      /\ b \in Vpcs /\ ~ Written(b)
      /\ b \in Private => <<b, "v4">> \in pool /\ <<b, "v6">> \in pool
  BY DEF IInv, Requests, Request, CreateVpcCommit, CreatingVpc, CreateVpcRequest
<1>1. /\ UNCHANGED <<dialect, org, home, scope, group, key, by, once, uses, pool, torn, slipped>> /\ heard' = {}
      /\ st' = [st EXCEPT ![b] = "live", ![DefaultGroup(b)] = "live"] /\ Finish(r)
  BY DEF CreateVpcCommit, Quiet, rest
<1>2. /\ IsFiniteSet(req') /\ Cardinality(req') <= MaxRequests /\ calls' \in 0 .. MaxCalls
      /\ OneCreator' /\ req' = req \ {r}
  BY <1>1, Over
<1>3. b \in Boxes /\ b \in Rows /\ DefaultGroup(b) \in Rows
  BY <1>0, Tables DEF Contents
<1>4. /\ st' \in [Rows -> {"new", "live", "dead", "purged"}]
      /\ \A y \in Rows : st'[y] = IF y \in xs THEN "live" ELSE st[y]
  BY <1>0, <1>1, <1>3 DEF TypeOK
<1>5. TypeOK'
  BY <1>0, <1>1, <1>2, <1>4 DEF TypeOK
<1>6. \A y \in Rows : (Live(y)' <=> Live(y) \/ y \in xs) /\ (Written(y)' <=> Written(y) \/ y \in xs)
  BY <1>4 DEF Live, Written
<1>7. b \in Private => Prefixes(b) \subseteq pool
  BY <1>0 DEF Prefixes
<1>8. \A q \in req' : q.op = "createVpc" => q.box # b
  BY <1>0, <1>2 DEF OneCreator
<1>9. \A v : (Leaving(v) => Leaving(v)') /\ (v # b /\ Moving(v) => Moving(v)')
  BY <1>0, <1>1, <1>2 DEF Leaving, Moving
<1>10. req' \subseteq req
  BY <1>2
<1> QED
  BY <1>0, <1>1, <1>2, <1>3, <1>5, <1>6, <1>7, <1>8, <1>9, <1>10, BoxInv

\* UpdateVPC and UpdateServiceNetwork save the row they have read.
LEMMA UpdateBoxInv ==
  ASSUME IInv, NEW r \in req, UpdateBoxCommit(r)
  PROVE  IInv'
<1> DEFINE b == r.box
           xs == {b}
<1>0. /\ TypeOK /\ Request(r) /\ r.op = "updateBox" /\ b \in Boxes /\ Written(b)
      /\ Serializable => Live(b)
  BY DEF IInv, Requests, Request, UpdateBoxCommit, Saved
<1>1. /\ UNCHANGED <<dialect, org, home, scope, group, key, by, once, uses, pool, torn, slipped>> /\ heard' = {}
      /\ st' = [st EXCEPT ![b] = "live"] /\ Finish(r)
  BY DEF UpdateBoxCommit, Saved, Quiet, rest
<1>2. /\ IsFiniteSet(req') /\ Cardinality(req') <= MaxRequests /\ calls' \in 0 .. MaxCalls
      /\ OneCreator' /\ req' = req \ {r}
  BY <1>1, Over
<1>3. b \in Rows
  BY <1>0, Tables
<1>4. /\ st' \in [Rows -> {"new", "live", "dead", "purged"}]
      /\ \A y \in Rows : st'[y] = IF y \in xs THEN "live" ELSE st[y]
  BY <1>0, <1>1, <1>3 DEF TypeOK
<1>5. TypeOK'
  BY <1>0, <1>1, <1>2, <1>4 DEF TypeOK
<1>6. \A y \in Rows : (Live(y)' <=> Live(y) \/ y \in xs) /\ (Written(y)' <=> Written(y) \/ y \in xs)
  BY <1>4 DEF Live, Written
<1>7. \A q \in req' : q.op = "createVpc" => q.box # b
  BY <1>0, <1>2 DEF IInv, Requests, Request, CreatingVpc
<1>8. \A v : (Leaving(v) => Leaving(v)') /\ (v # b /\ Moving(v) => Moving(v)')
  BY <1>0, <1>1, <1>2 DEF Leaving, Moving
<1>9. req' \subseteq req
  BY <1>2
<1> QED
  BY <1>0, <1>1, <1>2, <1>5, <1>6, <1>7, <1>8, <1>9, BoxInv

\* CreateServiceNetwork, which reads nothing that it depends on.
LEMMA CreateServiceNetworkInv ==
  ASSUME IInv, NEW b \in Networks, CreateServiceNetwork(b)
  PROVE  IInv'
<1> DEFINE xs == {b}
<1>0. /\ TypeOK /\ Cardinality(req) <= MaxRequests /\ IsFiniteSet(req)
      /\ b \in Boxes /\ b \in Rows /\ b \notin Vpcs /\ b \notin Private /\ ~ Written(b)
  BY Tables DEF IInv, TypeOK, Requests, CreateServiceNetwork, Written, Boxes
<1>1. /\ UNCHANGED <<dialect, org, home, scope, group, key, by, once, uses, pool, torn, slipped, req>>
      /\ heard' = {} /\ st' = [st EXCEPT ![b] = "live"] /\ Call
  BY DEF CreateServiceNetwork, Quiet, rest
<1>2. calls' \in 0 .. MaxCalls
  BY <1>0, <1>1, VpcsAssumption DEF Call, TypeOK
<1>4. /\ st' \in [Rows -> {"new", "live", "dead", "purged"}]
      /\ \A y \in Rows : st'[y] = IF y \in xs THEN "live" ELSE st[y]
  BY <1>0, <1>1 DEF TypeOK
<1>5. TypeOK'
  BY <1>0, <1>1, <1>2, <1>4 DEF TypeOK
<1>6. \A y \in Rows : (Live(y)' <=> Live(y) \/ y \in xs) /\ (Written(y)' <=> Written(y) \/ y \in xs)
  BY <1>4 DEF Live, Written
<1>7. \A q \in req' : q.op = "createVpc" => q.box # b
  BY <1>0, <1>1 DEF IInv, Requests, Request, CreatingVpc, CreateVpcRequest
<1>8. \A v : (Leaving(v) => Leaving(v)') /\ (v # b /\ Moving(v) => Moving(v)')
  BY <1>1 DEF Leaving, Moving
<1>9. req' \subseteq req /\ IsFiniteSet(req')
  BY <1>0, <1>1
<1> QED
  BY <1>0, <1>1, <1>5, <1>6, <1>7, <1>8, <1>9, BoxInv

-----------------------------------------------------------------------------
\* Every step keeps the invariant.
LEMMA NextInv == IInv /\ [Next]_vars => IInv'
<1> SUFFICES ASSUME IInv, [Next]_vars PROVE IInv'
  OBVIOUS
<1>1. ASSUME NEW r \in req, Step(r) PROVE IInv'
  BY <1>1, CreateVpcPrefixInv, CreateVpcInv, UpdateBoxInv, DeleteCountInv, DeleteRegKeysInv,
     DeleteGroupsInv, DeleteRowInv, DeletePrefixInv, DeleteOrgInv, GroupCommitsInv, DeleteGroupInv,
     RegKeyCommitsInv, CreateAgentInv, UpdateAgentInv, AbortInv DEF Step
<1>2. ASSUME NEW n \in Networks, CreateServiceNetwork(n) PROVE IInv'
  BY <1>2, CreateServiceNetworkInv
<1>3. CASE UNCHANGED vars
  <2>0. PICK xs : xs = {}
    OBVIOUS
  <2>1. \A y \in Rows : (Live(y)' <=> Live(y) /\ y \notin xs) /\ (Written(y)' <=> Written(y))
    BY <1>3, <2>0 DEF Live, Written, vars
  <2>2. TypeOK'
    BY <1>3 DEF IInv, TypeOK, vars
  <2>3. IsFiniteSet(req') /\ OneCreator' /\ req' = req
    BY <1>3 DEF IInv, Requests, OneCreator, vars
  <2>4. \A v : (Leaving(v) => Leaving(v)') /\ (Moving(v) => Moving(v)')
    BY <1>3 DEF Leaving, Moving, vars
  <2>5. /\ UNCHANGED <<dialect, home, scope, by, once, slipped, pool>>
        /\ torn \subseteq torn' /\ group' = group
    BY <1>3 DEF vars
  <2> QED
    BY <2>0, <2>1, <2>2, <2>3, <2>4, <2>5, BuryInv
<1> QED
  BY <1>1, <1>2, <1>3, ReadersInv, DeletesInv DEF Next

\* Whatever the handlers do, and however their requests interleave, the invariant holds.
THEOREM Invariance == Spec => []IInv
<1> QED
  BY InitInv, NextInv, PTL DEF Spec

\* The types of the tables and of the requests' bounds.
THEOREM TypeCorrect == Spec => []TypeOK
<1>1. IInv => TypeOK
  BY DEF IInv
<1> QED
  BY <1>1, Invariance, PTL

\* What is live is in a box that is, unless it slipped in while its box was deleted.
THEOREM Outlives == Spec => []NothingOutlivesItsBox
<1>1. IInv => NothingOutlivesItsBox
  BY DEF IInv
<1> QED
  BY <1>1, Invariance, PTL

\* CockroachDB: the default group of a live VPC and the groups of live devices are there,
\* but for VPCs whose deletion is under way or was left half done.
THEOREM GroupsOfDevices == Spec => []GroupsThere
<1>1. IInv => GroupsThere
  <2>1. \A v : Leaving(v) => v \in torn \/ Ending(v)
    BY DEF Leaving, Ending
  <2>2. \A v : ~ Live(v) => Ending(v)
    BY DEF Ending
  <2> QED
    BY <2>1, <2>2 DEF IInv, GroupsHeld, GroupsThere
<1> QED
  BY <1>1, Invariance, PTL

\* CockroachDB: a private VPC holds its prefixes while it lives and no longer, but for
\* what a failed request or the end of the organization leaves.
THEOREM PrefixesFollow == Spec => []PrefixesOfVpcs
<1>1. IInv => PrefixesOfVpcs
  <2>1. \A v : Moving(v) => \E q \in req : q.op \in {"createVpc", "deleteBox"} /\ q.box = v
    BY DEF Moving
  <2> QED
    BY <2>1 DEF IInv, PrefixesHeld, PrefixesOfVpcs
<1> QED
  BY <1>1, Invariance, PTL

-----------------------------------------------------------------------------
\* What a single-use key has made that is not collected yet: at most one row in each
\* table, for its id is the key's.
Made(k, t) == \E a \in Agents : a[1] = t /\ by[a] = k /\ st[a] \in {"live", "dead"}
One(made) == IF made THEN 1 ELSE 0

\* The count of a key is the number of the rows it has made.
Counted ==
  \A k \in RegKeys :
    /\ ~ Written(k) => once[k] = None
    /\ uses[k] = IF once[k] = None THEN 0 ELSE One(Made(k, "device")) + One(Made(k, "site"))

\* An agent is known by its table and its id.
LEMMA AgentIs ==
  /\ \A a \in Agents : a[1] \in {"device", "site"}
  /\ \A a, b \in Agents : a[1] = b[1] /\ a[2] = b[2] => a = b
BY DEF Agents

LEMMA InitCounted == Init => Counted
<1> SUFFICES ASSUME Init, NEW k \in RegKeys PROVE once[k] = None /\ uses[k] = 0
  BY DEF Counted
<1> QED
  BY DEF Init

\* Steps that make or collect no agent.
NoAgentMade ==
  /\ UNCHANGED <<by, uses>>
  /\ \A a \in Agents : st'[a] \in {"live", "dead"} <=> st[a] \in {"live", "dead"}
  /\ \A k \in RegKeys : Written(k) => Written(k)' /\ once'[k] = once[k]
  /\ \A k \in RegKeys : ~ Written(k)' => once'[k] = once[k]

\* They keep the counts: a key that they write, if any, was behind no agent.
LEMMA CountsKept == ASSUME IInv, Counted, NoAgentMade PROVE Counted'
<1> SUFFICES ASSUME NEW k \in RegKeys
             PROVE  /\ ~ Written(k)' => once'[k] = None
                    /\ uses'[k] = IF once'[k] = None THEN 0
                                  ELSE One(Made(k, "device")') + One(Made(k, "site")')
  BY DEF Counted, One
<1>1. \A t : Made(k, t)' <=> Made(k, t)
  BY DEF Made, NoAgentMade
<1>2. CASE Written(k)
  BY <1>1, <1>2 DEF Counted, NoAgentMade, One
<1>3. CASE ~ Written(k)
  <2>1. k # None
    BY Tables DEF Contents
  <2>2. \A t : ~ Made(k, t)
    BY <1>3, <2>1 DEF IInv, KeyOfItsAgent, OfKey, Made
  <2>3. once[k] = None /\ uses[k] = 0
    BY <1>3 DEF Counted
  <2>4. ~ Written(k)' => once'[k] = None
    BY <2>3 DEF NoAgentMade
  <2>5. uses'[k] = 0 /\ One(Made(k, "device")') = 0 /\ One(Made(k, "site")') = 0
    BY <1>1, <2>2, <2>3 DEF NoAgentMade, One
  <2> QED
    BY <2>4, <2>5
<1> QED
  BY <1>2, <1>3

\* A handler up to its commit.
LEMMA StartMakesNone == ASSUME NEW r, Start(r) PROVE NoAgentMade
BY DEF Start, rows, NoAgentMade, Written

\* A deletion.
LEMMA BuryMakesNone ==
  ASSUME TypeOK, NEW xs, Bury(xs), UNCHANGED <<by, once, uses>>
  PROVE  NoAgentMade
<1>1. \A y \in Rows : st'[y] = IF y \in xs /\ Live(y) THEN "dead" ELSE st[y]
  BY DEF Bury
<1> QED
  BY <1>1, Tables DEF Live, Written, NoAgentMade, Contents

\* A row that is not an agent's, written or saved.
LEMMA SaveMakesNone ==
  ASSUME TypeOK, NEW x \in Rows \ Agents, st' = [st EXCEPT ![x] = "live"],
         UNCHANGED <<by, uses>>,
         \A k \in RegKeys : Written(k) \/ k # x => once'[k] = once[k]
  PROVE  NoAgentMade
<1>1. \A y \in Rows : st'[y] = IF y = x THEN "live" ELSE st[y]
  BY DEF TypeOK
<1> QED
  BY <1>1, Tables DEF Written, NoAgentMade, Contents

\* The commits that write or save rows of the other tables.
LEMMA CommitsMakeNone ==
  ASSUME IInv, NEW r \in req,
         \/ CreateVpcCommit(r) \/ UpdateBoxCommit(r) \/ CreateGroupCommit(r) \/ UpdateGroupCommit(r)
         \/ CreateRegKeyCommit(r) \/ UpdateRegKeyCommit(r)
  PROVE  NoAgentMade
<1>0. TypeOK /\ Request(r)
  BY DEF IInv, Requests
<1>1. CASE CreateVpcCommit(r)
  <2>1. /\ st' = [st EXCEPT ![r.box] = "live", ![DefaultGroup(r.box)] = "live"]
        /\ UNCHANGED <<by, once, uses>> /\ r.box \in Vpcs
    BY <1>0, <1>1 DEF CreateVpcCommit, Request, CreatingVpc, CreateVpcRequest
  <2>2. r.box \notin Agents /\ DefaultGroup(r.box) \notin Agents
    BY <2>1, Tables DEF Contents
  <2>3. \A y \in Rows : st'[y] \in {"live", st[y]} /\ (y \in Agents => st'[y] = st[y])
    BY <1>0, <2>1, <2>2 DEF TypeOK
  <2> QED
    BY <2>1, <2>3, Tables DEF Written, NoAgentMade, Contents
<1>2. CASE UpdateBoxCommit(r)
  <2>1. r.box \in Rows \ Agents
    BY <1>0, <1>2, Tables DEF UpdateBoxCommit, Request, Contents
  <2>2. st' = [st EXCEPT ![r.box] = "live"] /\ UNCHANGED <<by, once, uses>>
    BY <1>2 DEF UpdateBoxCommit, Saved
  <2> QED
    BY <1>0, <2>1, <2>2, SaveMakesNone
<1>3. CASE CreateGroupCommit(r) \/ UpdateGroupCommit(r)
  <2>1. r.id \in Rows \ Agents
    BY <1>0, <1>3, Tables DEF CreateGroupCommit, UpdateGroupCommit, Request, Contents
  <2>2. st' = [st EXCEPT ![r.id] = "live"] /\ UNCHANGED <<by, once, uses>>
    BY <1>3 DEF CreateGroupCommit, UpdateGroupCommit, Saved
  <2> QED
    BY <1>0, <2>1, <2>2, SaveMakesNone
<1>4. CASE CreateRegKeyCommit(r)
  <2>1. r.id \in Rows \ Agents /\ r.id \in RegKeys /\ ~ Written(r.id)
    BY <1>0, <1>4, Tables DEF CreateRegKeyCommit, Request, Contents
  <2>2. /\ st' = [st EXCEPT ![r.id] = "live"] /\ UNCHANGED <<by, uses>>
        /\ once' = [once EXCEPT ![r.id] = r.once]
    BY <1>4 DEF CreateRegKeyCommit
  <2>3. \A k \in RegKeys : Written(k) \/ k # r.id => once'[k] = once[k]
    BY <1>0, <2>1, <2>2 DEF TypeOK
  <2> QED
    BY <1>0, <2>1, <2>2, <2>3, SaveMakesNone
<1>5. CASE UpdateRegKeyCommit(r)
  <2>1. r.id \in Rows \ Agents
    BY <1>0, <1>5, Tables DEF UpdateRegKeyCommit, Request, Contents
  <2>2. st' = [st EXCEPT ![r.id] = "live"] /\ UNCHANGED <<by, once, uses>>
    BY <1>5 DEF UpdateRegKeyCommit, Saved
  <2> QED
    BY <1>0, <2>1, <2>2, SaveMakesNone
<1> QED
  BY <1>1, <1>2, <1>3, <1>4, <1>5

\* The statements that delete, and those that touch no row.
LEMMA DeletesMakeNone ==
  ASSUME IInv, NEW r \in req,
         \/ CreateVpcPrefix(r) \/ DeleteCount(r) \/ DeletePrefix(r) \/ Abort(r)
         \/ DeleteRegKeysOf(r) \/ DeleteGroupsOf(r) \/ DeleteRow(r)
         \/ DeleteOrgCommit(r) \/ DeleteGroupCommit(r)
  PROVE  NoAgentMade
<1>0. TypeOK
  BY DEF IInv
<1>1. CASE CreateVpcPrefix(r) \/ DeleteCount(r) \/ DeletePrefix(r) \/ Abort(r)
  <2>1. UNCHANGED <<st, by, once, uses>>
    BY <1>1 DEF CreateVpcPrefix, DeleteCount, DeletePrefix, Abort, rows
  <2> QED
    BY <2>1 DEF NoAgentMade, Written
<1>2. ASSUME NEW xs, Bury(xs), UNCHANGED <<by, once, uses>> PROVE NoAgentMade
  BY <1>0, <1>2, BuryMakesNone
<1>3. CASE DeleteRegKeysOf(r)
  BY <1>2, <1>3 DEF DeleteRegKeysOf
<1>4. CASE DeleteGroupsOf(r)
  BY <1>2, <1>4 DEF DeleteGroupsOf
<1>5. CASE DeleteRow(r)
  BY <1>2, <1>5 DEF DeleteRow
<1>6. CASE DeleteOrgCommit(r)
  BY <1>2, <1>6 DEF DeleteOrgCommit
<1>7. CASE DeleteGroupCommit(r)
  BY <1>2, <1>7 DEF DeleteGroupCommit
<1> QED
  BY <1>1, <1>3, <1>4, <1>5, <1>6, <1>7

\* One row more, or one less, of the key that is behind the agent a.
LEMMA CountMoves ==
  ASSUME IInv, Counted, once' = once, NEW a \in Agents, NEW k \in RegKeys \cup {None},
         NEW n \in Int, Uses(k, n), by'[a] = k, \A o \in Agents \ {a} : by'[o] = by[o],
         k # None => OfKey(a, k),
         \A o \in Agents \ {a} : st'[o] = st[o],
         \A x \in RegKeys : Written(x)' <=> Written(x),
         by[a] = k \/ st[a] \notin {"live", "dead"},
         n = One(st'[a] \in {"live", "dead"}) - One(st[a] \in {"live", "dead"})
  PROVE  Counted'
<1>0. TypeOK /\ KeyOfItsAgent
  BY DEF IInv
<1> SUFFICES ASSUME NEW x \in RegKeys
             PROVE  /\ ~ Written(x)' => once[x] = None
                    /\ uses'[x] = IF once[x] = None THEN 0
                                  ELSE One(Made(x, "device")') + One(Made(x, "site")')
  BY DEF Counted, One
<1>1. /\ ~ Written(x) => once[x] = None
      /\ uses[x] = IF once[x] = None THEN 0 ELSE One(Made(x, "device")) + One(Made(x, "site"))
  BY DEF Counted
<1>2. CASE x # k
  <2>1. \A t : Made(x, t)' <=> Made(x, t)
    BY <1>2 DEF Made
  <2>2. uses'[x] = uses[x]
    BY <1>0, <1>2 DEF Uses, TypeOK
  <2> QED
    BY <1>1, <2>1, <2>2 DEF One
<1>3. CASE x = k /\ once[k] = None
  BY <1>1, <1>3 DEF Uses, SingleUse
<1>4. CASE x = k /\ once[k] # None
  <2>0. k # None /\ k \in RegKeys
    BY <1>4, Tables DEF Contents
  <2>1. a[2] = once[k] /\ a[1] \in {"device", "site"}
    BY <1>4, <2>0, AgentIs DEF OfKey
  <2>2. \A o \in Agents : by[o] = k /\ o[1] = a[1] => o = a
    BY <1>0, <1>4, <2>0, <2>1, AgentIs DEF KeyOfItsAgent, OfKey
  <2>3. Made(k, a[1]) <=> st[a] \in {"live", "dead"} /\ by[a] = k
    BY <2>2 DEF Made
  <2>4. Made(k, a[1])' <=> st'[a] \in {"live", "dead"}
    <3>1. \A o \in Agents \ {a} : ~ (by'[o] = k /\ o[1] = a[1])
      BY <2>2
    <3> QED
      BY <3>1 DEF Made
  <2>5. \A t : t # a[1] => (Made(k, t)' <=> Made(k, t))
    BY DEF Made
  <2>6. uses'[k] = uses[k] + n
    BY <1>0, <1>4, <2>0 DEF Uses, SingleUse, TypeOK
  <2>7. One(Made(k, a[1])') = One(Made(k, a[1])) + n
    BY <2>3, <2>4 DEF One
  <2>8. CASE a[1] = "device"
    <3>1. One(Made(k, "site")') = One(Made(k, "site"))
      BY <2>5, <2>8 DEF One
    <3> QED
      BY <1>1, <1>4, <2>6, <2>7, <2>8, <3>1 DEF One
  <2>9. CASE a[1] = "site"
    <3>1. One(Made(k, "device")') = One(Made(k, "device"))
      BY <2>5, <2>9 DEF One
    <3> QED
      BY <1>1, <1>4, <2>6, <2>7, <2>9, <3>1 DEF One
  <2> QED
    BY <2>1, <2>8, <2>9
<1> QED
  BY <1>2, <1>3, <1>4

\* CreateDevice and CreateSite: the id was not there, so the key has made none of the
\* table, or what it has made is collected.
LEMMA CreateCounted ==
  ASSUME IInv, Counted, NEW r \in req, CreateAgentCommit(r)
  PROVE  Counted'
<1> DEFINE a == r.agent
           k == r.by
<1>0. TypeOK /\ CreatingAgent(r)
  BY DEF IInv, Requests, Request, CreateAgentCommit
<1>1. /\ a \in Agents /\ k \in RegKeys \cup {None} /\ (k # None => OfKey(a, k))
      /\ a \in Rows /\ a \notin RegKeys
  BY <1>0, Tables DEF CreatingAgent, Contents
<1>2. /\ st' = [st EXCEPT ![a] = "live"] /\ by' = [by EXCEPT ![a] = k] /\ once' = once
      /\ Uses(k, 1) /\ st[a] \in {"new", "purged"}
  BY DEF CreateAgentCommit, Insertable
<1> HIDE DEF a, k
<1>3. /\ by'[a] = k /\ \A o \in Agents \ {a} : by'[o] = by[o]
      /\ st'[a] = "live" /\ \A y \in Rows \ {a} : st'[y] = st[y]
  BY <1>0, <1>1, <1>2 DEF TypeOK
<1>4. 1 = One(st'[a] \in {"live", "dead"}) - One(st[a] \in {"live", "dead"})
  BY <1>2, <1>3 DEF One
<1>5. \A o \in Agents \ {a} : st'[o] = st[o]
  BY <1>3, Tables DEF Contents
<1>6. \A x \in RegKeys : Written(x)' <=> Written(x)
  BY <1>1, <1>3, Tables DEF Contents, Written
<1>7. by[a] = k \/ st[a] \notin {"live", "dead"}
  BY <1>2
<1> QED
  BY <1>1, <1>2, <1>3, <1>4, <1>5, <1>6, <1>7, CountMoves

\* UpdateDevice and UpdateSite: a row that was collected comes back.
LEMMA UpdateCounted ==
  ASSUME IInv, Counted, NEW r \in req, UpdateAgentCommit(r)
  PROVE  Counted'
<1>0. TypeOK /\ KeyOfItsAgent /\ Request(r) /\ r.op = "updateAgent"
  BY DEF IInv, Requests, UpdateAgentCommit
<1>p. PICK a, k, n : a = r.agent /\ k = by[a] /\ n = IF st[a] = "purged" THEN 1 ELSE 0
  OBVIOUS
<1>1. a \in Agents /\ Written(a) /\ a \in Rows /\ a \notin RegKeys /\ n \in Int
  BY <1>0, <1>p, Tables DEF Request, Contents
<1>2. /\ st' = [st EXCEPT ![a] = "live"] /\ by' = by /\ once' = once
      /\ Uses(by[a], IF st[a] = "purged" THEN 1 ELSE 0)
  BY <1>p DEF UpdateAgentCommit
<1>3. /\ k \in RegKeys \cup {None} /\ (k # None => OfKey(a, k)) /\ Uses(k, n) /\ by'[a] = k
  BY <1>0, <1>1, <1>2, <1>p DEF TypeOK, KeyOfItsAgent
<1>4. st'[a] = "live" /\ \A y \in Rows \ {a} : st'[y] = st[y]
  BY <1>0, <1>1, <1>2 DEF TypeOK
<1>5. n = One(st'[a] \in {"live", "dead"}) - One(st[a] \in {"live", "dead"})
  BY <1>0, <1>1, <1>4, <1>p DEF One, Written, TypeOK
<1>6. \A o \in Agents \ {a} : st'[o] = st[o]
  BY <1>4, Tables DEF Contents
<1>7. \A x \in RegKeys : Written(x)' <=> Written(x)
  BY <1>1, <1>4, Tables DEF Contents, Written
<1>8. by[a] = k /\ \A o \in Agents \ {a} : by'[o] = by[o]
  BY <1>2, <1>p
<1> QED
  BY <1>1, <1>2, <1>3, <1>5, <1>6, <1>7, <1>8, CountMoves

\* The garbage collector: of a device's key the count goes down.
LEMMA CollectCounted ==
  ASSUME IInv, Counted, NEW x \in Rows, GarbageCollect(x)
  PROVE  Counted'
<1>0. TypeOK /\ KeyOfItsAgent
  BY DEF IInv
<1>1. /\ st[x] = "dead" /\ st' = [st EXCEPT ![x] = "purged"] /\ by' = by /\ once' = once
      /\ Uses(IF x \in Agents THEN by[x] ELSE None, -1)
  BY DEF GarbageCollect
<1>2. \A y \in Rows : st'[y] = IF y = x THEN "purged" ELSE st[y]
  BY <1>0, <1>1 DEF TypeOK
<1>3. \A k \in RegKeys : Written(k)' <=> Written(k)
  BY <1>1, <1>2, Tables DEF Written, Contents
<1>4. CASE x \notin Agents
  <2>1. uses' = uses
    BY <1>1, <1>4 DEF Uses, SingleUse
  <2>2. \A a \in Agents : st'[a] = st[a]
    BY <1>2, <1>4, Tables DEF Contents
  <2>3. NoAgentMade
    BY <1>1, <1>3, <2>1, <2>2 DEF NoAgentMade
  <2> QED
    BY <2>3, CountsKept
<1>5. CASE x \in Agents
  <2>1. PICK k : k = by[x]
    OBVIOUS
  <2>2. PICK n \in Int : n = -1
    OBVIOUS
  <2>3. k \in RegKeys \cup {None} /\ (k # None => OfKey(x, k)) /\ Uses(k, n) /\ by'[x] = k
    BY <1>0, <1>1, <1>5, <2>1, <2>2 DEF TypeOK, KeyOfItsAgent
  <2>4. n = One(st'[x] \in {"live", "dead"}) - One(st[x] \in {"live", "dead"})
    BY <1>1, <1>2, <2>2 DEF One
  <2>5. \A o \in Agents \ {x} : st'[o] = st[o] /\ by'[o] = by[o]
    BY <1>1, <1>2, Tables DEF Contents
  <2> QED
    BY <1>1, <1>3, <1>5, <2>1, <2>3, <2>4, <2>5, CountMoves
<1> QED
  BY <1>4, <1>5

\* Every step keeps the counts.
LEMMA NextCounted == IInv /\ Counted /\ [Next]_vars => Counted'
<1> SUFFICES ASSUME IInv, Counted, [Next]_vars PROVE Counted'
  OBVIOUS
<1>0. TypeOK
  BY DEF IInv
<1>1. ASSUME NEW r \in req, Step(r) PROVE Counted'
  BY <1>1, CreateCounted, UpdateCounted, CommitsMakeNone, DeletesMakeNone, CountsKept DEF Step
<1>2. ASSUME NEW x \in Rows, GarbageCollect(x) PROVE Counted'
  BY <1>2, CollectCounted
<1>3. ASSUME NEW r, Start(r) PROVE Counted'
  BY <1>3, StartMakesNone, CountsKept
<1>4. ASSUME NEW xs, Bury(xs), UNCHANGED <<by, once, uses>> PROVE Counted'
  BY <1>0, <1>4, BuryMakesNone, CountsKept
<1>5. ASSUME NEW n \in Networks, CreateServiceNetwork(n) PROVE Counted'
  <2>1. n \in Rows \ Agents /\ st' = [st EXCEPT ![n] = "live"] /\ UNCHANGED <<by, once, uses>>
    BY <1>5, Tables DEF CreateServiceNetwork, Boxes, Contents
  <2> QED
    BY <1>0, <2>1, SaveMakesNone, CountsKept
<1>6. ASSUME NEW k \in RegKeys, DeleteRegKey(k) PROVE Counted'
  BY <1>4, <1>6 DEF DeleteRegKey
<1>7. ASSUME NEW a \in Agents, DeleteAgent(a) PROVE Counted'
  BY <1>4, <1>7 DEF DeleteAgent
<1>8. CASE \/ \E v \in Vpcs : CreateVpc(v)
           \/ \E b \in Boxes : UpdateBox(b) \/ DeleteBox(b)
           \/ DeleteOrg
           \/ \E g \in Groups, v \in Vpcs : CreateGroup(g, v)
           \/ \E g \in AllGroups : UpdateGroup(g) \/ DeleteGroup(g)
           \/ \E k \in RegKeys : UpdateRegKey(k)
  BY <1>3, <1>8 DEF CreateVpc, UpdateBox, DeleteBox, DeleteOrg, CreateGroup, UpdateGroup,
     DeleteGroup, UpdateRegKey
<1>9. CASE \/ \E k \in RegKeys, bs \in Scopes, i \in Ids \cup {None} : CreateRegKey(k, bs, i)
           \/ \E i \in Ids, b \in Boxes, pk \in Keys, k \in RegKeys \cup {None} : CreateAgent(i, b, pk, k)
           \/ \E a \in Agents, b \in Boxes, g \in AllGroups \cup {None} : UpdateAgent(a, b, g)
  BY <1>3, <1>9 DEF CreateRegKey, CreateAgent, UpdateAgent
<1>10. CASE UNCHANGED vars
  <2>1. NoAgentMade
    BY <1>10 DEF vars, NoAgentMade, Written
  <2> QED
    BY <2>1, CountsKept
<1> QED
  BY <1>1, <1>2, <1>5, <1>6, <1>7, <1>8, <1>9, <1>10 DEF Next

\* Whatever the handlers do, a single-use registration key makes one device, or one site,
\* or, when it was made with a VPC and a service network, one of each, until the garbage
\* collector has taken what it has made.
THEOREM OnceEach == Spec => []SingleUseOnce
<1>1. IInv /\ Counted => SingleUseOnce
  <2> SUFFICES ASSUME IInv, Counted, NEW k \in RegKeys PROVE uses[k] <= Cardinality(scope[k])
    BY DEF SingleUseOnce
  <2>0. /\ uses[k] = IF once[k] = None THEN 0 ELSE One(Made(k, "device")) + One(Made(k, "site"))
        /\ scope[k] \in Scopes \cup {{}} /\ k # None
    BY Tables DEF Counted, IInv, TypeOK, Contents
  <2>1. ASSUME NEW t, Made(k, t) PROVE \E b \in scope[k] : Table(b) = t
    BY <2>0, <2>1 DEF Made, IInv, KeyOfItsAgent, OfKey
  <2>2. CASE scope[k] = {}
    <3>1. ~ Made(k, "device") /\ ~ Made(k, "site")
      BY <2>1, <2>2
    <3>2. Cardinality(scope[k]) = 0
      BY <2>2, FS_EmptySet
    <3> QED
      BY <2>0, <3>1, <3>2 DEF One
  <2>3. CASE \E b \in Boxes : scope[k] = {b}
    <3>1. PICK b \in Boxes : scope[k] = {b}
      BY <2>3
    <3>2. ~ (Made(k, "device") /\ Made(k, "site"))
      BY <2>1, <3>1
    <3>3. Cardinality(scope[k]) = 1
      BY <3>1, FS_Singleton
    <3> QED
      BY <2>0, <3>2, <3>3 DEF One
  <2>4. CASE \E v \in Vpcs, n \in Networks : scope[k] = {v, n}
    <3>1. PICK v \in Vpcs, n \in Networks : scope[k] = {v, n}
      BY <2>4
    <3>2. PICK S : S = {v}
      OBVIOUS
    <3>3. IsFiniteSet(S) /\ Cardinality(S) = 1 /\ n \notin S /\ scope[k] = S \cup {n}
      <4>1. IsFiniteSet({v}) /\ Cardinality({v}) = 1
        BY FS_Singleton
      <4>2. n # v
        BY Tables
      <4>3. {v, n} = {v} \cup {n}
        OBVIOUS
      <4> QED
        BY <3>1, <3>2, <4>1, <4>2, <4>3
    <3>4. Cardinality(S \cup {n}) = Cardinality(S) + 1
      BY <3>3, FS_AddElement
    <3>5. Cardinality(scope[k]) = 2
      BY <3>3, <3>4
    <3>6. uses[k] <= 2
      BY <2>0 DEF One
    <3> QED
      BY <3>5, <3>6
  <2> QED
    BY <2>0, <2>2, <2>3, <2>4 DEF Scopes
<1> QED
  BY <1>1, InitInv, NextInv, InitCounted, NextCounted, PTL DEF Spec
==============================================================================
