-------------------------------- MODULE Vpcs --------------------------------
(***************************************************************************)
(* What lives in an organization: VPCs with their devices, service         *)
(* networks with their sites, security groups and registration keys        *)
(* (internal/handlers/{vpc,service_network,device,site,security_group,     *)
(* reg_key,gc}.go).  A VPC or a service network is a box, a device or a    *)
(* site an agent: a row of the table of devices or of that of sites, with  *)
(* its id.                                                                 *)
(*                                                                         *)
(* The handlers that use api.transaction read, then commit: CockroachDB    *)
(* commits only on what still holds, PostgreSQL's read committed on what   *)
(* was seen.  DeleteVPC and DeleteServiceNetwork use no transaction, each  *)
(* statement of theirs is a step.  A request may fail at any step.         *)
(*                                                                         *)
(* gorm's Save updates the row that is not deleted and, when there is      *)
(* none, inserts it with ON CONFLICT DO UPDATE of every column: a row that *)
(* was deleted since it was read is there again.                           *)
(*                                                                         *)
(* The caller owns the organization.  A device's addresses are DeviceIpam, *)
(* members and owners are Accounts.                                        *)
(***************************************************************************)
EXTENDS Integers, FiniteSets

CONSTANTS
  Vpcs, Networks,   \* VPCs and service networks
  Default,          \* the VPC with the id of its organization
  Private,          \* the VPCs with a CIDR, and so an IPAM namespace, of their own
  Ids, Keys,        \* ids of devices and sites, and their public keys
  RegKeys, Groups,  \* registration keys, security groups but the default ones
  None,
  Dialects,         \* a subset of {"postgres", "cockroach"}
  MaxRequests,      \* bound on the requests in flight
  MaxCalls          \* bound on the calls of a behaviour

Boxes == Vpcs \cup Networks
Agents == {"device", "site"} \X Ids
Table(b) == IF b \in Vpcs THEN "device" ELSE "site"
\* A VPC's default security group has the VPC's id.
DefaultGroup(v) == <<"default", v>>
AllGroups == Groups \cup {DefaultGroup(v) : v \in Vpcs}
Rows == Boxes \cup Agents \cup RegKeys \cup AllGroups

ASSUME VpcsAssumption ==
  /\ Default \in Vpcs /\ Private \subseteq Vpcs \ {Default}
  /\ Dialects \subseteq {"postgres", "cockroach"}
  /\ MaxRequests \in Nat /\ MaxCalls \in Nat

\* Rows of different tables are different rows, and none of them is None.
ASSUME TablesAssumption ==
  /\ Vpcs \cap Networks = {} /\ Agents \cap RegKeys = {}
  /\ Boxes \cap (Agents \cup RegKeys \cup AllGroups) = {}
  /\ AllGroups \cap (Agents \cup RegKeys) = {}
  /\ Groups \cap {DefaultGroup(v) : v \in Vpcs} = {}
  /\ None \notin Rows \cup Keys

VARIABLES
  dialect,  \* the database in use
  org,      \* whether the organization is there
  st,       \* the state of each row: "new", "live", "dead" (deleted_at set) or
            \* "purged"
  home,     \* the box of an agent or a group
  scope,    \* the boxes a registration key lets into: a VPC, a service network
            \* or one of each
  group,    \* an agent's security group
  key,      \* an agent's public key
  by,       \* the registration key that made an agent
  once,     \* the id a single-use registration key gives to its agent
  uses,     \* how many agents a single-use key made that are not collected yet
  pool,     \* the prefixes that private VPCs hold in IPAM
  req,      \* the requests in flight
  slipped,  \* rows written to a box while it was being deleted, or after
  torn,     \* VPCs left with a part created or deleted
  heard,    \* the VPCs whose security group watches the last step woke up
  calls     \* how many calls there were

rows == <<st, home, scope, group, key, by, once, uses>>
rest == <<dialect, org, pool, torn>>
vars == <<dialect, org, st, home, scope, group, key, by, once, uses, pool, req,
          slipped, torn, heard, calls>>

Live(x)  == st[x] = "live"
Home(x)  == IF x \in Groups \cup Agents THEN home[x] ELSE x[2]
Homes(x) == IF x \in RegKeys THEN scope[x] ELSE {Home(x)}
Prefixes(v) == {v} \X {"v4", "v6"}

Init ==
  /\ dialect \in Dialects /\ org = TRUE
  /\ \E there \in SUBSET Boxes :
       /\ Default \in there
       /\ st = [x \in Rows |-> IF \/ x \in there
                                  \/ \E v \in there \cap Vpcs : x = DefaultGroup(v)
                                 THEN "live" ELSE "new"]
       /\ pool = UNION {Prefixes(v) : v \in there \cap Private}
  /\ home = [x \in Agents \cup Groups |-> None] /\ scope = [k \in RegKeys |-> {}]
  /\ group = [a \in Agents |-> None] /\ key = [a \in Agents |-> None]
  /\ by = [a \in Agents |-> None] /\ once = [k \in RegKeys |-> None]
  /\ uses = [k \in RegKeys |-> 0]
  /\ req = {} /\ slipped = {} /\ torn = {} /\ heard = {} /\ calls = 0

-----------------------------------------------------------------------------
Serializable == dialect = "cockroach"
Members(b) == {a \in Agents : Live(a) /\ home[a] = b}

Call     == calls < MaxCalls /\ calls' = calls + 1
Start(r) == /\ Call /\ Cardinality(req) < MaxRequests
            /\ req' = req \cup {r} /\ heard' = {}
            /\ UNCHANGED <<rows, rest, slipped>>
Go(r, pc) == req' = (req \ {r}) \cup {[r EXCEPT !.pc = pc]} /\ UNCHANGED calls
Finish(r) == req' = req \ {r} /\ UNCHANGED calls
Quiet     == heard' = {}

\* b is going away, or gone.
Ending(b) == \/ ~ Live(b)
             \/ \E q \in req : q.op = "deleteBox" /\ q.box = b /\ q.pc # "count"
             \/ ~ Serializable /\ \E q \in req : q.op = "deleteOrg"
Slip(x, bs) == slipped' = IF \E b \in bs : Ending(b) THEN slipped \cup {x}
                                                     ELSE slipped \ {x}

-----------------------------------------------------------------------------
\* VPCs and service networks.

CreateVpc(v) ==
  /\ org /\ st[v] = "new" /\ ~ \E q \in req : q.op = "createVpc" /\ q.box = v
  /\ Start([op |-> "createVpc", box |-> v, pc |-> IF v \in Private THEN "v4" ELSE "row"])

\* The prefixes are taken inside of the transaction; a rollback keeps them.
CreateVpcPrefix(r) ==
  /\ r.op = "createVpc" /\ r.pc \in {"v4", "v6"}
  /\ pool' = pool \cup {<<r.box, r.pc>>}
  /\ Go(r, IF r.pc = "v4" THEN "v6" ELSE "row")
  /\ Quiet /\ UNCHANGED <<rows, dialect, org, torn, slipped>>

CreateVpcCommit(r) ==
  /\ r.op = "createVpc" /\ r.pc = "row"
  /\ Serializable => org
  /\ st' = [st EXCEPT ![r.box] = "live", ![DefaultGroup(r.box)] = "live"]
  /\ Finish(r) /\ Quiet
  /\ UNCHANGED <<home, scope, group, key, by, once, uses, rest, slipped>>

CreateServiceNetwork(n) ==
  /\ Call /\ org /\ st[n] = "new"
  /\ st' = [st EXCEPT ![n] = "live"]
  /\ Quiet /\ UNCHANGED <<home, scope, group, key, by, once, uses, rest, req, slipped>>

\* What Save leaves a row that was read live: live, on PostgreSQL whatever
\* became of it since.
Saved(x) == /\ Serializable => Live(x)
            /\ st' = [st EXCEPT ![x] = "live"]

UpdateBox(b) ==
  /\ Live(b) /\ Start([op |-> "updateBox", box |-> b])

UpdateBoxCommit(r) ==
  /\ r.op = "updateBox" /\ Saved(r.box)
  /\ Finish(r) /\ Quiet
  /\ UNCHANGED <<home, scope, group, key, by, once, uses, rest, slipped>>

DeleteBox(b) ==
  /\ Live(b) /\ b # Default /\ Start([op |-> "deleteBox", box |-> b, pc |-> "count"])

\* A DeleteVPC that finds devices, a DeleteServiceNetwork that finds sites, ends.
CountSkipped(r) == Go(r, "keys")
Count(r) == IF Members(r.box) = {} THEN Go(r, "keys") ELSE Finish(r)

DeleteCount(r) ==
  /\ r.op = "deleteBox" /\ r.pc = "count"
  /\ Count(r)
  /\ Quiet /\ UNCHANGED <<rows, rest, slipped>>

Bury(xs) == st' = [x \in Rows |-> IF x \in xs /\ Live(x) THEN "dead" ELSE st[x]]

DeleteRegKeysOf(r) ==
  /\ r.op = "deleteBox" /\ r.pc = "keys"
  /\ Bury({k \in RegKeys : r.box \in scope[k]})
  /\ Go(r, IF r.box \in Vpcs THEN "groups" ELSE "row")
  /\ Quiet /\ UNCHANGED <<home, scope, group, key, by, once, uses, rest, slipped>>

DeleteGroupsOf(r) ==
  /\ r.op = "deleteBox" /\ r.pc = "groups"
  /\ Bury({g \in AllGroups : Home(g) = r.box})
  /\ Go(r, "row")
  /\ Quiet /\ UNCHANGED <<home, scope, group, key, by, once, uses, rest, slipped>>

DeleteRow(r) ==
  /\ r.op = "deleteBox" /\ r.pc = "row"
  /\ Bury({r.box})
  /\ IF r.box \in Private THEN Go(r, "v4") ELSE Finish(r)
  /\ Quiet /\ UNCHANGED <<home, scope, group, key, by, once, uses, rest, slipped>>

ReleasedV4(r) == IF r.pc = "v4" THEN {<<r.box, "v4">>} ELSE {}
Released(r) == {<<r.box, r.pc>>}

DeletePrefix(r) ==
  /\ r.op = "deleteBox" /\ r.pc \in {"v4", "v6"} /\ <<r.box, r.pc>> \in pool
  /\ pool' = pool \ Released(r)
  /\ IF r.pc = "v4" THEN Go(r, "v6") ELSE Finish(r)
  /\ Quiet /\ UNCHANGED <<rows, dialect, org, torn, slipped>>

\* deleteOrganization, from DeleteOrganization and DeleteUser: it asks for no
\* devices, ends everything of the VPCs but their prefixes, and leaves the
\* service networks and their sites.
MayDeleteOrg == org /\ \A v \in Vpcs : Members(v) = {}
DeleteOrg == MayDeleteOrg /\ Start([op |-> "deleteOrg"])

DeleteOrgCommit(r) ==
  /\ r.op = "deleteOrg" /\ (Serializable => MayDeleteOrg)
  /\ org' = FALSE
  /\ torn' = torn \cup {v \in Private : Live(v)}
  /\ Bury(Vpcs \cup AllGroups \cup {k \in RegKeys : scope[k] \cap Vpcs # {}})
  /\ Finish(r) /\ Quiet
  /\ UNCHANGED <<dialect, pool, home, scope, group, key, by, once, uses, slipped>>

-----------------------------------------------------------------------------
\* Security groups.  notifySecurityGroupChange takes an organization and is
\* given a VPC: only the default VPC has the id of an organization, whose
\* VPCs are then all notified.
NotifyGroupChange(v) == heard' = IF v = Default THEN {w \in Vpcs : Live(w)} ELSE {}

CreateGroup(g, v) ==
  /\ Live(v) /\ st[g] = "new" /\ ~ \E q \in req : q.op = "createGroup" /\ q.id = g
  /\ Start([op |-> "createGroup", id |-> g, box |-> v])

CreateGroupCommit(r) ==
  /\ r.op = "createGroup" /\ (Serializable => Live(r.box))
  /\ st' = [st EXCEPT ![r.id] = "live"] /\ home' = [home EXCEPT ![r.id] = r.box]
  /\ Slip(r.id, {r.box})
  /\ NotifyGroupChange(r.box) /\ Finish(r)
  /\ UNCHANGED <<scope, group, key, by, once, uses, rest>>

UpdateGroup(g) == Live(g) /\ Start([op |-> "updateGroup", id |-> g])

UpdateGroupCommit(r) ==
  /\ r.op = "updateGroup" /\ Saved(r.id)
  /\ Slip(r.id, {Home(r.id)})
  /\ NotifyGroupChange(Home(r.id)) /\ Finish(r)
  /\ UNCHANGED <<home, scope, group, key, by, once, uses, rest>>

MayDeleteUsed(g) == g \in Groups /\ Live(g)
MayDeleteGroup(g) == g \in Groups /\ Live(g) /\ ~ \E a \in Agents : Live(a) /\ group[a] = g

DeleteGroup(g) == MayDeleteGroup(g) /\ Start([op |-> "deleteGroup", id |-> g])

DeleteGroupCommit(r) ==
  /\ r.op = "deleteGroup" /\ (Serializable => MayDeleteGroup(r.id))
  /\ Bury({r.id})
  /\ group' = [a \in Agents |-> IF Live(a) /\ group[a] = r.id /\ home[a] = Home(r.id)
                                  THEN None ELSE group[a]]
  /\ NotifyGroupChange(Home(r.id)) /\ Finish(r)
  /\ UNCHANGED <<home, scope, key, by, once, uses, rest, slipped>>

-----------------------------------------------------------------------------
\* Registration keys.  A single-use key is made with the id of its agent.

\* A fresh id is in neither table, and nobody is given it twice.
Unclaimed(i) ==
  /\ \A t \in {"device", "site"} : st[<<t, i>>] = "new"
  /\ \A k \in RegKeys : once[k] # i
  /\ ~ \E q \in req : \/ q.op = "createKey" /\ q.once = i
                      \/ q.op = "createAgent" /\ q.agent[2] = i

\* What a key may let into: at least one of a VPC and a service network.
Scopes == {{b} : b \in Boxes} \cup {{v, n} : v \in Vpcs, n \in Networks}

CreateRegKey(k, bs, i) ==
  /\ \A b \in bs : Live(b)
  /\ st[k] = "new" /\ ~ \E q \in req : q.op = "createKey" /\ q.id = k
  /\ i # None => Unclaimed(i)
  /\ Start([op |-> "createKey", id |-> k, boxes |-> bs, once |-> i])

CreateRegKeyCommit(r) ==
  /\ r.op = "createKey" /\ (Serializable => \A b \in r.boxes : Live(b))
  /\ st' = [st EXCEPT ![r.id] = "live"]
  /\ scope' = [scope EXCEPT ![r.id] = r.boxes] /\ once' = [once EXCEPT ![r.id] = r.once]
  /\ Slip(r.id, r.boxes)
  /\ Finish(r) /\ Quiet /\ UNCHANGED <<home, group, key, by, uses, rest>>

UpdateRegKey(k) == Live(k) /\ Start([op |-> "updateKey", id |-> k])

UpdateRegKeyCommit(r) ==
  /\ r.op = "updateKey" /\ Saved(r.id)
  /\ Slip(r.id, scope[r.id])
  /\ Finish(r) /\ Quiet /\ UNCHANGED <<home, scope, group, key, by, once, uses, rest>>

DeleteRegKey(k) ==
  /\ Call /\ Live(k) /\ Bury({k})
  /\ Quiet /\ UNCHANGED <<home, scope, group, key, by, once, uses, rest, req, slipped>>

-----------------------------------------------------------------------------
\* Devices and sites.

\* The id of the agent: a single-use key's, else a fresh one.
SingleUse(k) == k # None /\ once[k] # None
AlwaysFresh(k, i) == Unclaimed(i)
AgentId(k, i) == IF SingleUse(k) THEN i = once[k] ELSE Unclaimed(i)

Others(a) == {o \in Agents \ {a} : o[1] = a[1]}

\* Each handler looks into its own table only, and at what is not deleted there.
MayCreate(r) ==
  /\ Live(r.box)
  /\ \A a \in Agents : Live(a) /\ a[1] = r.agent[1] => key[a] # r.key
  /\ SingleUse(r.by) => ~ Live(r.agent)
  /\ r.by # None => r.box \in scope[r.by]

\* The registration key was turned into a token (checkRegistrationToken)
\* before the handler ran.
CreateAgent(i, b, pk, k) ==
  LET r == [op |-> "createAgent", agent |-> <<Table(b), i>>, box |-> b, key |-> pk, by |-> k]
  IN  /\ k # None => Live(k)
      /\ AgentId(k, i) /\ MayCreate(r) /\ Start(r)

\* A request's security group is not looked at.
FirstGroupAny(b) == DefaultGroup(b)
FirstGroup(b) == IF b \in Vpcs THEN DefaultGroup(b) ELSE None

\* The primary key and the unique index on public_key look at deleted rows too.
Insertable(a, pk) == /\ st[a] \in {"new", "purged"}
                     /\ \A o \in Others(a) : st[o] # "purged" => key[o] # pk

\* One more row, or one less, that the key k has made.
Uses(k, n) == uses' = IF SingleUse(k) THEN [uses EXCEPT ![k] = @ + n] ELSE uses

CreateAgentCommit(r) ==
  /\ r.op = "createAgent" /\ (Serializable => MayCreate(r)) /\ Insertable(r.agent, r.key)
  /\ st' = [st EXCEPT ![r.agent] = "live"]
  /\ home' = [home EXCEPT ![r.agent] = r.box]
  /\ group' = [group EXCEPT ![r.agent] = FirstGroup(r.box)]
  /\ key' = [key EXCEPT ![r.agent] = r.key]
  /\ by' = [by EXCEPT ![r.agent] = r.by]
  /\ Uses(r.by, 1)
  /\ Slip(r.agent, {r.box})
  /\ Finish(r) /\ Quiet /\ UNCHANGED <<scope, once, rest>>

\* A device may move to another VPC, but not to the default one, and to any
\* group of the organization.  A site keeps its service network.
UpdateAgent(a, b, g) ==
  /\ Live(a) /\ Live(home[a])
  /\ \/ b = home[a]
     \/ b \in Vpcs \ {Default} /\ home[a] \in Vpcs /\ Live(b)
  /\ g # group[a] => home[a] \in Vpcs /\ g # None /\ Live(g)
  /\ Start([op |-> "updateAgent", agent |-> a, box |-> b, group |-> g,
            row |-> <<home[a], group[a], key[a]>>])

UpdateAgentCommit(r) ==
  LET a == r.agent IN
  /\ r.op = "updateAgent"
  /\ Serializable => /\ Live(a) /\ Live(home[a]) /\ Live(r.box)
                     /\ <<home[a], group[a], key[a]>> = r.row
                     /\ r.group # group[a] => Live(r.group)
  /\ \A o \in Others(a) : st[o] # "purged" => key[o] # r.row[3]
  /\ st' = [st EXCEPT ![a] = "live"]
  /\ home' = [home EXCEPT ![a] = r.box]
  /\ group' = [group EXCEPT ![a] = r.group]
  /\ key' = [key EXCEPT ![a] = r.row[3]]
  /\ Uses(by[a], IF st[a] = "purged" THEN 1 ELSE 0)
  /\ Slip(a, {r.box})
  /\ Finish(r) /\ Quiet /\ UNCHANGED <<scope, by, once, rest>>

\* The unique columns are nulled, for a new agent to have the same values.
DeleteAgent(a) ==
  /\ Call /\ Live(a)
  /\ Bury({a}) /\ key' = [key EXCEPT ![a] = None]
  /\ Quiet /\ UNCHANGED <<home, scope, group, by, once, uses, rest, req, slipped>>

-----------------------------------------------------------------------------
\* Sites and service networks are never collected.
GarbageCollect(x) ==
  /\ Call /\ st[x] = "dead"
  /\ x \notin Networks /\ (x \in Agents => x[1] = "device")
  /\ st' = [st EXCEPT ![x] = "purged"]
  /\ Uses(IF x \in Agents THEN by[x] ELSE None, -1)
  /\ Quiet /\ UNCHANGED <<home, scope, group, key, by, once, rest, req, slipped>>

\* A request ends early; of a VPC it leaves what it did outside of a
\* transaction.
Abort(r) ==
  /\ Finish(r) /\ Quiet
  /\ torn' = IF \/ r.op = "deleteBox" /\ r.box \in Vpcs /\ r.pc \in {"row", "v4", "v6"}
                \/ r.op = "createVpc" /\ r.box \in Private
               THEN torn \cup {r.box} ELSE torn
  /\ UNCHANGED <<rows, dialect, org, pool, slipped>>

Step(r) ==
  \/ CreateVpcPrefix(r) \/ CreateVpcCommit(r) \/ UpdateBoxCommit(r)
  \/ DeleteCount(r) \/ DeleteRegKeysOf(r) \/ DeleteGroupsOf(r) \/ DeleteRow(r)
  \/ DeletePrefix(r) \/ DeleteOrgCommit(r)
  \/ CreateGroupCommit(r) \/ UpdateGroupCommit(r) \/ DeleteGroupCommit(r)
  \/ CreateRegKeyCommit(r) \/ UpdateRegKeyCommit(r)
  \/ CreateAgentCommit(r) \/ UpdateAgentCommit(r) \/ Abort(r)

Next ==
  \/ \E v \in Vpcs : CreateVpc(v)
  \/ \E n \in Networks : CreateServiceNetwork(n)
  \/ \E b \in Boxes : UpdateBox(b) \/ DeleteBox(b)
  \/ DeleteOrg
  \/ \E g \in Groups, v \in Vpcs : CreateGroup(g, v)
  \/ \E g \in AllGroups : UpdateGroup(g) \/ DeleteGroup(g)
  \/ \E k \in RegKeys : UpdateRegKey(k) \/ DeleteRegKey(k)
  \/ \E k \in RegKeys, bs \in Scopes, i \in Ids \cup {None} : CreateRegKey(k, bs, i)
  \/ \E i \in Ids, b \in Boxes, pk \in Keys, k \in RegKeys \cup {None} : CreateAgent(i, b, pk, k)
  \/ \E a \in Agents, b \in Boxes, g \in AllGroups \cup {None} : UpdateAgent(a, b, g)
  \/ \E a \in Agents : DeleteAgent(a)
  \/ \E x \in Rows : GarbageCollect(x)
  \/ \E r \in req : Step(r)

Spec == Init /\ [][Next]_vars

-----------------------------------------------------------------------------
\* Every variable has its type.
TypeOK ==
  /\ dialect \in Dialects /\ org \in BOOLEAN
  /\ st \in [Rows -> {"new", "live", "dead", "purged"}]
  /\ home \in [Agents \cup Groups -> Boxes \cup {None}]
  /\ scope \in [RegKeys -> Scopes \cup {{}}]
  /\ group \in [Agents -> AllGroups \cup {None}]
  /\ key \in [Agents -> Keys \cup {None}]
  /\ by \in [Agents -> RegKeys \cup {None}] /\ once \in [RegKeys -> Ids \cup {None}]
  /\ uses \in [RegKeys -> Int]
  /\ pool \subseteq Private \X {"v4", "v6"} /\ torn \subseteq Vpcs
  /\ slipped \subseteq Rows /\ heard \subseteq Vpcs
  /\ Cardinality(req) <= MaxRequests /\ calls \in 0 .. MaxCalls

\* A device, a site, a registration key or a security group that is live is in
\* a VPC or a service network that is (a key of both, in both), unless it was
\* written between a delete's count and its end, or after.
NothingOutlivesItsBox ==
  \A x \in Agents \cup RegKeys \cup AllGroups :
    Live(x) => x \in slipped \/ \A b \in Homes(x) : Live(b)

\* The security groups in use are there: a live VPC's default one, which every new
\* device is given, unless a DeleteVPC is at it or failed half-way; and that of a
\* live device, unless the group's VPC is ending (the device may have moved out of
\* it and kept the group).
GroupsThere ==
  Serializable =>
    /\ \A v \in Vpcs : Live(v) => Live(DefaultGroup(v)) \/ v \in torn \/ Ending(v)
    /\ \A a \in Agents : Live(a) /\ group[a] # None /\ ~ Live(group[a])
         => Ending(Home(group[a])) \/ Home(group[a]) \in torn

\* A private VPC holds its prefixes for as long as it lives, and no longer but
\* by a failed request or the end of its organization.
PrefixesOfVpcs ==
  Serializable => \A v \in Private :
    /\ Live(v) => Prefixes(v) \subseteq pool
    /\ Prefixes(v) \cap pool # {} =>
         \/ Live(v) \/ v \in torn
         \/ \E q \in req : q.op \in {"createVpc", "deleteBox"} /\ q.box = v

\* A single-use registration key makes one device, or one site, or, when it was made
\* with a VPC and a service network, one of each: whoever registers with it at once,
\* or again, with whichever public keys, another is made only when a first one was
\* deleted and collected.
SingleUseOnce == \A k \in RegKeys : uses[k] <= Cardinality(scope[k])

\* What AddRegKey's comment says of it ("used once"): not so for a key of both.
UsedOnce == \A k \in RegKeys : uses[k] <= 1

\* A change of a security group wakes up the watches of its VPC.
GroupChangeHeard ==
  [][\A g \in AllGroups, r \in req :
       r.op \in {"createGroup", "deleteGroup"} /\ r.id = g /\ r \notin req' /\ st'[g] # st[g]
         => Home(g)' \in heard']_vars
=============================================================================
