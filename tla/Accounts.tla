------------------------------ MODULE Accounts ------------------------------
(***************************************************************************)
(* Users, their e-mail identities, organizations, memberships and          *)
(* invitations: the middleware that turns a person of the identity         *)
(* provider into a user (internal/routers/middleware.go), and the handlers *)
(* of internal/handlers/{user,organization,user_organization,invitations,  *)
(* gc}.go.                                                                 *)
(*                                                                         *)
(* A handler is two steps, what it reads and what it commits, with the     *)
(* other requests in between.  A transaction of CockroachDB is             *)
(* serializable: it commits only if what it read still holds.  One of      *)
(* PostgreSQL is read committed (internal/database/transaction.go asks for *)
(* no other level) and commits on what it saw.  Reads outside of the       *)
(* transaction are never held to it.  A request may end at any time with   *)
(* nothing committed: a failed statement, a lost client, a crash.          *)
(* A call of Redis may fail, and no handler minds: the look-up is a miss,  *)
(* the id is not stored or, of a deleted user, not forgotten.              *)
(*                                                                         *)
(* A user's default organization has the user's id.  Names, descriptions,  *)
(* feature flags and the bodies of answers are left out; a person's        *)
(* e-mail address is the person.                                           *)
(***************************************************************************)
EXTENDS Naturals, FiniteSets, Sequences

CONSTANTS
  Idps,          \* people, as the identity provider names them
  Servers,       \* apiserver replicas
  Dialects,      \* databases to run on: a subset of {"postgres", "cockroach"}
  Nobody,        \* no person, no user
  MaxIds,        \* bound on the ids given to users and organizations
  MaxInvites,    \* bound on the invitations
  MaxRequests,   \* bound on the requests in flight
  MaxCalls       \* bound on the calls of a behaviour

Ids == 1 .. MaxIds

ASSUME AccountsAssumption ==
  /\ Dialects \subseteq {"postgres", "cockroach"}
  /\ MaxIds \in Nat /\ MaxInvites \in Nat /\ MaxRequests \in Nat
  /\ MaxCalls \in Nat
  /\ Nobody \notin Idps \cup Ids

VARIABLES
  dialect,    \* the database in use
  idp,        \* the person each user was created for (a deleted row loses it)
  live,       \* the users that are not deleted
  gone,       \* the deleted users whose rows are still in the table
  mail,       \* user_identities: the user an e-mail address belongs to
  org,        \* the organizations that are not deleted
  member,     \* user_organizations
  invite,     \* the invitations, in the order they were made
  attached,   \* <<owner, organization>> of the devices that are not deleted
  cache,      \* Redis: the user id of a person, kept without expiration
  late,       \* users whose ids Redis may keep: their person was logging in while
              \* they were deleted, or Redis did not answer their deletion's Del
  next,       \* the next fresh id
  req,        \* the requests that have read and not yet committed
  calls       \* how many calls there were

vars == <<dialect, idp, live, gone, mail, org, member, invite, attached,
          cache, late, next, req, calls>>
tables == <<dialect, idp, live, gone, mail, org, member, invite, attached,
            late, next>>

Invitation == [for : Ids \cup {Nobody}, email : Idps, org : Ids,
               owner : BOOLEAN, state : {"open", "expired", "closed"},
               raced : BOOLEAN]

\* Some people are users already, with their default organizations, and
\* members or owners of each other's.
Init ==
  /\ dialect \in Dialects
  /\ \E n \in 0 .. MaxIds :
       /\ next = n + 1 /\ live = 1 .. n /\ org = 1 .. n
       /\ \E p \in [1 .. n -> Idps] :
            /\ \A u, v \in live : p[u] = p[v] => u = v
            /\ idp = [u \in Ids |-> IF u \in live THEN p[u] ELSE Nobody]
            /\ LET id == [i \in Idps |-> IF \E u \in live : p[u] = i
                                           THEN CHOOSE u \in live : p[u] = i ELSE Nobody]
                   none == [i \in Idps |-> Nobody]
               IN  mail \in {id, none} /\ cache \in {id, none}
       /\ \E role \in [live \X live -> {"none", "member", "owner"}] :
            /\ \A u \in live : role[<<u, u>>] = "owner"
            /\ member = {[user |-> x[1], org |-> x[2], owner |-> role[x] = "owner"] :
                           x \in {y \in live \X live : role[y] # "none"}}
  /\ gone = {} /\ late = {} /\ invite = <<>> /\ attached = {} /\ req = {} /\ calls = 0

-----------------------------------------------------------------------------
Serializable == dialect = "cockroach"

UserOf(i) == LET us == {u \in live : idp[u] = i}
             IN  IF us = {} THEN Nobody ELSE CHOOSE u \in us : TRUE

Owners(o) == {m.user : m \in {x \in member : x.org = o /\ x.owner}}
Owned(u)  == {o \in Ids : u \in Owners(o)}

\* A request keeps the id that the middleware found or made for its person, stored
\* or not, whatever becomes of the user until its handler ends.
Acts(u) == idp[u] # Nobody

Call      == calls < MaxCalls /\ calls' = calls + 1
Start(r)  == Call /\ Cardinality(req) < MaxRequests /\ req' = req \cup {r}
Finish(r) == req' = req \ {r} /\ UNCHANGED calls

\* A request ends with nothing committed.
Abort(r) == /\ Finish(r) /\ UNCHANGED <<cache, tables>>

\* The identities of u go with it.
Forget(u) == [i \in Idps |-> IF mail[i] = u THEN Nobody ELSE mail[i]]

\* The invitations to i's address that name no user get the user u.
ClaimOpen(i, u) ==
  [k \in DOMAIN invite |->
     IF invite[k].email = i /\ invite[k].for = Nobody /\ invite[k].state = "open"
       THEN [invite[k] EXCEPT !.for = u] ELSE invite[k]]
ClaimForPerson(i, u) ==
  [k \in DOMAIN invite |->
     IF invite[k].email = i /\ invite[k].for = Nobody
       THEN [invite[k] EXCEPT !.for = i] ELSE invite[k]]
Claim(i, u) ==
  [k \in DOMAIN invite |->
     IF invite[k].email = i /\ invite[k].for = Nobody /\ invite[k].state # "closed"
       THEN [invite[k] EXCEPT !.for = u] ELSE invite[k]]

-----------------------------------------------------------------------------
\* The middleware, on a miss of the cache or when Redis does not answer: at most
\* one look-up of a person at a time in a replica, however many across replicas.
Login(s, i, verified) ==
  /\ ~ \E r \in req : r.op \in {"login", "store"} /\ r.at = s /\ r.idp = i
  /\ Start([op |-> "login", at |-> s, idp |-> i, verified |-> verified,
            found |-> UserOf(i), again |-> FALSE])
  /\ UNCHANGED <<cache, tables>>

Logged(r, u) ==
  /\ UNCHANGED calls
  /\ req' = (req \ {r}) \cup {[op |-> "store", at |-> r.at, idp |-> r.idp, user |-> u]}

\* The user exists: a verified address that is not yet the user's becomes so.
LoginExisting(r) ==
  /\ r.op = "login" /\ r.found # Nobody
  /\ Logged(r, r.found)
  /\ IF r.verified /\ mail[r.idp] # r.found
       THEN /\ mail[r.idp] = Nobody
            /\ Serializable => UserOf(r.idp) = r.found
            /\ mail' = [mail EXCEPT ![r.idp] = r.found]
            /\ invite' = Claim(r.idp, r.found)
       ELSE UNCHANGED <<mail, invite>>
  /\ UNCHANGED <<dialect, late, idp, live, gone, org, member, attached, cache, next>>

\* The unique index on idp_id and the primary key of the identities.
MayInsertNoIndex(i, verified) == verified => mail[i] = Nobody
MayInsert(i, verified) == UserOf(i) = Nobody /\ (verified => mail[i] = Nobody)

\* The user, its default organization and its ownership are created at once.
LoginCreate(r) ==
  /\ r.op = "login" /\ r.found = Nobody
  /\ MayInsert(r.idp, r.verified)
  /\ next \in Ids
  /\ next' = next + 1
  /\ idp' = [idp EXCEPT ![next] = r.idp]
  /\ live' = live \cup {next}
  /\ org' = org \cup {next}
  /\ member' = member \cup {[user |-> next, org |-> next, owner |-> TRUE]}
  /\ IF r.verified
       THEN mail' = [mail EXCEPT ![r.idp] = next] /\ invite' = Claim(r.idp, next)
       ELSE UNCHANGED <<mail, invite>>
  /\ Logged(r, next)
  /\ UNCHANGED <<dialect, late, gone, attached, cache>>

\* Somebody else created it first: the insert breaks the unique index on
\* idp_id and is tried once more.  The retry's First is given the user struct
\* with the id of the failed attempt and so looks for that id too: it finds
\* nothing, inserts again, and the second failure is the request's.
LoginDuplicate(r) ==
  /\ r.op = "login" /\ r.found = Nobody
  /\ UserOf(r.idp) # Nobody
  /\ req' = (req \ {r}) \cup (IF r.again THEN {} ELSE {[r EXCEPT !.again = TRUE]})
  /\ UNCHANGED <<cache, tables, calls>>

\* The result of Redis' Set is not looked at.
StoreId(r) ==
  /\ r.op = "store"
  /\ \/ /\ cache' = [cache EXCEPT ![r.idp] = r.user]
        /\ late' = late \cup {u \in {r.user} : \E q \in req : q.op = "deleteUser" /\ q.user = u}
     \/ UNCHANGED <<cache, late>>
  /\ Finish(r)
  /\ UNCHANGED <<dialect, idp, live, gone, mail, org, member, invite, attached, next>>

-----------------------------------------------------------------------------
\* What deleteOrganization does to every table of this module.
DropOrgs(os) ==
  /\ org' = org \ os
  /\ invite' = [k \in DOMAIN invite |->
                  IF invite[k].org \in os THEN [invite[k] EXCEPT !.state = "closed"]
                                          ELSE invite[k]]
Outside(os) == {m \in member : m.org \notin os}
UnusedAlways(os) == TRUE
Unused(os) == \A p \in attached : p[2] \notin os

CreateOrganization(u) ==
  /\ Acts(u) /\ u \in live
  /\ Start([op |-> "createOrg", by |-> u])
  /\ UNCHANGED <<cache, tables>>

CreateOrganizationCommit(r) ==
  /\ r.op = "createOrg" /\ next \in Ids
  /\ Serializable => r.by \in live
  /\ next' = next + 1
  /\ org' = org \cup {next}
  /\ member' = member \cup {[user |-> r.by, org |-> next, owner |-> TRUE]}
  /\ Finish(r)
  /\ UNCHANGED <<dialect, late, idp, live, gone, mail, invite, attached, cache>>

\* A default organization has the id of a user, deleted or not.
MayDeleteOrg(u, o) == /\ o \in org /\ u \in Owners(o)
                      /\ o \notin live \cup gone /\ Unused({o})

DeleteOrganization(u, o) ==
  /\ Acts(u) /\ MayDeleteOrg(u, o)
  /\ Start([op |-> "deleteOrg", by |-> u, org |-> o])
  /\ UNCHANGED <<cache, tables>>

DeleteOrganizationCommit(r) ==
  /\ r.op = "deleteOrg"
  /\ Serializable => MayDeleteOrg(r.by, r.org)
  /\ DropOrgs({r.org}) /\ member' = Outside({r.org})
  /\ Finish(r)
  /\ UNCHANGED <<dialect, late, idp, live, gone, mail, attached, cache, next>>

-----------------------------------------------------------------------------
\* DeleteUser goes over the organizations the user owns.  One without another
\* owner is deleted; the first that has one takes the user out of every
\* organization, and what comes after it is counted without the user.
Shared(u) == {o \in Owned(u) : Owners(o) # {u}}
FirstShared(u) == IF Shared(u) = {} THEN {Nobody} ELSE Shared(u)
Doomed(u, first) == (Owned(u) \ Shared(u))
  \cup {o \in Shared(u) \ {first} : Cardinality(Owners(o)) <= 2}

MayDeleteUser(u, os) == /\ u \in live /\ Unused(os)
                        /\ \A p \in attached : p[1] # u

\* Redis is to forget the person before the transaction commits; when it does not
\* answer, a line is logged and the user is deleted all the same.
ForgetPersonNot(u) == cache
ForgetPerson(u) == [cache EXCEPT ![idp[u]] = Nobody]

DeleteUser(u, first) ==
  /\ Acts(u) /\ MayDeleteUser(u, Doomed(u, first))
  /\ Start([op |-> "deleteUser", user |-> u, doomed |-> Doomed(u, first),
            leaves |-> first # Nobody])
  /\ \/ cache' = ForgetPerson(u) /\ late' = late \ {u}
     \/ cache' = cache /\ late' = late \cup ({u} \cap {cache[idp[u]]})
  /\ UNCHANGED <<dialect, idp, live, gone, mail, org, member, invite, attached, next>>

DeleteUserCommit(r) ==
  LET u == r.user IN
  /\ r.op = "deleteUser"
  /\ Serializable => /\ MayDeleteUser(u, r.doomed) /\ r.leaves = (Shared(u) # {})
                     /\ \E first \in FirstShared(u) : r.doomed = Doomed(u, first)
  /\ live' = live \ {u}
  /\ gone' = gone \cup (live \cap {u})
  /\ late' = late \cup {v \in {u} : \E q \in req : q.op \in {"login", "store"}
                                                /\ q.idp = idp[u]}
  /\ mail' = Forget(u)
  /\ org' = org \ r.doomed
  /\ member' = {m \in Outside(r.doomed) : ~ (r.leaves /\ m.user = u)}
  /\ invite' = [k \in DOMAIN invite |->
                  IF invite[k].org \in r.doomed \/ invite[k].for = u
                    THEN [invite[k] EXCEPT !.state = "closed"] ELSE invite[k]]
  /\ Finish(r)
  /\ UNCHANGED <<dialect, idp, attached, cache, next>>

\* The statements of DeleteUserFromOrganization are not in its transaction.
DeleteUserFromOrganization(u, o) ==
  /\ Call
  /\ u \in live /\ o \in org
  /\ member' = {m \in member : ~ (m.user = u /\ m.org = o)}
  /\ cache' \in {ForgetPerson(u), cache}
  /\ UNCHANGED <<dialect, late, idp, live, gone, mail, org, invite, attached, next, req>>

\* The caller's ownership is read outside of the transaction.
DeleteOrganizationUser(u, o, v) ==
  /\ Acts(u) /\ o \in org /\ u \in Owners(o) /\ v # u
  /\ Start([op |-> "expel", org |-> o, user |-> v])
  /\ UNCHANGED <<cache, tables>>

DeleteOrganizationUserCommit(r) ==
  /\ r.op = "expel"
  /\ \E m \in member : m.user = r.user /\ m.org = r.org
  /\ member' = {m \in member : ~ (m.user = r.user /\ m.org = r.org)}
  /\ attached' = attached \ {<<r.user, r.org>>}
  /\ Finish(r)
  /\ UNCHANGED <<dialect, late, idp, live, gone, mail, org, invite, cache, next>>

-----------------------------------------------------------------------------
Open(k) == invite[k].state # "closed"

\* An invitation by address or by user id (of one that may have no address):
\* there is no transaction from the first read to the insert.
CreateInvitation(u, o, i, v, owner) ==
  /\ Acts(u) /\ u \in live /\ o \in org /\ u \in Owners(o)
  /\ v = mail[i] \/ (v # Nobody /\ v = UserOf(i))
  /\ v # Nobody => /\ v \in live
                   /\ ~ \E m \in member : m.user = v /\ m.org = o
                   /\ ~ \E k \in DOMAIN invite : /\ invite[k].for = v
                                                 /\ invite[k].org = o
                                                 /\ invite[k].state = "open"
  /\ Start([op |-> "invite", org |-> o, email |-> i, for |-> v, owner |-> owner])
  /\ UNCHANGED <<cache, tables>>

CreateInvitationCommit(r) ==
  /\ r.op = "invite" /\ Len(invite) < MaxInvites
  /\ invite' = Append(invite, [for |-> r.for, email |-> r.email, org |-> r.org,
                               owner |-> r.owner, state |-> "open",
                               raced |-> \/ r.for = Nobody /\ mail[r.email] # Nobody
                                         \/ r.org \notin org])
  /\ Finish(r)
  /\ UNCHANGED <<dialect, late, idp, live, gone, mail, org, member, attached, cache, next>>

MayAccept(u, k) == Open(k) /\ invite[k].for = u /\ u \in live

AcceptInvitation(u, k) ==
  /\ Acts(u) /\ MayAccept(u, k)
  /\ Start([op |-> "accept", user |-> u, inv |-> k])
  /\ UNCHANGED <<cache, tables>>

\* (user, organization) is the primary key of user_organizations.
AcceptInvitationCommit(r) ==
  LET inv == invite[r.inv] IN
  /\ r.op = "accept"
  /\ Serializable => MayAccept(r.user, r.inv)
  /\ ~ \E m \in member : m.user = r.user /\ m.org = inv.org
  /\ member' = member \cup {[user |-> r.user, org |-> inv.org, owner |-> inv.owner]}
  /\ invite' = [invite EXCEPT ![r.inv].state = "closed"]
  /\ Finish(r)
  /\ UNCHANGED <<dialect, late, idp, live, gone, mail, org, attached, cache, next>>

DeleteInvitation(u, k) ==
  /\ Call
  /\ Acts(u) /\ Open(k)
  /\ invite[k].for = u \/ u \in Owners(invite[k].org)
  /\ invite' = [invite EXCEPT ![k].state = "closed"]
  /\ UNCHANGED <<dialect, late, idp, live, gone, mail, org, member, attached, cache, next, req>>

Expire(k) ==
  /\ Call
  /\ invite[k].state = "open"
  /\ invite' = [invite EXCEPT ![k].state = "expired"]
  /\ UNCHANGED <<dialect, late, idp, live, gone, mail, org, member, attached, cache, next, req>>

-----------------------------------------------------------------------------
\* CreateDevice and DeleteDevice, as far as these handlers see them.
AddDevice(u, o) ==
  /\ Call
  /\ Acts(u) /\ o \in org /\ <<u, o>> \notin attached
  /\ \E m \in member : m.user = u /\ m.org = o
  /\ attached' = attached \cup {<<u, o>>}
  /\ UNCHANGED <<dialect, late, idp, live, gone, mail, org, member, invite, cache, next, req>>

RemoveDevice(p) ==
  /\ Call
  /\ attached' = attached \ {p}
  /\ UNCHANGED <<dialect, late, idp, live, gone, mail, org, member, invite, cache, next, req>>

\* The rows deleted longer ago than the retention are removed, a user's with
\* its identities; a membership's foreign key keeps its user's row.
GarbageCollect(u) ==
  /\ Call
  /\ ~ \E m \in member : m.user = u
  /\ gone' = gone \ {u}
  /\ mail' = Forget(u)
  /\ UNCHANGED <<dialect, late, idp, live, org, member, invite, attached, cache, next, req>>

Commit(r) ==
  \/ LoginExisting(r) \/ LoginCreate(r) \/ LoginDuplicate(r) \/ StoreId(r)
  \/ CreateOrganizationCommit(r) \/ DeleteOrganizationCommit(r)
  \/ DeleteUserCommit(r) \/ DeleteOrganizationUserCommit(r)
  \/ CreateInvitationCommit(r) \/ AcceptInvitationCommit(r) \/ Abort(r)

Next ==
  \/ \E s \in Servers, i \in Idps, v \in BOOLEAN : Login(s, i, v)
  \/ \E u \in Ids :
       \/ CreateOrganization(u)
       \/ \E first \in FirstShared(u) : DeleteUser(u, first)
       \/ \E o \in Ids :
            \/ DeleteOrganization(u, o) \/ DeleteUserFromOrganization(u, o)
            \/ AddDevice(u, o)
            \/ \E v \in Ids : DeleteOrganizationUser(u, o, v)
            \/ \E i \in Idps, owner \in BOOLEAN :
                 \E v \in {mail[i], UserOf(i)} : CreateInvitation(u, o, i, v, owner)
       \/ \E k \in DOMAIN invite : AcceptInvitation(u, k) \/ DeleteInvitation(u, k)
  \/ \E k \in DOMAIN invite : Expire(k)
  \/ \E p \in attached : RemoveDevice(p)
  \/ \E u \in gone : GarbageCollect(u)
  \/ \E r \in req : Commit(r)

Spec == Init /\ [][Next]_vars

-----------------------------------------------------------------------------
\* Every variable has its type.
TypeOK ==
  /\ dialect \in Dialects
  /\ idp \in [Ids -> Idps \cup {Nobody}]
  /\ live \subseteq Ids /\ gone \subseteq Ids \ live /\ org \subseteq Ids
  /\ mail \in [Idps -> Ids \cup {Nobody}] /\ cache \in [Idps -> Ids \cup {Nobody}]
  /\ member \subseteq [user : Ids, org : Ids, owner : BOOLEAN]
  /\ invite \in Seq(Invitation) /\ Len(invite) <= MaxInvites
  /\ attached \subseteq Ids \X Ids
  /\ late \subseteq Ids /\ next \in 1 .. MaxIds + 1
  /\ Cardinality(req) <= MaxRequests /\ calls \in 0 .. MaxCalls

\* However many replicas see a person's first request at once, the person has
\* one user (user.go's retry, the unique index on idp_id).
OneUserPerPerson == \A u, v \in live : idp[u] = idp[v] => u = v

\* A deleted user is forgotten: Redis, which expires nothing, does not keep its id
\* for its person's later requests to run under, unless its person was logging in
\* while it was deleted or Redis did not answer the Del of user.go:407; and it keeps
\* no address, which would refuse the person's next first request for ever.
DeletedForgotten ==
  /\ \A i \in Idps : cache[i] \in gone => cache[i] \in late
  /\ Serializable => \A i \in Idps : mail[i] # Nobody => mail[i] \in live

\* An organization goes only when it is empty, whichever of DeleteOrganization
\* and DeleteUser ends it and whoever is about to accept an invitation: no device
\* is left in it, and no member but by an invitation that CreateInvitation
\* inserted after the end.  PostgreSQL's default isolation lets a device in
\* between the count and the commit.
OrgsGoEmpty ==
  Serializable =>
    /\ \A p \in attached : p[2] \in org
    /\ \A m \in member : m.org \notin org =>
         \E k \in DOMAIN invite : invite[k].org = m.org /\ invite[k].raced

\* An invitation sent to an address reaches the user who has it, before or
\* after, unless the address became a user's between CreateInvitation's read
\* and its insert.
InvitationReachesUser ==
  \A k \in DOMAIN invite :
    Open(k) /\ invite[k].for = Nobody /\ mail[invite[k].email] # Nobody
      => invite[k].raced

\* Only an organization that nobody else owns goes with a user.
OrgDiesWithItsOwners ==
  [][live' # live => \A o \in org \ org' : Owners(o) \subseteq live \ live']_vars
=============================================================================
