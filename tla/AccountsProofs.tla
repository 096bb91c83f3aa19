--------------------------- MODULE AccountsProofs ---------------------------
(***************************************************************************)
(* For any people, replicas, ids and requests in flight, and on either     *)
(* database, whenever Redis answers or fails: a person has one user, a     *)
(* deleted user is forgotten, an organization goes empty, an invitation    *)
(* reaches the user it is for.                                             *)
(***************************************************************************)
EXTENDS Accounts, SequenceTheorems, FiniteSetTheorems, TLAPS

\* u is, or was, the user of the person i; if it was deleted since, then while the
\* person was logging in, or Redis was not there to forget it.
UserWas(u, i) == /\ u \in Ids /\ u < next /\ idp[u] = i
                 /\ u \in gone => u \in late

LoginRequest == [op : {"login"}, at : Servers, idp : Idps, verified : BOOLEAN,
                 found : Ids \cup {Nobody}, again : BOOLEAN]

\* What is known of a request between its read and its commit.
Request(r) ==
  /\ r.op = "login" => r \in LoginRequest /\ (r.found # Nobody => UserWas(r.found, r.idp))
  /\ r.op = "store" => r.idp \in Idps /\ UserWas(r.user, r.idp)
  /\ r.op = "createOrg" => r.by \in Ids
  /\ r.op = "deleteOrg" => r.org \in Ids
  /\ r.op = "deleteUser" =>
       /\ r.user \in Ids
       /\ r.user \in live /\ cache[idp[r.user]] = r.user => r.user \in late
  /\ r.op = "invite" => /\ r.for \in Ids \cup {Nobody} /\ r.email \in Idps
                        /\ r.org \in Ids /\ r.owner \in BOOLEAN
  /\ r.op = "accept" => r.user \in Ids /\ r.inv \in DOMAIN invite

Requests == IsFiniteSet(req) /\ \A r \in req : Request(r)

\* Ids are given once, and a user that is there has its person.
FreshIds == \A u \in live \cup gone \cup org : u < next
Persons == \A u \in live : idp[u] \in Idps

\* A cached id is of the person it is kept for.
CacheKnows == \A i \in Idps : cache[i] # Nobody => UserWas(cache[i], i)

\* An invitation outlives its organization only when it was inserted after the end.
OpenInvitations ==
  \A k \in DOMAIN invite : Open(k) /\ invite[k].org \notin org => invite[k].raced

\* The inductive invariant.
IInv ==
  /\ TypeOK
  /\ Requests
  /\ FreshIds
  /\ Persons
  /\ CacheKnows
  /\ OpenInvitations
  /\ OneUserPerPerson
  /\ DeletedForgotten
  /\ OrgsGoEmpty
  /\ InvitationReachesUser

-----------------------------------------------------------------------------
\* A record whose fields are changed one invitation after the other is a sequence of
\* invitations still.
LEMMA InvitesMapped ==
  ASSUME NEW s \in Seq(Invitation), NEW t, t = [k \in DOMAIN s |-> t[k]],
         \A k \in DOMAIN s : t[k] \in Invitation
  PROVE  t \in Seq(Invitation) /\ Len(t) = Len(s) /\ DOMAIN t = DOMAIN s
<1>1. DOMAIN s = 1 .. Len(s) /\ Len(s) \in Nat
  OBVIOUS
<1> HIDE DEF Invitation
<1>2. t \in [1 .. Len(s) -> Invitation]
  BY <1>1
<1>3. t \in Seq(Invitation)
  BY <1>1, <1>2, SeqDef
<1>4. Len(t) = Len(s)
  BY <1>1, <1>2, <1>3
<1> QED
  BY <1>1, <1>2, <1>3, <1>4

\* The requests stay few: one more.
LEMMA Started ==
  ASSUME Cardinality(req) \in Nat, IsFiniteSet(req), NEW r, Start(r)
  PROVE  /\ IsFiniteSet(req') /\ Cardinality(req') <= MaxRequests
         /\ req' = req \cup {r} /\ calls' = calls + 1 /\ calls < MaxCalls
<1>1. req' = req \cup {r} /\ Cardinality(req) < MaxRequests /\ calls' = calls + 1 /\ calls < MaxCalls
  BY DEF Start, Call
<1>2. IsFiniteSet(req') /\ Cardinality(req') <= Cardinality(req) + 1 /\ Cardinality(req') \in Nat
  BY <1>1, FS_AddElement, FS_CardinalityType
<1> QED
  BY <1>1, <1>2, AccountsAssumption

\* The requests stay few: one is over, or another takes its place.
LEMMA Replaced ==
  ASSUME Cardinality(req) <= MaxRequests, IsFiniteSet(req), NEW r \in req, NEW S, NEW q,
         S = req \ {r} \/ S = (req \ {r}) \cup {q}
  PROVE  IsFiniteSet(S) /\ Cardinality(S) <= MaxRequests
<1>1. /\ Cardinality(req) \in Nat /\ Cardinality(req) # 0
      /\ IsFiniteSet(req \ {r}) /\ Cardinality(req \ {r}) = Cardinality(req) - 1
  BY FS_RemoveElement, FS_CardinalityType, FS_EmptySet
<1>2. CASE S = req \ {r}
  BY <1>1, <1>2, AccountsAssumption
<1>3. CASE S = (req \ {r}) \cup {q}
  <2> DEFINE T == req \ {r}
  <2>1. IsFiniteSet(T) /\ Cardinality(T) = Cardinality(req) - 1 /\ S = T \cup {q}
    BY <1>1, <1>3
  <2>2. IsFiniteSet(S) /\ Cardinality(S) <= Cardinality(T) + 1 /\ Cardinality(S) \in Nat
    <3> HIDE DEF T
    <3>1. IsFiniteSet(S) /\ Cardinality(T) \in Nat
      BY <2>1, FS_AddElement, FS_CardinalityType
    <3>2. Cardinality(S) = Cardinality(T) \/ Cardinality(S) = Cardinality(T) + 1
      BY <2>1, FS_AddElement
    <3> QED
      BY <3>1, <3>2, FS_CardinalityType
  <2> QED
    BY <1>1, <2>1, <2>2, AccountsAssumption
<1> QED
  BY <1>2, <1>3

\* UserOf finds the user of a person, if there is one.
LEMMA UserOfFinds ==
  ASSUME TypeOK, NEW i \in Idps
  PROVE  /\ UserOf(i) \in Ids \cup {Nobody}
         /\ UserOf(i) # Nobody => UserOf(i) \in live /\ idp[UserOf(i)] = i
         /\ UserOf(i) = Nobody => \A u \in live : idp[u] # i
<1> DEFINE us == {u \in live : idp[u] = i}
<1>1. CASE us = {}
  BY <1>1 DEF UserOf
<1>2. CASE us # {}
  <2>1. UserOf(i) = CHOOSE u \in us : TRUE
    BY <1>2 DEF UserOf
  <2>2. UserOf(i) \in us
    BY <1>2, <2>1
  <2> QED
    BY <2>2, AccountsAssumption DEF TypeOK
<1> QED
  BY <1>1, <1>2

\* What the invariant says of the variables one by one.
LEMMA Few == ASSUME IInv PROVE IsFiniteSet(req) /\ Cardinality(req) \in Nat /\ Cardinality(req) <= MaxRequests
BY FS_CardinalityType DEF IInv, Requests, TypeOK

\* The initial states.
LEMMA InitInv == Init => IInv
<1> SUFFICES ASSUME Init PROVE IInv
  OBVIOUS
<1>n. PICK n \in 0 .. MaxIds :
       /\ next = n + 1 /\ live = 1 .. n /\ org = 1 .. n
       /\ \E p \in [1 .. n -> Idps] :
            /\ \A u, v \in live : p[u] = p[v] => u = v
            /\ idp = [u \in Ids |-> IF u \in live THEN p[u] ELSE Nobody]
            /\ LET id == [i \in Idps |-> IF \E u \in live : p[u] = i
                                           THEN CHOOSE u \in live : p[u] = i ELSE Nobody]
                   none == [i \in Idps |-> Nobody]
               IN  mail \in {id, none} /\ cache \in {id, none}
       /\ \E role \in [live \X live -> {"none", "member", "owner"}] :
            /\ \A u \in live : role[<<u, u>>] = "owner"
            /\ member = {[user |-> x[1], org |-> x[2], owner |-> role[x] = "owner"] :
                           x \in {y \in live \X live : role[y] # "none"}}
  BY DEF Init
<1>p. PICK p \in [1 .. n -> Idps] :
            /\ \A u, v \in live : p[u] = p[v] => u = v
            /\ idp = [u \in Ids |-> IF u \in live THEN p[u] ELSE Nobody]
            /\ LET id == [i \in Idps |-> IF \E u \in live : p[u] = i
                                           THEN CHOOSE u \in live : p[u] = i ELSE Nobody]
                   none == [i \in Idps |-> Nobody]
               IN  mail \in {id, none} /\ cache \in {id, none}
  BY <1>n
<1>r. PICK role \in [live \X live -> {"none", "member", "owner"}] :
        member = {[user |-> x[1], org |-> x[2], owner |-> role[x] = "owner"] :
                    x \in {y \in live \X live : role[y] # "none"}}
  BY <1>n
<1>0. /\ gone = {} /\ late = {} /\ invite = <<>> /\ attached = {} /\ req = {} /\ calls = 0
      /\ dialect \in Dialects
  BY DEF Init
<1>1. /\ n \in Nat /\ n <= MaxIds /\ live = 1 .. n /\ org = 1 .. n /\ next = n + 1
      /\ live \subseteq Ids /\ Nobody \notin Ids /\ MaxIds \in Nat
  BY <1>n, AccountsAssumption DEF Ids
<1>2. \A u \in live : idp[u] = p[u] /\ idp[u] \in Idps
  BY <1>1, <1>p
<1>3. \A f \in {mail, cache} :
        /\ f \in [Idps -> Ids \cup {Nobody}]
        /\ \A i \in Idps : f[i] # Nobody => f[i] \in live /\ idp[f[i]] = i
  <2> DEFINE id == [i \in Idps |-> IF \E u \in live : p[u] = i
                                     THEN CHOOSE u \in live : p[u] = i ELSE Nobody]
             none == [i \in Idps |-> Nobody]
  <2> SUFFICES ASSUME NEW f \in {mail, cache}
               PROVE  /\ f \in [Idps -> Ids \cup {Nobody}]
                      /\ \A i \in Idps : f[i] # Nobody => f[i] \in live /\ idp[f[i]] = i
    OBVIOUS
  <2>1. f \in {id, none}
    BY <1>p
  <2>2. CASE f = none
    BY <2>2
  <2>3. CASE f = id
    <3>1. \A i \in Idps : (\E u \in live : p[u] = i) => f[i] \in live /\ p[f[i]] = i
      <4> SUFFICES ASSUME NEW i \in Idps, NEW u \in live, p[u] = i PROVE f[i] \in live /\ p[f[i]] = i
        OBVIOUS
      <4>1. f[i] = CHOOSE v \in live : p[v] = i
        BY <2>3
      <4> QED
        BY <4>1
    <3>2. \A i \in Idps : ~ (\E u \in live : p[u] = i) => f[i] = Nobody
      BY <2>3
    <3>3. f = [i \in Idps |-> f[i]]
      BY <2>3
    <3> QED
      BY <1>1, <1>2, <3>1, <3>2, <3>3
  <2> QED
    BY <2>1, <2>2, <2>3
<1>4. TypeOK
  <2>1. idp \in [Ids -> Idps \cup {Nobody}]
    BY <1>1, <1>p
  <2>2. member \subseteq [user : Ids, org : Ids, owner : BOOLEAN]
    <3> SUFFICES ASSUME NEW m \in member PROVE m \in [user : Ids, org : Ids, owner : BOOLEAN]
      OBVIOUS
    <3>1. PICK x \in live \X live : m = [user |-> x[1], org |-> x[2], owner |-> role[x] = "owner"]
      BY <1>r
    <3>2. x[1] \in Ids /\ x[2] \in Ids /\ (role[x] = "owner") \in BOOLEAN
      BY <1>1
    <3> QED
      BY <3>1, <3>2
  <2>3. next \in 1 .. MaxIds + 1 /\ calls \in 0 .. MaxCalls
    BY <1>0, <1>1, AccountsAssumption
  <2>4. Cardinality(req) <= MaxRequests
    BY <1>0, FS_EmptySet, AccountsAssumption
  <2>5. invite \in Seq(Invitation) /\ Len(invite) <= MaxInvites
    BY <1>0, AccountsAssumption
  <2> QED
    BY <1>0, <1>1, <1>3, <2>1, <2>2, <2>3, <2>4, <2>5 DEF TypeOK
<1>5. Requests /\ FreshIds /\ Persons
  BY <1>0, <1>1, <1>2, FS_EmptySet DEF Requests, FreshIds, Persons
<1>6. CacheKnows
  BY <1>0, <1>1, <1>3 DEF CacheKnows, UserWas
<1>7. OpenInvitations /\ InvitationReachesUser
  BY <1>0 DEF OpenInvitations, InvitationReachesUser
<1>8. OneUserPerPerson
  BY <1>2, <1>p DEF OneUserPerPerson
<1>9. DeletedForgotten
  BY <1>0, <1>3 DEF DeletedForgotten
<1>10. OrgsGoEmpty
  BY <1>0, <1>1, <1>r DEF OrgsGoEmpty
<1> QED
  BY <1>4, <1>5, <1>6, <1>7, <1>8, <1>9, <1>10 DEF IInv

-----------------------------------------------------------------------------
\* An action that changes the invitations leaves this of them.
InvitesKept ==
  /\ invite' \in Seq(Invitation) /\ Len(invite') = Len(invite)
  /\ DOMAIN invite' = DOMAIN invite
  /\ \A k \in DOMAIN invite :
       /\ invite'[k].org = invite[k].org /\ invite'[k].email = invite[k].email
       /\ invite'[k].raced = invite[k].raced
       /\ invite'[k].state # "closed" => invite[k].state # "closed"

\* Claim gives a person's open invitations to its user, and changes nothing else.
LEMMA Claimed ==
  ASSUME TypeOK, NEW i \in Idps, NEW u \in Ids, invite' = Claim(i, u)
  PROVE  /\ InvitesKept
         /\ \A k \in DOMAIN invite : invite'[k].for =
              IF invite[k].email = i /\ invite[k].for = Nobody /\ invite[k].state # "closed"
                THEN u ELSE invite[k].for
<1>1. invite \in Seq(Invitation) /\ invite' = [k \in DOMAIN invite |-> invite'[k]]
  BY DEF TypeOK, Claim
<1>2. \A k \in DOMAIN invite : invite[k] \in Invitation
  BY <1>1, ElementOfSeq DEF TypeOK
<1>3. \A k \in DOMAIN invite :
        invite'[k] = IF invite[k].email = i /\ invite[k].for = Nobody /\ invite[k].state # "closed"
                       THEN [invite[k] EXCEPT !.for = u] ELSE invite[k]
  BY DEF Claim
<1>4. \A k \in DOMAIN invite :
        /\ invite'[k] \in Invitation
        /\ invite'[k].org = invite[k].org /\ invite'[k].email = invite[k].email
        /\ invite'[k].raced = invite[k].raced /\ invite'[k].state = invite[k].state
        /\ invite'[k].for =
              IF invite[k].email = i /\ invite[k].for = Nobody /\ invite[k].state # "closed"
                THEN u ELSE invite[k].for
  <2> SUFFICES ASSUME NEW k \in DOMAIN invite
               PROVE  /\ invite'[k] \in Invitation
                      /\ invite'[k].org = invite[k].org /\ invite'[k].email = invite[k].email
                      /\ invite'[k].raced = invite[k].raced /\ invite'[k].state = invite[k].state
                      /\ invite'[k].for =
                           IF invite[k].email = i /\ invite[k].for = Nobody
                                /\ invite[k].state # "closed"
                             THEN u ELSE invite[k].for
    OBVIOUS
  <2>1. CASE invite[k].email = i /\ invite[k].for = Nobody /\ invite[k].state # "closed"
    <3>1. invite'[k] = [invite[k] EXCEPT !.for = u]
      BY <1>3, <2>1
    <3> QED
      BY <1>2, <2>1, <3>1 DEF Invitation
  <2>2. CASE ~ (invite[k].email = i /\ invite[k].for = Nobody /\ invite[k].state # "closed")
    <3>1. invite'[k] = invite[k]
      BY <1>3, <2>2
    <3> QED
      BY <1>2, <2>2, <3>1
  <2> QED
    BY <2>1, <2>2
<1>5. invite' \in Seq(Invitation) /\ Len(invite') = Len(invite) /\ DOMAIN invite' = DOMAIN invite
  BY <1>1, <1>4, InvitesMapped
<1> QED
  BY <1>4, <1>5 DEF InvitesKept

\* Invitations that are closed, or expire, stay what they are otherwise.
LEMMA Marked ==
  ASSUME TypeOK, NEW K, NEW x \in {"expired", "closed"},
         x = "expired" => \A k \in K : k \in DOMAIN invite => invite[k].state # "closed",
         invite' = [k \in DOMAIN invite |->
                      IF k \in K THEN [invite[k] EXCEPT !.state = x] ELSE invite[k]]
  PROVE  /\ InvitesKept
         /\ \A k \in DOMAIN invite : /\ invite'[k].for = invite[k].for
                                     /\ k \in K => invite'[k].state = x
<1>1. invite \in Seq(Invitation) /\ invite' = [k \in DOMAIN invite |-> invite'[k]]
  BY DEF TypeOK
<1>2. \A k \in DOMAIN invite : invite[k] \in Invitation
  BY <1>1, ElementOfSeq DEF TypeOK
<1>3. \A k \in DOMAIN invite :
        invite'[k] = IF k \in K THEN [invite[k] EXCEPT !.state = x] ELSE invite[k]
  OBVIOUS
<1>4. \A k \in DOMAIN invite :
        /\ invite'[k] \in Invitation
        /\ invite'[k].org = invite[k].org /\ invite'[k].email = invite[k].email
        /\ invite'[k].raced = invite[k].raced /\ invite'[k].for = invite[k].for
        /\ invite'[k].state = IF k \in K THEN x ELSE invite[k].state
  BY <1>2, <1>3 DEF Invitation
<1>5. invite' \in Seq(Invitation) /\ Len(invite') = Len(invite) /\ DOMAIN invite' = DOMAIN invite
  BY <1>1, <1>4, InvitesMapped
<1> QED
  BY <1>4, <1>5 DEF InvitesKept

\* The handlers up to their commits: a request of what they have read is in flight.
LEMMA ReadInv ==
  ASSUME IInv, NEW r, Start(r), Request(r), UNCHANGED <<cache, tables>>
  PROVE  IInv'
<1>1. /\ IsFiniteSet(req') /\ Cardinality(req') <= MaxRequests /\ req' = req \cup {r}
      /\ calls' = calls + 1 /\ calls < MaxCalls
  BY Few, Started
<1>2. TypeOK'
  BY <1>1, AccountsAssumption DEF IInv, TypeOK, tables
<1>3. Requests'
  <2>1. \A q \in req' : Request(q)
    BY <1>1 DEF IInv, Requests
  <2> QED
    BY <1>1, <2>1 DEF Requests, Request, UserWas, tables
<1>4. FreshIds' /\ Persons' /\ CacheKnows' /\ OpenInvitations'
  BY DEF IInv, FreshIds, Persons, CacheKnows, UserWas, OpenInvitations, Open, tables
<1>5. OneUserPerPerson' /\ DeletedForgotten' /\ OrgsGoEmpty' /\ InvitationReachesUser'
  BY DEF IInv, OneUserPerPerson, DeletedForgotten, Serializable, OrgsGoEmpty,
         InvitationReachesUser, Open, tables
<1> QED
  BY <1>2, <1>3, <1>4, <1>5 DEF IInv

\* Each of them reads what its request says.
LEMMA ReadersInv ==
  ASSUME IInv,
         \/ \E s \in Servers, i \in Idps, v \in BOOLEAN : Login(s, i, v)
         \/ \E u \in Ids : CreateOrganization(u)
         \/ \E u, o \in Ids : DeleteOrganization(u, o)
         \/ \E u, o, v \in Ids : DeleteOrganizationUser(u, o, v)
         \/ \E u, o \in Ids, i \in Idps, owner \in BOOLEAN :
              \E v \in {mail[i], UserOf(i)} : CreateInvitation(u, o, i, v, owner)
         \/ \E u \in Ids : \E k \in DOMAIN invite : AcceptInvitation(u, k)
  PROVE  IInv'
<1>1. ASSUME NEW s \in Servers, NEW i \in Idps, NEW v \in BOOLEAN, Login(s, i, v) PROVE IInv'
  <2> DEFINE r == [op |-> "login", at |-> s, idp |-> i, verified |-> v,
                   found |-> UserOf(i), again |-> FALSE]
  <2>1. /\ UserOf(i) \in Ids \cup {Nobody}
        /\ UserOf(i) # Nobody => UserOf(i) \in live /\ idp[UserOf(i)] = i
    BY UserOfFinds DEF IInv
  <2>2. UserOf(i) # Nobody => UserWas(UserOf(i), i)
    BY <2>1 DEF UserWas, IInv, TypeOK, FreshIds
  <2>3. Request(r)
    BY <2>1, <2>2 DEF Request, LoginRequest
  <2> QED
    BY <1>1, <2>3, ReadInv DEF Login
<1>2. ASSUME NEW u \in Ids, CreateOrganization(u) PROVE IInv'
  <2>1. Request([op |-> "createOrg", by |-> u])
    BY DEF Request
  <2> QED
    BY <1>2, <2>1, ReadInv DEF CreateOrganization
<1>3. ASSUME NEW u \in Ids, NEW o \in Ids, DeleteOrganization(u, o) PROVE IInv'
  <2>1. Request([op |-> "deleteOrg", by |-> u, org |-> o])
    BY DEF Request
  <2> QED
    BY <1>3, <2>1, ReadInv DEF DeleteOrganization
<1>4. ASSUME NEW u \in Ids, NEW o \in Ids, NEW v \in Ids, DeleteOrganizationUser(u, o, v) PROVE IInv'
  <2>1. Request([op |-> "expel", org |-> o, user |-> v])
    BY DEF Request
  <2> QED
    BY <1>4, <2>1, ReadInv DEF DeleteOrganizationUser
<1>5. ASSUME NEW u \in Ids, NEW o \in Ids, NEW i \in Idps, NEW owner \in BOOLEAN,
             NEW v \in {mail[i], UserOf(i)}, CreateInvitation(u, o, i, v, owner)
      PROVE  IInv'
  <2>1. v \in Ids \cup {Nobody}
    BY UserOfFinds DEF IInv, TypeOK
  <2>2. Request([op |-> "invite", org |-> o, email |-> i, for |-> v, owner |-> owner])
    BY <2>1 DEF Request
  <2> QED
    BY <1>5, <2>2, ReadInv DEF CreateInvitation
<1>6. ASSUME NEW u \in Ids, NEW k \in DOMAIN invite, AcceptInvitation(u, k) PROVE IInv'
  <2>1. Request([op |-> "accept", user |-> u, inv |-> k])
    BY DEF Request
  <2> QED
    BY <1>6, <2>1, ReadInv DEF AcceptInvitation
<1> QED
  BY <1>1, <1>2, <1>3, <1>4, <1>5, <1>6

\* Abort, and a retry of LoginDuplicate, change nothing but the request.
LEMMA EndInv ==
  ASSUME IInv, NEW r \in req, Abort(r) \/ LoginDuplicate(r)
  PROVE  IInv'
<1>1. /\ calls' = calls /\ UNCHANGED <<cache, tables>>
      /\ req' = req \ {r} \/ (r.op = "login" /\ req' = (req \ {r}) \cup {[r EXCEPT !.again = TRUE]})
  BY DEF Abort, Finish, LoginDuplicate
<1>2. IsFiniteSet(req') /\ Cardinality(req') <= MaxRequests
  BY <1>1, Few, Replaced
<1>3. TypeOK'
  BY <1>1, <1>2 DEF IInv, TypeOK, tables
<1>4. Requests'
  <2>1. r.op = "login" => Request([r EXCEPT !.again = TRUE])
    <3> SUFFICES ASSUME r.op = "login" PROVE Request([r EXCEPT !.again = TRUE])
      OBVIOUS
    <3>1. r \in LoginRequest /\ Request(r)
      BY DEF IInv, Requests, Request
    <3> DEFINE q == [r EXCEPT !.again = TRUE]
    <3>2. q \in LoginRequest /\ q.op = "login" /\ q.found = r.found /\ q.idp = r.idp
      BY <3>1 DEF LoginRequest
    <3> HIDE DEF q
    <3>3. Request(q)
      BY <3>1, <3>2 DEF Request
    <3> QED
      BY <3>3 DEF q
  <2>2. \A q \in req' : Request(q)
    BY <1>1, <2>1 DEF IInv, Requests
  <2> QED
    BY <1>1, <1>2, <2>2 DEF Requests, Request, UserWas, tables
<1>5. FreshIds' /\ Persons' /\ CacheKnows' /\ OpenInvitations'
  BY <1>1 DEF IInv, FreshIds, Persons, CacheKnows, UserWas, OpenInvitations, Open, tables
<1>6. OneUserPerPerson' /\ DeletedForgotten' /\ OrgsGoEmpty' /\ InvitationReachesUser'
  BY <1>1 DEF IInv, OneUserPerPerson, DeletedForgotten, Serializable, OrgsGoEmpty,
              InvitationReachesUser, Open, tables
<1> QED
  BY <1>3, <1>4, <1>5, <1>6 DEF IInv

\* A commit ends its request, or has another take its place.
LEMMA Finished ==
  ASSUME IInv, NEW r \in req, NEW q,
         Finish(r) \/ (calls' = calls /\ req' = (req \ {r}) \cup {q})
  PROVE  /\ IsFiniteSet(req') /\ Cardinality(req') <= MaxRequests
         /\ req' \subseteq req \cup {q} /\ (Finish(r) => req' \subseteq req)
         /\ calls' \in 0 .. MaxCalls
<1>1. calls' = calls /\ (req' = req \ {r} \/ req' = (req \ {r}) \cup {q})
  BY DEF Finish
<1>2. IsFiniteSet(req') /\ Cardinality(req') <= MaxRequests
  BY <1>1, Few, Replaced
<1> QED
  BY <1>1, <1>2 DEF IInv, TypeOK, Finish

\* LoginExisting: the address becomes that of the user, who gets its invitations.
LEMMA LoginExistingInv ==
  ASSUME IInv, NEW r \in req, LoginExisting(r)
  PROVE  IInv'
<1> DEFINE u == r.found
           i == r.idp
           q == [op |-> "store", at |-> r.at, idp |-> r.idp, user |-> r.found]
<1>0. /\ r \in LoginRequest /\ i \in Idps /\ u \in Ids /\ u # Nobody
      /\ UserWas(u, i) /\ TypeOK
  BY AccountsAssumption DEF IInv, Requests, Request, LoginRequest, LoginExisting
<1>1. /\ UNCHANGED <<dialect, late, idp, live, gone, org, member, attached, cache, next>>
      /\ calls' = calls /\ req' = (req \ {r}) \cup {q}
  BY DEF LoginExisting, Logged
<1>2. /\ IsFiniteSet(req') /\ Cardinality(req') <= MaxRequests
      /\ req' \subseteq req \cup {q} /\ calls' \in 0 .. MaxCalls
  BY <1>1, Finished
<1>3. \/ UNCHANGED <<mail, invite>>
      \/ /\ Serializable => UserOf(i) = u
         /\ mail' = [mail EXCEPT ![i] = u] /\ invite' = Claim(i, u)
  BY DEF LoginExisting
<1>4. /\ InvitesKept
      /\ \A k \in DOMAIN invite : invite'[k].for = Nobody => invite[k].for = Nobody
      /\ mail' \in [Idps -> Ids \cup {Nobody}]
  BY <1>0, <1>3, Claimed, AccountsAssumption DEF InvitesKept, TypeOK
<1>5. TypeOK'
  BY <1>0, <1>1, <1>2, <1>4 DEF TypeOK, InvitesKept
<1>6. Requests'
  <2>1. Request(q)'
    BY <1>0, <1>1 DEF Request, UserWas
  <2>2. \A x \in req : Request(x)'
    BY <1>1, <1>4 DEF IInv, Requests, Request, UserWas, InvitesKept
  <2> QED
    BY <1>2, <2>1, <2>2 DEF Requests
<1>7. FreshIds' /\ Persons' /\ CacheKnows' /\ OneUserPerPerson'
  BY <1>1 DEF IInv, FreshIds, Persons, CacheKnows, UserWas, OneUserPerPerson
<1>8. OpenInvitations' /\ OrgsGoEmpty'
  BY <1>1, <1>4 DEF IInv, OpenInvitations, Open, InvitesKept, OrgsGoEmpty, Serializable
<1>9. DeletedForgotten'
  <2>1. Serializable /\ UserOf(i) = u => u \in live
    BY <1>0, UserOfFinds
  <2>2. Serializable' = Serializable
    BY <1>1 DEF Serializable
  <2>3. \A j \in Idps : cache'[j] \in gone' => cache'[j] \in late'
    BY <1>1 DEF IInv, DeletedForgotten
  <2>4. ASSUME Serializable, NEW j \in Idps, mail'[j] # Nobody PROVE mail'[j] \in live
    <3>1. mail[j] # Nobody => mail[j] \in live
      BY <2>4 DEF IInv, DeletedForgotten
    <3> QED
      BY <1>0, <1>3, <2>1, <2>4, <3>1 DEF TypeOK
  <2> QED
    BY <1>1, <2>2, <2>3, <2>4 DEF DeletedForgotten
<1>10. InvitationReachesUser'
  <2> SUFFICES ASSUME NEW k \in DOMAIN invite, invite'[k].state # "closed",
                      invite'[k].for = Nobody, mail'[invite[k].email] # Nobody, ~ invite[k].raced
               PROVE  FALSE
    BY <1>4 DEF InvitationReachesUser, Open, InvitesKept
  <2>1. invite[k].state # "closed" /\ invite[k].for = Nobody
    BY <1>4 DEF InvitesKept
  <2>2. mail[invite[k].email] = Nobody
    BY <2>1 DEF IInv, InvitationReachesUser, Open
  <2>3. mail' = [mail EXCEPT ![i] = u] /\ invite' = Claim(i, u)
    BY <1>3, <2>2
  <2>4. invite[k].email = i
    BY <1>0, <2>2, <2>3 DEF TypeOK
  <2> QED
    BY <1>0, <2>1, <2>3, <2>4, Claimed
<1> QED
  BY <1>5, <1>6, <1>7, <1>8, <1>9, <1>10 DEF IInv

\* LoginCreate: the new user has an id that nobody had, and its person has no other.
LEMMA LoginCreateInv ==
  ASSUME IInv, NEW r \in req, LoginCreate(r)
  PROVE  IInv'
<1> DEFINE i == r.idp
<1>q. PICK n, q : n = next /\ q = [op |-> "store", at |-> r.at, idp |-> r.idp, user |-> n]
  OBVIOUS
<1>0. r \in LoginRequest /\ i \in Idps /\ TypeOK /\ next \in Ids /\ next \in Nat
  BY DEF IInv, Requests, Request, LoginRequest, LoginCreate, TypeOK
<1>1. /\ next' = next + 1
      /\ idp' = [idp EXCEPT ![next] = i]
      /\ live' = live \cup {next} /\ org' = org \cup {next}
      /\ member' = member \cup {[user |-> next, org |-> next, owner |-> TRUE]}
      /\ UNCHANGED <<dialect, late, gone, attached, cache>>
      /\ calls' = calls /\ req' = (req \ {r}) \cup {q}
  BY <1>q DEF LoginCreate, Logged
<1>2. /\ IsFiniteSet(req') /\ Cardinality(req') <= MaxRequests
      /\ req' \subseteq req \cup {q} /\ calls' \in 0 .. MaxCalls
  BY <1>1, Finished
<1>3. \/ UNCHANGED <<mail, invite>>
      \/ /\ mail' = [mail EXCEPT ![i] = next] /\ invite' = Claim(i, next)
  BY DEF LoginCreate
<1>4. /\ InvitesKept
      /\ \A k \in DOMAIN invite : invite'[k].for = Nobody => invite[k].for = Nobody
      /\ mail' \in [Idps -> Ids \cup {Nobody}]
  <2>1. CASE UNCHANGED <<mail, invite>>
    BY <1>0, <2>1 DEF InvitesKept, TypeOK
  <2>2. CASE mail' = [mail EXCEPT ![i] = next] /\ invite' = Claim(i, next)
    <3>1. next # Nobody
      BY <1>0, AccountsAssumption
    <3>2. InvitesKept /\ \A k \in DOMAIN invite : invite'[k].for \in {next, invite[k].for}
      BY <1>0, <2>2, Claimed
    <3> QED
      BY <1>0, <2>2, <3>1, <3>2 DEF TypeOK
  <2> QED
    BY <1>3, <2>1, <2>2
<1>5. next \notin live \cup gone \cup org
  BY <1>0 DEF IInv, FreshIds
<1>6. \A v \in Ids : v < next => v # next /\ v < next' /\ idp'[v] = idp[v]
  BY <1>0, <1>1 DEF TypeOK, Ids
<1>n. idp'[next] = i
  BY <1>0, <1>1 DEF TypeOK
<1>7. TypeOK'
  <2>1. next' \in 1 .. MaxIds + 1
    BY <1>0, <1>1, AccountsAssumption DEF Ids
  <2>2. /\ idp' \in [Ids -> Idps \cup {Nobody}]
        /\ live' \subseteq Ids /\ gone' \subseteq Ids \ live' /\ org' \subseteq Ids
        /\ member' \subseteq [user : Ids, org : Ids, owner : BOOLEAN]
    <3>1. idp' \in [Ids -> Idps \cup {Nobody}]
      BY <1>0, <1>1 DEF TypeOK
    <3>2. live' \subseteq Ids /\ gone' \subseteq Ids \ live' /\ org' \subseteq Ids
      BY <1>0, <1>1, <1>5 DEF TypeOK
    <3>3. member' \subseteq [user : Ids, org : Ids, owner : BOOLEAN]
      <4>1. [user |-> next, org |-> next, owner |-> TRUE] \in [user : Ids, org : Ids, owner : BOOLEAN]
        BY <1>0
      <4> QED
        BY <1>0, <1>1, <4>1 DEF TypeOK
    <3> QED
      BY <3>1, <3>2, <3>3
  <2> QED
    BY <1>0, <1>1, <1>2, <1>4, <2>1, <2>2 DEF TypeOK, InvitesKept
<1>8. \A v, j : UserWas(v, j) => UserWas(v, j)'
  BY <1>1, <1>6 DEF UserWas
<1>9. Requests'
  <2>1. Request(q)'
    <3>1. UserWas(n, i)'
      BY <1>0, <1>1, <1>5, <1>n, <1>q DEF UserWas
    <3>2. q.op = "store" /\ q.idp = i /\ q.user = n
      BY <1>q
    <3> QED
      BY <1>0, <3>1, <3>2 DEF Request
  <2>2. ASSUME NEW x \in req PROVE Request(x)'
    <3>1. Request(x)
      BY DEF IInv, Requests
    <3>2. x.op = "deleteUser" => x.user \in Ids /\
            (x.user \in live' /\ cache'[idp'[x.user]] = x.user => x.user \in late')
      <4> SUFFICES ASSUME x.op = "deleteUser", x.user \in live', cache'[idp'[x.user]] = x.user
                   PROVE  x.user \in late'
        BY <3>1 DEF Request
      <4>1. x.user \in live
        <5>1. x.user # next
          BY <1>0, <1>1, <1>n, <1>6, AccountsAssumption DEF IInv, CacheKnows, UserWas
        <5> QED
          BY <1>1, <5>1
      <4>2. idp'[x.user] = idp[x.user]
        BY <1>0, <1>6, <4>1 DEF IInv, FreshIds, TypeOK
      <4> QED
        BY <3>1, <1>1, <4>1, <4>2 DEF Request
    <3> QED
      BY <3>1, <3>2, <1>4, <1>8 DEF Request, InvitesKept
  <2> QED
    BY <1>2, <2>1, <2>2 DEF Requests
<1>10. FreshIds'
  BY <1>0, <1>1, <1>6 DEF IInv, FreshIds, TypeOK, Ids
<1>11. Persons'
  BY <1>0, <1>1, <1>6, <1>n DEF IInv, FreshIds, Persons, TypeOK
<1>12. CacheKnows'
  BY <1>1, <1>8 DEF IInv, CacheKnows
<1>13. OpenInvitations' /\ OrgsGoEmpty'
  <2>1. OpenInvitations'
    BY <1>1, <1>4 DEF IInv, OpenInvitations, Open, InvitesKept
  <2>2. OrgsGoEmpty'
    <3>1. \A m \in member' : m.org \notin org' => m \in member /\ m.org \notin org
      BY <1>1
    <3> QED
      BY <1>1, <1>4, <3>1 DEF IInv, InvitesKept, OrgsGoEmpty, Serializable
  <2> QED
    BY <2>1, <2>2
<1>14. OneUserPerPerson'
  <2>1. \A v \in live : idp[v] # i
    BY <1>0, UserOfFinds DEF LoginCreate, MayInsert
  <2>2. \A v \in live : idp'[v] = idp[v]
    BY <1>0, <1>6 DEF IInv, FreshIds, TypeOK
  <2> QED
    BY <1>1, <1>n, <2>1, <2>2 DEF IInv, OneUserPerPerson
<1>15. DeletedForgotten'
  BY <1>0, <1>1, <1>3 DEF IInv, DeletedForgotten, Serializable, TypeOK
<1>16. InvitationReachesUser'
  <2> SUFFICES ASSUME NEW k \in DOMAIN invite, invite'[k].state # "closed",
                      invite'[k].for = Nobody, mail'[invite[k].email] # Nobody, ~ invite[k].raced
               PROVE  FALSE
    BY <1>4 DEF InvitationReachesUser, Open, InvitesKept
  <2>1. invite[k].state # "closed" /\ invite[k].for = Nobody
    BY <1>4 DEF InvitesKept
  <2>2. mail[invite[k].email] = Nobody
    BY <2>1 DEF IInv, InvitationReachesUser, Open
  <2>3. mail' = [mail EXCEPT ![i] = next] /\ invite' = Claim(i, next)
    BY <1>3, <2>2
  <2>4. invite[k].email = i
    BY <1>0, <2>2, <2>3 DEF TypeOK
  <2> QED
    BY <1>0, <2>1, <2>3, <2>4, Claimed, AccountsAssumption
<1> QED
  BY <1>7, <1>9, <1>10, <1>11, <1>12, <1>13, <1>14, <1>15, <1>16 DEF IInv

\* StoreId: a deleted user is put back into the cache only if it was deleted meanwhile.
LEMMA StoreIdInv ==
  ASSUME IInv, NEW r \in req, StoreId(r)
  PROVE  IInv'
<1>0. r.op = "store" /\ r.idp \in Idps /\ UserWas(r.user, r.idp) /\ TypeOK
  BY DEF IInv, Requests, Request, StoreId
<1>1. /\ \/ /\ cache' = [cache EXCEPT ![r.idp] = r.user]
            /\ late' = late \cup {u \in {r.user} : \E q \in req : q.op = "deleteUser" /\ q.user = u}
         \/ cache' = cache /\ late' = late
      /\ UNCHANGED <<dialect, idp, live, gone, mail, org, member, invite, attached, next>>
  BY DEF StoreId
<1>2. /\ IsFiniteSet(req') /\ Cardinality(req') <= MaxRequests
      /\ req' \subseteq req /\ calls' \in 0 .. MaxCalls
  BY Finished DEF StoreId
<1>3. \A v, j : UserWas(v, j) => UserWas(v, j)'
  BY <1>1 DEF UserWas
<1>4. TypeOK'
  BY <1>0, <1>1, <1>2 DEF TypeOK, UserWas
<1>5. Requests'
  <2> SUFFICES ASSUME NEW x \in req PROVE Request(x)'
    BY <1>2 DEF Requests
  <2>1. Request(x)
    BY DEF IInv, Requests
  <2>2. x.op = "deleteUser" /\ x.user \in live /\ cache'[idp[x.user]] = x.user => x.user \in late'
    <3> SUFFICES ASSUME x.op = "deleteUser", x.user \in live, cache'[idp[x.user]] = x.user
                 PROVE  x.user \in late'
      OBVIOUS
    <3>1. CASE x.user = r.user
      BY <1>1, <2>1, <3>1 DEF Request
    <3>2. CASE x.user # r.user
      <4>1. idp[x.user] \in Idps
        BY DEF IInv, Persons
      <4>2. cache[idp[x.user]] = x.user
        BY <1>0, <1>1, <3>2, <4>1 DEF TypeOK
      <4> QED
        BY <1>1, <2>1, <4>2 DEF Request
    <3> QED
      BY <3>1, <3>2
  <2> QED
    BY <1>1, <1>3, <2>1, <2>2 DEF Request
<1>6. FreshIds' /\ Persons' /\ OpenInvitations' /\ OneUserPerPerson' /\ OrgsGoEmpty'
      /\ InvitationReachesUser'
  BY <1>1 DEF IInv, FreshIds, Persons, OpenInvitations, Open, OneUserPerPerson, OrgsGoEmpty,
              Serializable, InvitationReachesUser
<1>7. CacheKnows'
  BY <1>0, <1>1, <1>3 DEF IInv, CacheKnows, TypeOK
<1>8. DeletedForgotten'
  <2>1. \A i \in Idps : cache'[i] \in gone' => cache'[i] \in late'
    BY <1>0, <1>1 DEF IInv, DeletedForgotten, UserWas, TypeOK
  <2> QED
    BY <1>1, <2>1 DEF IInv, DeletedForgotten, Serializable
<1> QED
  BY <1>4, <1>5, <1>6, <1>7, <1>8 DEF IInv

\* The invitations that an action leaves alone are kept.
LEMMA InvitesUntouched ==
  ASSUME TypeOK, invite' = invite PROVE InvitesKept
BY DEF TypeOK, InvitesKept

\* What holds still when no user comes or goes, no address changes hands, and the
\* cache forgets at most.
LEMMA UsersKept ==
  ASSUME IInv, UNCHANGED <<dialect, late, idp, live, gone, mail>>,
         \A i \in Idps : cache'[i] \in {Nobody, cache[i]},
         next <= next', next' \in Nat, InvitesKept,
         \A k \in DOMAIN invite : invite'[k].for = invite[k].for,
         IsFiniteSet(req'), req' \subseteq req
  PROVE  Requests' /\ Persons' /\ CacheKnows' /\ OneUserPerPerson' /\ DeletedForgotten'
         /\ InvitationReachesUser'
<1>0. Nobody \notin Ids /\ next \in Nat /\ gone \subseteq Ids /\ \A u \in Ids : u \in Nat
  BY AccountsAssumption DEF IInv, TypeOK, Ids
<1>1. \A v, j : UserWas(v, j) => UserWas(v, j)'
  BY <1>0 DEF UserWas
<1>2. Requests'
  <2> SUFFICES ASSUME NEW x \in req PROVE Request(x)'
    BY DEF Requests
  <2>1. Request(x)
    BY DEF IInv, Requests
  <2>2. x.op = "deleteUser" /\ x.user \in live /\ cache'[idp[x.user]] = x.user => x.user \in late
    BY <1>0, <2>1 DEF IInv, Persons, Request
  <2> QED
    BY <1>1, <2>1, <2>2 DEF Request, InvitesKept
<1>3. Persons' /\ CacheKnows' /\ OneUserPerPerson'
  BY <1>0, <1>1 DEF IInv, Persons, CacheKnows, OneUserPerPerson
<1>4. DeletedForgotten'
  BY <1>0 DEF IInv, DeletedForgotten, Serializable
<1>5. InvitationReachesUser'
  BY DEF IInv, InvitationReachesUser, Open, InvitesKept
<1> QED
  BY <1>2, <1>3, <1>4, <1>5

\* CreateOrganizationCommit: the organization has a fresh id, and its owner is in it.
LEMMA CreateOrganizationInv ==
  ASSUME IInv, NEW r \in req, CreateOrganizationCommit(r)
  PROVE  IInv'
<1>0. TypeOK /\ r.by \in Ids /\ next \in Ids /\ next \in Nat
  BY DEF IInv, Requests, Request, CreateOrganizationCommit, TypeOK
<1>1. /\ next' = next + 1 /\ org' = org \cup {next}
      /\ member' = member \cup {[user |-> r.by, org |-> next, owner |-> TRUE]}
      /\ UNCHANGED <<dialect, late, idp, live, gone, mail, invite, attached, cache>>
  BY DEF CreateOrganizationCommit
<1>2. /\ IsFiniteSet(req') /\ Cardinality(req') <= MaxRequests
      /\ req' \subseteq req /\ calls' \in 0 .. MaxCalls
  BY Finished DEF CreateOrganizationCommit
<1>3. TypeOK'
  <2>1. next' \in 1 .. MaxIds + 1
    BY <1>0, <1>1, AccountsAssumption DEF Ids
  <2>2. [user |-> r.by, org |-> next, owner |-> TRUE] \in [user : Ids, org : Ids, owner : BOOLEAN]
    BY <1>0
  <2>3. org' \subseteq Ids /\ member' \subseteq [user : Ids, org : Ids, owner : BOOLEAN]
    BY <1>0, <1>1, <2>2 DEF TypeOK
  <2> QED
    BY <1>0, <1>1, <1>2, <2>1, <2>3 DEF TypeOK
<1>4. Requests' /\ Persons' /\ CacheKnows' /\ OneUserPerPerson' /\ DeletedForgotten'
      /\ InvitationReachesUser'
  BY <1>0, <1>1, <1>2, InvitesUntouched, UsersKept
<1>5. FreshIds'
  BY <1>0, <1>1 DEF IInv, FreshIds, TypeOK, Ids
<1>6. OpenInvitations'
  BY <1>1 DEF IInv, OpenInvitations, Open
<1>7. OrgsGoEmpty'
  <2>1. \A m \in member' : m.org \notin org' => m \in member /\ m.org \notin org
    BY <1>1
  <2> QED
    BY <1>1, <2>1 DEF IInv, OrgsGoEmpty, Serializable
<1> QED
  BY <1>3, <1>4, <1>5, <1>6, <1>7 DEF IInv

\* DeleteOrganizationCommit: members and invitations end with the organization, and
\* what MayDeleteOrg has seen of its devices still holds where that is promised.
LEMMA DeleteOrganizationInv ==
  ASSUME IInv, NEW r \in req, DeleteOrganizationCommit(r)
  PROVE  IInv'
<1> DEFINE K == {k \in DOMAIN invite : invite[k].org \in {r.org}}
<1>0. TypeOK
  BY DEF IInv
<1>1. /\ org' = org \ {r.org} /\ member' = {m \in member : m.org # r.org}
      /\ invite' = [k \in DOMAIN invite |->
                     IF k \in K THEN [invite[k] EXCEPT !.state = "closed"] ELSE invite[k]]
      /\ Serializable => \A p \in attached : p[2] # r.org
      /\ UNCHANGED <<dialect, late, idp, live, gone, mail, attached, cache, next>>
  BY DEF DeleteOrganizationCommit, DropOrgs, Outside, MayDeleteOrg, Unused
<1>2. /\ IsFiniteSet(req') /\ Cardinality(req') <= MaxRequests
      /\ req' \subseteq req /\ calls' \in 0 .. MaxCalls
  BY Finished DEF DeleteOrganizationCommit
<1>3. /\ InvitesKept
      /\ \A k \in DOMAIN invite : /\ invite'[k].for = invite[k].for
                                  /\ k \in K => invite'[k].state = "closed"
  <2> HIDE DEF K
  <2> QED
    BY <1>0, <1>1, Marked
<1>4. TypeOK'
  BY <1>0, <1>1, <1>2, <1>3 DEF TypeOK, InvitesKept
<1>5. Requests' /\ Persons' /\ CacheKnows' /\ OneUserPerPerson' /\ DeletedForgotten'
      /\ InvitationReachesUser'
  <2>1. next \in Nat
    BY <1>0 DEF TypeOK
  <2> QED
    BY <1>1, <1>2, <1>3, <2>1, UsersKept
<1>6. FreshIds'
  BY <1>1 DEF IInv, FreshIds
<1>7. OpenInvitations'
  BY <1>1, <1>3 DEF IInv, OpenInvitations, Open, InvitesKept
<1>8. OrgsGoEmpty'
  BY <1>1, <1>3 DEF IInv, OrgsGoEmpty, Serializable, InvitesKept
<1> QED
  BY <1>4, <1>5, <1>6, <1>7, <1>8 DEF IInv

\* DeleteUser, up to its commit: Redis has forgotten the person, or was not there.
LEMMA DeleteUserInv ==
  ASSUME IInv, NEW u \in Ids, NEW first, DeleteUser(u, first)
  PROVE  IInv'
<1> DEFINE r == [op |-> "deleteUser", user |-> u, doomed |-> Doomed(u, first),
                 leaves |-> first # Nobody]
<1>0. TypeOK /\ u \in live /\ idp[u] \in Idps /\ Nobody \notin Ids
  BY AccountsAssumption DEF IInv, DeleteUser, MayDeleteUser, Persons
<1>1. /\ UNCHANGED <<dialect, idp, live, gone, mail, org, member, invite, attached, next>>
      /\ Start(r)
      /\ \/ cache' = [cache EXCEPT ![idp[u]] = Nobody] /\ late' = late \ {u}
         \/ cache' = cache /\ late' = late \cup ({u} \cap {cache[idp[u]]})
  BY DEF DeleteUser, ForgetPerson
<1>2. /\ IsFiniteSet(req') /\ Cardinality(req') <= MaxRequests /\ req' = req \cup {r}
      /\ calls' = calls + 1 /\ calls < MaxCalls
  BY <1>1, Few, Started
<1>3. TypeOK'
  <2>1. calls' \in 0 .. MaxCalls
    BY <1>0, <1>2, AccountsAssumption DEF TypeOK
  <2>2. cache' \in [Idps -> Ids \cup {Nobody}]
    BY <1>0, <1>1 DEF TypeOK
  <2> QED
    BY <1>0, <1>1, <1>2, <2>1, <2>2 DEF TypeOK
<1>4. /\ \A i \in Idps : cache'[i] \in {Nobody, cache[i]}
      /\ cache'[idp[u]] = u => u \in late'
      /\ \A v : v # u => (v \in late' <=> v \in late)
      /\ u \notin gone
  BY <1>0, <1>1 DEF TypeOK
<1>5. Requests'
  <2>1. ASSUME NEW x \in req PROVE Request(x)'
    <3>1. Request(x)
      BY DEF IInv, Requests
    <3>2. x.op = "deleteUser" /\ x.user \in live /\ cache'[idp[x.user]] = x.user => x.user \in late'
      BY <1>0, <1>4, <3>1 DEF IInv, Persons, Request
    <3>3. \A v, j : UserWas(v, j) => UserWas(v, j)'
      BY <1>1, <1>4 DEF UserWas
    <3> QED
      BY <1>1, <3>1, <3>2, <3>3 DEF Request
  <2>2. cache'[idp'[u]] = u => u \in late'
    BY <1>1, <1>4
  <2>3. \A x \in {r} : Request(x)'
    <3> SUFFICES ASSUME NEW x, x.op = "deleteUser", x.user = u PROVE Request(x)'
      OBVIOUS
    <3> QED
      BY <2>2 DEF Request
  <2> QED
    BY <1>2, <2>1, <2>3 DEF Requests
<1>6. CacheKnows' /\ DeletedForgotten'
  BY <1>0, <1>1, <1>4 DEF IInv, TypeOK, CacheKnows, UserWas, DeletedForgotten, Serializable
<1>7. FreshIds' /\ Persons' /\ OneUserPerPerson' /\ OpenInvitations' /\ OrgsGoEmpty'
      /\ InvitationReachesUser'
  BY <1>1 DEF IInv, FreshIds, Persons, OneUserPerPerson, OpenInvitations, Open, OrgsGoEmpty,
              Serializable, InvitationReachesUser
<1> QED
  BY <1>3, <1>5, <1>6, <1>7 DEF IInv

\* DeleteUserCommit: a person that is being logged in meanwhile makes its user late.
LEMMA DeleteUserCommitInv ==
  ASSUME IInv, NEW r \in req, DeleteUserCommit(r)
  PROVE  IInv'
<1> DEFINE u == r.user
           K == {k \in DOMAIN invite : invite[k].org \in r.doomed \/ invite[k].for = u}
<1>0. TypeOK /\ u \in Ids /\ Nobody \notin Ids /\ r.op = "deleteUser"
  BY AccountsAssumption DEF IInv, Requests, Request, DeleteUserCommit
<1>1. /\ live' = live \ {u} /\ gone' = gone \cup (live \cap {u})
      /\ late' = late \cup {v \in {u} : \E q \in req : q.op \in {"login", "store"}
                                                    /\ q.idp = idp[u]}
      /\ mail' = Forget(u) /\ org' = org \ r.doomed
      /\ member' \subseteq {m \in member : m.org \notin r.doomed}
      /\ invite' = [k \in DOMAIN invite |->
                     IF k \in K THEN [invite[k] EXCEPT !.state = "closed"] ELSE invite[k]]
      /\ Serializable => \A p \in attached : p[2] \notin r.doomed
      /\ UNCHANGED <<dialect, idp, attached, cache, next>>
  BY DEF DeleteUserCommit, Outside, MayDeleteUser, Unused
<1>2. /\ IsFiniteSet(req') /\ Cardinality(req') <= MaxRequests
      /\ req' \subseteq req /\ calls' \in 0 .. MaxCalls
  BY Finished DEF DeleteUserCommit
<1>3. /\ InvitesKept
      /\ \A k \in DOMAIN invite : /\ invite'[k].for = invite[k].for
                                  /\ k \in K => invite'[k].state = "closed"
  <2> HIDE DEF K
  <2> QED
    BY <1>0, <1>1, Marked
<1>4. /\ mail' \in [Idps -> Ids \cup {Nobody}]
      /\ \A i \in Idps : mail'[i] = IF mail[i] = u THEN Nobody ELSE mail[i]
  BY <1>0, <1>1 DEF TypeOK, Forget
<1>5. TypeOK'
  BY <1>0, <1>1, <1>2, <1>3, <1>4 DEF TypeOK, InvitesKept
\* Whoever is still known as a person's user is late, if it was deleted.
<1>6. \A v, j : UserWas(v, j) /\ (v # u \/ u \notin live \/ u \in late') => UserWas(v, j)'
  BY <1>1 DEF UserWas
<1>7. Requests'
  <2> SUFFICES ASSUME NEW x \in req PROVE Request(x)'
    BY <1>2 DEF Requests
  <2>1. Request(x)
    BY DEF IInv, Requests
  <2>2. ASSUME x.op \in {"login", "store"}, NEW v, UserWas(v, x.idp) PROVE UserWas(v, x.idp)'
    <3>1. v = u => idp[u] = x.idp
      BY <2>2 DEF UserWas
    <3>2. v = u => u \in late'
      BY <1>1, <2>2, <3>1
    <3> QED
      BY <1>6, <2>2, <3>2
  <2>3. x.op = "deleteUser" /\ x.user \in live' /\ cache'[idp'[x.user]] = x.user => x.user \in late'
    BY <1>1, <2>1 DEF Request
  <2> QED
    BY <1>3, <2>1, <2>2, <2>3 DEF Request, InvitesKept
<1>8. CacheKnows'
  <2> SUFFICES ASSUME NEW i \in Idps, cache[i] # Nobody PROVE UserWas(cache[i], i)'
    BY <1>1 DEF CacheKnows
  <2>1. UserWas(cache[i], i)
    BY DEF IInv, CacheKnows
  <2>2. cache[i] = u /\ u \in live => u \in late
    BY <1>0, <2>1 DEF IInv, Requests, Request, UserWas
  <2>3. cache[i] # u \/ u \notin live \/ u \in late'
    BY <1>1, <2>2
  <2> QED
    BY <1>1, <2>1, <2>3 DEF UserWas
<1>9. DeletedForgotten'
  <2>1. \A i \in Idps : cache'[i] \in gone' => cache'[i] \in late'
    BY <1>0, <1>5, <1>8 DEF CacheKnows, UserWas, TypeOK
  <2>2. Serializable => \A i \in Idps : mail'[i] # Nobody => mail'[i] \in live'
    BY <1>1, <1>4 DEF IInv, DeletedForgotten
  <2> QED
    BY <1>1, <2>1, <2>2 DEF DeletedForgotten, Serializable
<1>10. FreshIds' /\ Persons' /\ OneUserPerPerson'
  BY <1>1 DEF IInv, FreshIds, Persons, OneUserPerPerson
<1>11. OpenInvitations'
  BY <1>1, <1>3 DEF IInv, OpenInvitations, Open, InvitesKept
<1>12. OrgsGoEmpty'
  BY <1>1, <1>3 DEF IInv, OrgsGoEmpty, Serializable, InvitesKept
<1>13. InvitationReachesUser'
  <2> SUFFICES ASSUME NEW k \in DOMAIN invite, invite'[k].state # "closed",
                      invite[k].for = Nobody, mail'[invite[k].email] # Nobody
               PROVE  invite[k].raced
    BY <1>3 DEF InvitationReachesUser, Open, InvitesKept
  <2>1. invite[k].email \in Idps
    <3>1. invite[k] \in Invitation
      BY <1>0, ElementOfSeq DEF TypeOK
    <3> QED
      BY <3>1 DEF Invitation
  <2> QED
    BY <1>0, <1>3, <1>4, <2>1 DEF IInv, InvitationReachesUser, Open, InvitesKept
<1> QED
  BY <1>5, <1>7, <1>8, <1>9, <1>10, <1>11, <1>12, <1>13 DEF IInv

\* Members and devices come and go without a transaction of their own, or with one
\* that touches nothing else: a device only in an organization that is there.
LEMMA MembershipInv ==
  ASSUME IInv, UNCHANGED <<dialect, late, idp, live, gone, mail, org, invite, next>>,
         \A i \in Idps : cache'[i] \in {Nobody, cache[i]}, cache' \in [Idps -> Ids \cup {Nobody}],
         member' \subseteq member,
         \A p \in attached' : p \in attached \/ (p \in Ids \X Ids /\ p[2] \in org),
         IsFiniteSet(req'), Cardinality(req') <= MaxRequests, req' \subseteq req,
         calls' \in 0 .. MaxCalls
  PROVE  IInv'
<1>0. TypeOK /\ next \in Nat
  BY DEF IInv, TypeOK
<1>1. TypeOK'
  BY <1>0 DEF TypeOK
<1>2. Requests' /\ Persons' /\ CacheKnows' /\ OneUserPerPerson' /\ DeletedForgotten'
      /\ InvitationReachesUser'
  BY <1>0, InvitesUntouched, UsersKept
<1>3. FreshIds' /\ OpenInvitations'
  BY DEF IInv, FreshIds, OpenInvitations, Open
<1>4. OrgsGoEmpty'
  BY DEF IInv, OrgsGoEmpty, Serializable
<1> QED
  BY <1>1, <1>2, <1>3, <1>4 DEF IInv

\* What a call that is one step leaves of the bounds.
LEMMA Called ==
  ASSUME IInv, Call, req' = req
  PROVE  IsFiniteSet(req') /\ Cardinality(req') <= MaxRequests /\ calls' \in 0 .. MaxCalls
<1>1. calls' = calls + 1 /\ calls < MaxCalls /\ calls \in Nat
  BY AccountsAssumption DEF Call, IInv, TypeOK
<1> QED
  BY <1>1, Few, AccountsAssumption

\* The handlers that change memberships or devices only.
LEMMA MembersInv ==
  ASSUME IInv,
         \/ \E u, o \in Ids : DeleteUserFromOrganization(u, o) \/ AddDevice(u, o)
         \/ \E p \in attached : RemoveDevice(p)
         \/ \E r \in req : DeleteOrganizationUserCommit(r)
  PROVE  IInv'
<1>0. TypeOK
  BY DEF IInv
<1>1. ASSUME NEW u \in Ids, NEW o \in Ids, DeleteUserFromOrganization(u, o) PROVE IInv'
  <2>1. /\ cache' = [cache EXCEPT ![idp[u]] = Nobody] \/ cache' = cache
        /\ idp[u] \in Idps
    BY <1>1 DEF DeleteUserFromOrganization, ForgetPerson, IInv, Persons
  <2>2. cache' \in [Idps -> Ids \cup {Nobody}] /\ \A i \in Idps : cache'[i] \in {Nobody, cache[i]}
    BY <1>0, <2>1 DEF TypeOK
  <2>3. /\ UNCHANGED <<dialect, late, idp, live, gone, mail, org, invite, next, attached, req>>
        /\ member' \subseteq member /\ Call
    BY <1>1 DEF DeleteUserFromOrganization
  <2>4. IsFiniteSet(req') /\ Cardinality(req') <= MaxRequests /\ calls' \in 0 .. MaxCalls
    BY <2>3, Called
  <2> QED
    BY <2>2, <2>3, <2>4, MembershipInv
<1>2. ASSUME NEW u \in Ids, NEW o \in Ids, AddDevice(u, o) PROVE IInv'
  <2>1. /\ UNCHANGED <<dialect, late, idp, live, gone, mail, org, invite, next, member, cache, req>>
        /\ attached' = attached \cup {<<u, o>>} /\ o \in org /\ Call
    BY <1>2 DEF AddDevice
  <2>2. IsFiniteSet(req') /\ Cardinality(req') <= MaxRequests /\ calls' \in 0 .. MaxCalls
    BY <2>1, Called
  <2>3. \A p \in attached' : p \in attached \/ (p \in Ids \X Ids /\ p[2] \in org)
    BY <2>1
  <2>4. cache' \in [Idps -> Ids \cup {Nobody}] /\ \A i \in Idps : cache'[i] \in {Nobody, cache[i]}
    BY <1>0, <2>1 DEF TypeOK
  <2> QED
    BY <2>1, <2>2, <2>3, <2>4, MembershipInv
<1>3. ASSUME NEW p \in attached, RemoveDevice(p) PROVE IInv'
  <2>1. /\ UNCHANGED <<dialect, late, idp, live, gone, mail, org, invite, next, member, cache, req>>
        /\ attached' \subseteq attached /\ Call
    BY <1>3 DEF RemoveDevice
  <2>2. IsFiniteSet(req') /\ Cardinality(req') <= MaxRequests /\ calls' \in 0 .. MaxCalls
    BY <2>1, Called
  <2>3. cache' \in [Idps -> Ids \cup {Nobody}] /\ \A i \in Idps : cache'[i] \in {Nobody, cache[i]}
    BY <1>0, <2>1 DEF TypeOK
  <2> QED
    BY <2>1, <2>2, <2>3, MembershipInv
<1>4. ASSUME NEW r \in req, DeleteOrganizationUserCommit(r) PROVE IInv'
  <2>1. /\ UNCHANGED <<dialect, late, idp, live, gone, mail, org, invite, next, cache>>
        /\ attached' \subseteq attached /\ member' \subseteq member
    BY <1>4 DEF DeleteOrganizationUserCommit
  <2>2. /\ IsFiniteSet(req') /\ Cardinality(req') <= MaxRequests
        /\ req' \subseteq req /\ calls' \in 0 .. MaxCalls
    BY <1>4, Finished DEF DeleteOrganizationUserCommit
  <2>3. cache' \in [Idps -> Ids \cup {Nobody}] /\ \A i \in Idps : cache'[i] \in {Nobody, cache[i]}
    BY <1>0, <2>1 DEF TypeOK
  <2> QED
    BY <2>1, <2>2, <2>3, MembershipInv
<1> QED
  BY <1>1, <1>2, <1>3, <1>4

\* CreateInvitationCommit: what it read may hold no more, and then it raced.
LEMMA CreateInvitationInv ==
  ASSUME IInv, NEW r \in req, CreateInvitationCommit(r)
  PROVE  IInv'
<1> DEFINE new == [for |-> r.for, email |-> r.email, org |-> r.org,
                   owner |-> r.owner, state |-> "open",
                   raced |-> \/ r.for = Nobody /\ mail[r.email] # Nobody
                             \/ r.org \notin org]
<1>0. /\ TypeOK /\ r.for \in Ids \cup {Nobody} /\ r.email \in Idps
      /\ r.org \in Ids /\ r.owner \in BOOLEAN
  BY DEF IInv, Requests, Request, CreateInvitationCommit
<1>1. /\ invite' = Append(invite, new) /\ Len(invite) < MaxInvites
      /\ UNCHANGED <<dialect, late, idp, live, gone, mail, org, member, attached, cache, next>>
  BY DEF CreateInvitationCommit
<1>2. /\ IsFiniteSet(req') /\ Cardinality(req') <= MaxRequests
      /\ req' \subseteq req /\ calls' \in 0 .. MaxCalls
  BY Finished DEF CreateInvitationCommit
<1>3. new \in Invitation
  <2>1. (\/ r.for = Nobody /\ mail[r.email] # Nobody
         \/ r.org \notin org) \in BOOLEAN
    OBVIOUS
  <2> QED
    BY <1>0, <2>1 DEF Invitation
<1>n. /\ new.org = r.org /\ new.for = r.for /\ new.email = r.email
      /\ new.raced = (\/ r.for = Nobody /\ mail[r.email] # Nobody
                      \/ r.org \notin org)
  OBVIOUS
<1>4. /\ invite' \in Seq(Invitation) /\ Len(invite') <= MaxInvites
      /\ DOMAIN invite' = DOMAIN invite \cup {Len(invite) + 1}
      /\ \A k \in DOMAIN invite : k # Len(invite) + 1 /\ invite'[k] = invite[k]
      /\ invite'[Len(invite) + 1] = new
  <2>1. invite \in Seq(Invitation)
    BY <1>0 DEF TypeOK
  <2> HIDE DEF new
  <2>2. /\ Append(invite, new) \in Seq(Invitation)
        /\ Len(Append(invite, new)) = Len(invite) + 1 /\ Len(invite) \in Nat
        /\ \A k \in 1 .. Len(invite) : Append(invite, new)[k] = invite[k]
        /\ Append(invite, new)[Len(invite) + 1] = new
    BY <1>3, <2>1, AppendProperties, LenProperties
  <2>3. DOMAIN invite = 1 .. Len(invite) /\ DOMAIN invite' = 1 .. Len(invite) + 1
    BY <1>1, <2>1, <2>2, LenProperties
  <2> QED
    BY <1>1, <2>2, <2>3, AccountsAssumption
<1> HIDE DEF new
<1>5. TypeOK'
  BY <1>0, <1>1, <1>2, <1>4 DEF TypeOK
<1>6. Requests'
  BY <1>1, <1>2, <1>4 DEF IInv, Requests, Request, UserWas
<1>7. FreshIds' /\ Persons' /\ CacheKnows' /\ OneUserPerPerson' /\ DeletedForgotten'
  BY <1>1 DEF IInv, FreshIds, Persons, CacheKnows, UserWas, OneUserPerPerson, DeletedForgotten,
              Serializable
<1>8. OpenInvitations'
  BY <1>1, <1>4, <1>n DEF IInv, OpenInvitations, Open
<1>9. OrgsGoEmpty'
  BY <1>1, <1>4 DEF IInv, OrgsGoEmpty, Serializable
<1>10. InvitationReachesUser'
  <2> SUFFICES ASSUME NEW k \in DOMAIN invite', Open(k)', invite'[k].for = Nobody,
                      mail[invite'[k].email] # Nobody
               PROVE  invite'[k].raced
    BY <1>1 DEF InvitationReachesUser
  <2>1. CASE k \in DOMAIN invite
    BY <1>4, <2>1 DEF IInv, InvitationReachesUser, Open
  <2>2. CASE k = Len(invite) + 1
    <3>1. invite'[k] = new
      BY <1>4, <2>2
    <3> QED
      BY <1>n, <3>1
  <2> QED
    BY <1>4, <2>1, <2>2
<1> QED
  BY <1>5, <1>6, <1>7, <1>8, <1>9, <1>10 DEF IInv

\* AcceptInvitationCommit: where what was read still holds, the invitation is open, so
\* its organization is there or the invitation outlived it.
LEMMA AcceptInvitationInv ==
  ASSUME IInv, NEW r \in req, AcceptInvitationCommit(r)
  PROVE  IInv'
<1> DEFINE j == r.inv
           inv == invite[j]
<1>0. /\ TypeOK /\ r.user \in Ids /\ j \in DOMAIN invite
      /\ inv.org \in Ids /\ inv.owner \in BOOLEAN
  <2>1. TypeOK /\ r.user \in Ids /\ j \in DOMAIN invite
    BY DEF IInv, Requests, Request, AcceptInvitationCommit
  <2>2. inv \in Invitation
    BY <2>1, ElementOfSeq DEF TypeOK
  <2> QED
    BY <2>1, <2>2 DEF Invitation
<1>1. /\ member' = member \cup {[user |-> r.user, org |-> inv.org, owner |-> inv.owner]}
      /\ invite' = [k \in DOMAIN invite |->
                      IF k \in {j} THEN [invite[k] EXCEPT !.state = "closed"] ELSE invite[k]]
      /\ Serializable => Open(j)
      /\ UNCHANGED <<dialect, late, idp, live, gone, mail, org, attached, cache, next>>
  BY DEF AcceptInvitationCommit, MayAccept
<1>2. /\ IsFiniteSet(req') /\ Cardinality(req') <= MaxRequests
      /\ req' \subseteq req /\ calls' \in 0 .. MaxCalls
  BY Finished DEF AcceptInvitationCommit
<1>3. InvitesKept /\ \A k \in DOMAIN invite : invite'[k].for = invite[k].for
  BY <1>0, <1>1, Marked
<1>4. TypeOK'
  <2>1. [user |-> r.user, org |-> inv.org, owner |-> inv.owner] \in [user : Ids, org : Ids, owner : BOOLEAN]
    BY <1>0
  <2> QED
    BY <1>0, <1>1, <1>2, <1>3, <2>1 DEF TypeOK, InvitesKept
<1>5. Requests' /\ Persons' /\ CacheKnows' /\ OneUserPerPerson' /\ DeletedForgotten'
      /\ InvitationReachesUser'
  <2>1. next \in Nat
    BY <1>0 DEF TypeOK
  <2> QED
    BY <1>1, <1>2, <1>3, <2>1, UsersKept
<1>6. FreshIds'
  BY <1>1 DEF IInv, FreshIds
<1>7. OpenInvitations'
  BY <1>1, <1>3 DEF IInv, OpenInvitations, Open, InvitesKept
<1>8. OrgsGoEmpty'
  <2> SUFFICES ASSUME Serializable
               PROVE  /\ \A p \in attached : p[2] \in org
                      /\ \A m \in member' : m.org \notin org =>
                           \E k \in DOMAIN invite : invite[k].org = m.org /\ invite[k].raced
    BY <1>1, <1>3 DEF OrgsGoEmpty, Serializable, InvitesKept
  <2>1. inv.org \notin org => inv.raced
    BY <1>0, <1>1 DEF IInv, OpenInvitations
  <2>2. \A m \in member' : m \in member \/ m.org = inv.org
    BY <1>1
  <2> QED
    BY <1>0, <2>1, <2>2 DEF IInv, OrgsGoEmpty
<1> QED
  BY <1>4, <1>5, <1>6, <1>7, <1>8 DEF IInv

\* DeleteInvitation and the expiry of an invitation.
LEMMA InvitationEndsInv ==
  ASSUME IInv, NEW j \in DOMAIN invite, (\E u \in Ids : DeleteInvitation(u, j)) \/ Expire(j)
  PROVE  IInv'
<1>0. TypeOK
  BY DEF IInv
<1>1. PICK x \in {"expired", "closed"} :
        /\ invite' = [invite EXCEPT ![j].state = x]
        /\ invite[j].state # "closed"
        /\ UNCHANGED <<dialect, late, idp, live, gone, mail, org, member, attached, cache, next, req>>
        /\ Call
  BY DEF DeleteInvitation, Expire, Open
<1>2. IsFiniteSet(req') /\ Cardinality(req') <= MaxRequests /\ calls' \in 0 .. MaxCalls
  BY <1>1, Called
<1>3. InvitesKept /\ \A k \in DOMAIN invite : invite'[k].for = invite[k].for
  <2>1. invite' = [k \in DOMAIN invite |->
                     IF k \in {j} THEN [invite[k] EXCEPT !.state = x] ELSE invite[k]]
    BY <1>1
  <2>2. \A k \in {j} : k \in DOMAIN invite => invite[k].state # "closed"
    BY <1>1
  <2> QED
    BY <1>0, <2>1, <2>2, Marked
<1>4. TypeOK'
  BY <1>0, <1>1, <1>2, <1>3 DEF TypeOK, InvitesKept
<1>5. Requests' /\ Persons' /\ CacheKnows' /\ OneUserPerPerson' /\ DeletedForgotten'
      /\ InvitationReachesUser'
  <2>1. next \in Nat
    BY <1>0 DEF TypeOK
  <2> QED
    BY <1>1, <1>2, <1>3, <2>1, UsersKept
<1>6. FreshIds' /\ OpenInvitations' /\ OrgsGoEmpty'
  BY <1>1, <1>3 DEF IInv, FreshIds, OpenInvitations, Open, OrgsGoEmpty, Serializable, InvitesKept
<1> QED
  BY <1>4, <1>5, <1>6 DEF IInv

\* GarbageCollect: a deleted user's row goes, with an address it may still have.
LEMMA GarbageCollectInv ==
  ASSUME IInv, NEW u \in gone, GarbageCollect(u)
  PROVE  IInv'
<1>0. TypeOK /\ u \in Ids /\ u \notin live /\ Nobody \notin Ids
  BY AccountsAssumption DEF IInv, TypeOK
<1>1. /\ gone' = gone \ {u} /\ mail' = Forget(u) /\ Call
      /\ UNCHANGED <<dialect, late, idp, live, org, member, invite, attached, cache, next, req>>
  BY DEF GarbageCollect
<1>2. IsFiniteSet(req') /\ Cardinality(req') <= MaxRequests /\ calls' \in 0 .. MaxCalls
  BY <1>1, Called
<1>3. /\ mail' \in [Idps -> Ids \cup {Nobody}]
      /\ \A i \in Idps : mail'[i] = IF mail[i] = u THEN Nobody ELSE mail[i]
  BY <1>0, <1>1 DEF TypeOK, Forget
<1>4. TypeOK'
  BY <1>0, <1>1, <1>2, <1>3 DEF TypeOK
<1>5. Requests'
  BY <1>1, <1>2 DEF IInv, Requests, Request, UserWas
<1>6. FreshIds' /\ Persons' /\ CacheKnows' /\ OpenInvitations' /\ OneUserPerPerson' /\ OrgsGoEmpty'
  BY <1>1 DEF IInv, FreshIds, Persons, CacheKnows, UserWas, OpenInvitations, Open,
              OneUserPerPerson, OrgsGoEmpty, Serializable
<1>7. DeletedForgotten'
  BY <1>1, <1>3 DEF IInv, DeletedForgotten, Serializable
<1>8. InvitationReachesUser'
  <2> SUFFICES ASSUME NEW k \in DOMAIN invite, Open(k), invite[k].for = Nobody,
                      mail'[invite[k].email] # Nobody
               PROVE  invite[k].raced
    BY <1>1 DEF InvitationReachesUser, Open
  <2>1. invite[k].email \in Idps
    <3>1. invite[k] \in Invitation
      BY <1>0, ElementOfSeq DEF TypeOK
    <3> QED
      BY <3>1 DEF Invitation
  <2> QED
    BY <1>3, <2>1 DEF IInv, InvitationReachesUser
<1> QED
  BY <1>4, <1>5, <1>6, <1>7, <1>8 DEF IInv

-----------------------------------------------------------------------------
\* Every commit keeps the invariant.
LEMMA CommitInv == ASSUME IInv, NEW r \in req, Commit(r) PROVE IInv'
BY LoginExistingInv, LoginCreateInv, EndInv, StoreIdInv, CreateOrganizationInv,
   DeleteOrganizationInv, DeleteUserCommitInv, MembersInv, CreateInvitationInv,
   AcceptInvitationInv DEF Commit

\* Every step keeps the invariant.
LEMMA NextInv == IInv /\ [Next]_vars => IInv'
<1> SUFFICES ASSUME IInv, [Next]_vars PROVE IInv'
  OBVIOUS
<1>1. CASE UNCHANGED vars
  <2> USE <1>1 DEF vars
  <2>1. TypeOK' /\ Requests'
    BY DEF IInv, TypeOK, Requests, Request, UserWas
  <2>2. FreshIds' /\ Persons' /\ CacheKnows' /\ OpenInvitations'
    BY DEF IInv, FreshIds, Persons, CacheKnows, UserWas, OpenInvitations, Open
  <2>3. OneUserPerPerson' /\ DeletedForgotten' /\ OrgsGoEmpty' /\ InvitationReachesUser'
    BY DEF IInv, OneUserPerPerson, DeletedForgotten, OrgsGoEmpty, Serializable,
           InvitationReachesUser, Open
  <2> QED
    BY <2>1, <2>2, <2>3 DEF IInv
<1>2. CASE \E s \in Servers, i \in Idps, v \in BOOLEAN : Login(s, i, v)
  BY <1>2, ReadersInv
<1>3. ASSUME NEW u \in Ids,
             \/ CreateOrganization(u)
             \/ \E first \in FirstShared(u) : DeleteUser(u, first)
             \/ \E o \in Ids :
                  \/ DeleteOrganization(u, o) \/ DeleteUserFromOrganization(u, o)
                  \/ AddDevice(u, o)
                  \/ \E v \in Ids : DeleteOrganizationUser(u, o, v)
                  \/ \E i \in Idps, owner \in BOOLEAN :
                       \E v \in {mail[i], UserOf(i)} : CreateInvitation(u, o, i, v, owner)
             \/ \E k \in DOMAIN invite : AcceptInvitation(u, k) \/ DeleteInvitation(u, k)
      PROVE  IInv'
  <2>1. CASE CreateOrganization(u) \/ \E k \in DOMAIN invite : AcceptInvitation(u, k)
    BY <2>1, ReadersInv
  <2>2. CASE \E first \in FirstShared(u) : DeleteUser(u, first)
    BY <2>2, DeleteUserInv
  <2>3. ASSUME NEW o \in Ids, DeleteUserFromOrganization(u, o) \/ AddDevice(u, o) PROVE IInv'
    BY <2>3, MembersInv
  <2>4. ASSUME NEW o \in Ids,
               \/ DeleteOrganization(u, o)
               \/ \E v \in Ids : DeleteOrganizationUser(u, o, v)
               \/ \E i \in Idps, owner \in BOOLEAN :
                    \E v \in {mail[i], UserOf(i)} : CreateInvitation(u, o, i, v, owner)
        PROVE  IInv'
    BY <2>4, ReadersInv
  <2>5. CASE \E k \in DOMAIN invite : DeleteInvitation(u, k)
    BY <2>5, InvitationEndsInv
  <2> QED
    BY <1>3, <2>1, <2>2, <2>3, <2>4, <2>5
<1>4. CASE \E k \in DOMAIN invite : Expire(k)
  BY <1>4, InvitationEndsInv
<1>5. CASE \E p \in attached : RemoveDevice(p)
  BY <1>5, MembersInv
<1>6. CASE \E u \in gone : GarbageCollect(u)
  BY <1>6, GarbageCollectInv
<1>7. CASE \E r \in req : Commit(r)
  BY <1>7, CommitInv
<1> QED
  BY <1>1, <1>2, <1>3, <1>4, <1>5, <1>6, <1>7 DEF Next

\* The inductive invariant holds in every state of every behaviour.
THEOREM Invariance == Spec => []IInv
<1>1. Init => IInv
  BY InitInv
<1>2. IInv /\ [Next]_vars => IInv'
  BY NextInv
<1> QED
  BY <1>1, <1>2, PTL DEF Spec

\* Every variable has its type, and the bounds on requests and calls are kept.
THEOREM TypeCorrect == Spec => []TypeOK
<1>1. IInv => TypeOK
  BY DEF IInv
<1> QED
  BY <1>1, Invariance, PTL

\* A person has one user, whatever replicas see its first requests at once
\* (user.go: createUserIfNotExists, the unique index on idp_id).
THEOREM OneUser == Spec => []OneUserPerPerson
<1>1. IInv => OneUserPerPerson
  BY DEF IInv
<1> QED
  BY <1>1, Invariance, PTL

\* A deleted user leaves Redis, unless its person was logging in meanwhile or Redis
\* did not answer; and on CockroachDB it leaves the identities, whatever Redis does
\* (user.go: DeleteUser, middleware.go).
THEOREM Forgotten == Spec => []DeletedForgotten
<1>1. IInv => DeletedForgotten
  BY DEF IInv
<1> QED
  BY <1>1, Invariance, PTL

\* On CockroachDB an organization goes with its devices gone, and leaves no member
\* but by an invitation inserted after its end (organization.go, user.go, invitations.go).
THEOREM OrgsEmpty == Spec => []OrgsGoEmpty
<1>1. IInv => OrgsGoEmpty
  BY DEF IInv
<1> QED
  BY <1>1, Invariance, PTL

\* An invitation to an address reaches the user who has the address, unless it was
\* taken between CreateInvitation's read and its insert (invitations.go, user.go).
THEOREM InvitationReaches == Spec => []InvitationReachesUser
<1>1. IInv => InvitationReachesUser
  BY DEF IInv
<1> QED
  BY <1>1, Invariance, PTL
==============================================================================
