-------------------------- MODULE WatchStreamProofs --------------------------
(***************************************************************************)
(* For any watches, rows, size of a fetch, writes, faults and connections: *)
(* the client's copy is right up to the stream's cursor, and no watch      *)
(* stays asleep over a row whose notification was not lost.                *)
(***************************************************************************)
EXTENDS WatchStream, FiniteSetTheorems, WellFoundedInduction, TLAPS

\* The trigger's revisions: of one row or one open transaction each, and higher
\* than that of the row the transaction writes to.
Revisions ==
  \A w \in Watches : \A id \in Ids :
    /\ rows[w][id].rev <= seq[w] /\ open[w][id].rev <= seq[w]
    /\ rows[w][id].rev = 0 => rows[w][id] = NoRow
    /\ open[w][id].rev = 0 => open[w][id] = NoRow
    /\ open[w][id].rev # 0 => rows[w][id].rev < open[w][id].rev
    /\ \A j \in Ids : open[w][id].rev # 0 => rows[w][j].rev # open[w][id].rev
    /\ \A j \in Ids : open[w][id].rev # 0 /\ open[w][j].rev = open[w][id].rev => j = id
    /\ \A j \in Ids : rows[w][id].rev # 0 /\ rows[w][j].rev = rows[w][id].rev => j = id

\* The row id as a query returns it.
Found(w, id) == [id |-> id, rev |-> rows[w][id].rev, del |-> rows[w][id].del]

WatchState == [parked : BOOLEAN, atTail : BOOLEAN, gt : Nat, list : SUBSET Item, ids : SUBSET Ids]
ClientState == [gt : Nat, atTail : BOOLEAN, view : [Ids -> Nat]]

\* What a watch has fetched and not sent: versions above its cursor, with the rows that
\* still have theirs among them up to the last (in the order of commits).
Fetched(w, st) ==
  /\ \A x \in st.list : x.rev > st.gt /\ x.rev <= rows[w][x.id].rev
  /\ \A x, y \in st.list : x.rev = y.rev => x = y
  /\ st.gt # 0 => \E id \in Ids : st.gt <= rows[w][id].rev
  /\ ~ overtaken[w] =>
       \A x \in st.list : \A id \in Ids :
         rows[w][id].rev > st.gt /\ rows[w][id].rev <= x.rev => Found(w, id) \in st.list

\* The client's copy is that of its cursor.
Shows(w, cl, id) == cl.view[id] = IF rows[w][id].del THEN 0 ELSE rows[w][id].rev
Kept(w, cl) ==
  /\ cl.gt = 0 => \A id \in Ids : cl.view[id] = 0
  /\ cl.gt # 0 => \E id \in Ids : cl.gt <= rows[w][id].rev
  /\ ~ overtaken[w] /\ ~ resumed[w] => \A id \in Ids : rows[w][id].rev <= cl.gt => Shows(w, cl, id)

\* A stream is not behind its client, whose copy is that of the stream's cursor, too;
\* before the tail the stream remembers every id the client has.
InStep(w, st, cl) ==
  /\ cl.gt <= st.gt
  /\ ~ resumed[w] /\ ~ st.atTail => \A id \in Ids : cl.view[id] # 0 => id \in st.ids
  /\ ~ cancelled /\ ~ overtaken[w] /\ ~ resumed[w] =>
       \A id \in Ids : rows[w][id].rev <= st.gt => Shows(w, cl, id)

Streams ==
  \A w \in Watches :
    /\ Fetched(w, watch[w]) /\ Kept(w, client[w])
    /\ Subscribed => InStep(w, watch[w], client[w])

\* The loop has counted no more parked watches than it has seen; a stream that has
\* ended left nothing.
Position(p) == /\ p \in [at : {"closed", "scan", "wait"}, i : Watches, parked : 0 .. NumWatches]
               /\ p.at = "scan" => p.parked < p.i
Loop == Position(pc) /\ (pc.at = "closed" => \A w \in Watches : watch[w] = IdleWatch)

\* The inductive invariant.
IInv == TypeOK /\ Revisions /\ Streams /\ Loop /\ NoLostWakeup

-----------------------------------------------------------------------------
\* A set of natural numbers that is not empty has a least member.
LEMMA LeastOne == ASSUME NEW T, T \subseteq Nat, T # {} PROVE \E x \in T : \A y \in T : x <= y
<1>1. \E x \in T : \A y \in T : ~ (<<y, x>> \in OpToRel(<, Nat))
  BY NatLessThanWellFounded, WFMin
<1>2. PICK x \in T : \A y \in T : ~ (<<y, x>> \in OpToRel(<, Nat))
  BY <1>1
<1>3. \A y \in T : ~ (y < x)
  BY <1>2 DEF OpToRel
<1> QED
  BY <1>3

\* The types of the rows and of a watch.
LEMMA Typed ==
  ASSUME TypeOK, NEW w \in Watches
  PROVE  /\ \A id \in Ids : /\ rows[w][id] \in Row /\ rows[w][id].rev \in Nat /\ rows[w][id].del \in BOOLEAN
                            /\ open[w][id] \in Row /\ open[w][id].rev \in Nat
                            /\ client[w].view[id] \in Nat
         /\ seq[w] \in Nat /\ watch[w].gt \in Nat /\ client[w].gt \in Nat
         /\ watch[w].atTail \in BOOLEAN /\ client[w].atTail \in BOOLEAN
         /\ \A x \in watch[w].list : x \in Item /\ x.id \in Ids /\ x.rev \in Nat /\ x.del \in BOOLEAN
                                     /\ x.rev > watch[w].gt
BY DEF TypeOK, Row, Item

\* The rows above a cursor, as a query finds them.
LEMMA AboveIs ==
  ASSUME NEW w, NEW gt
  PROVE  /\ Above(w, gt) = {Found(w, id) : id \in {j \in Ids : rows[w][j].rev > gt}}
         /\ \A id \in Ids : rows[w][id].rev > gt => Found(w, id) \in Above(w, gt)
         /\ \A x \in Above(w, gt) : \E id \in Ids : rows[w][id].rev > gt /\ x = Found(w, id)
BY DEF Above, Found

\* They are finitely many, since each has a revision of its own that was drawn.
LEMMA AboveFinite ==
  ASSUME TypeOK, Revisions, NEW w \in Watches, NEW gt \in Nat
  PROVE  IsFiniteSet(Above(w, gt))
<1> DEFINE R == {r \in 1 .. seq[w] : \E id \in Ids : rows[w][id].rev = r /\ r > gt}
           item == [r \in R |-> CHOOSE x \in Above(w, gt) : x.rev = r]
<1>1. seq[w] \in Nat /\ \A id \in Ids : rows[w][id].rev \in Nat
  BY Typed
<1>2. IsFiniteSet(R)
  <2>1. IsFiniteSet(1 .. seq[w])
    BY <1>1, FS_Interval
  <2> QED
    BY <2>1, FS_Subset
<1>3. \A x \in Above(w, gt) : x.rev \in R /\ item[x.rev] = x
  <2> SUFFICES ASSUME NEW x \in Above(w, gt) PROVE x.rev \in R /\ item[x.rev] = x
    OBVIOUS
  <2>1. PICK id \in Ids : rows[w][id].rev > gt /\ x = Found(w, id)
    BY AboveIs
  <2>2. x.rev = rows[w][id].rev /\ x.rev \in 1 .. seq[w] /\ x.rev # 0
    BY <1>1, <2>1 DEF Found, Revisions
  <2>3. x.rev \in R
    BY <2>1, <2>2
  <2>4. PICK y \in Above(w, gt) : y = item[x.rev] /\ y.rev = x.rev
    BY <2>3
  <2>5. PICK j \in Ids : y = Found(w, j)
    BY AboveIs
  <2>6. rows[w][j].rev = rows[w][id].rev
    BY <2>2, <2>4, <2>5 DEF Found
  <2>7. j = id
    BY <2>2, <2>6 DEF Revisions
  <2> QED
    BY <2>1, <2>3, <2>4, <2>5, <2>7
<1>4. \A r \in R : item[r] \in Above(w, gt)
  <2> SUFFICES ASSUME NEW r \in R PROVE item[r] \in Above(w, gt)
    OBVIOUS
  <2>1. PICK id \in Ids : rows[w][id].rev = r /\ r > gt
    OBVIOUS
  <2>2. Found(w, id) \in Above(w, gt) /\ Found(w, id).rev = r
    BY <2>1, AboveIs DEF Found
  <2> QED
    BY <2>2
<1>5. item \in Surjection(R, Above(w, gt))
  <2>1. item \in [R -> Above(w, gt)]
    BY <1>4
  <2> HIDE DEF R, item
  <2> QED
    BY <1>3, <2>1 DEF Surjection
<1> QED
  <2> HIDE DEF R, item
  <2> QED
    BY <1>2, <1>5, FS_Surjection

\* What a fetch returns: rows above the cursor, with a row every lower one, and none
\* only if there is none.
LEMMA BatchIs ==
  ASSUME TypeOK, Revisions, NEW w \in Watches, NEW gt \in Nat
  PROVE  /\ Batch(w, gt) \subseteq Above(w, gt)
         /\ \A x \in Batch(w, gt) : \A y \in Above(w, gt) : y.rev <= x.rev => y \in Batch(w, gt)
         /\ Batch(w, gt) = {} => Above(w, gt) = {}
<1> DEFINE A == Above(w, gt)
           below(x) == {y \in A : y.rev < x.rev}
<1>0. IsFiniteSet(A) /\ Limit \in Nat \ {0} /\ \A x \in A : x.rev \in Nat
  <2>1. \A x \in A : x.rev \in Nat
    BY Typed, AboveIs DEF Found
  <2> QED
    BY <2>1, AboveFinite, ConstantsAssumption
<1>1. Batch(w, gt) = {x \in A : Cardinality(below(x)) < Limit}
  BY DEF Batch
<1> HIDE DEF A
<1>2. ASSUME NEW x \in A, NEW y \in A, y.rev <= x.rev, Cardinality(below(x)) < Limit
      PROVE  Cardinality(below(y)) < Limit
  <2>1. \A z \in A : z.rev < y.rev => z.rev < x.rev
    BY <1>0, <1>2
  <2>2. below(y) \in SUBSET below(x) /\ below(x) \in SUBSET A
    BY <2>1
  <2> HIDE DEF below
  <2>3. IsFiniteSet(below(x))
    BY <1>0, <2>2, FS_Subset
  <2>4. IsFiniteSet(below(y)) /\ Cardinality(below(y)) <= Cardinality(below(x))
    BY <2>2, <2>3, FS_Subset
  <2>5. Cardinality(below(x)) \in Nat /\ Cardinality(below(y)) \in Nat
    BY <2>3, <2>4, FS_CardinalityType
  <2> QED
    BY <1>0, <1>2, <2>4, <2>5
<1>3. ASSUME A # {} PROVE \E x \in A : Cardinality(below(x)) < Limit
  <2> DEFINE T == {x.rev : x \in A}
  <2>1. PICK r \in T : \A q \in T : r <= q
    <3>1. T \subseteq Nat /\ T # {}
      BY <1>0, <1>3
    <3> HIDE DEF T
    <3> QED
      BY <3>1, LeastOne
  <2>2. PICK x \in A : x.rev = r
    OBVIOUS
  <2>3. below(x) = {}
    <3>1. \A y \in A : r <= y.rev /\ y.rev \in Nat /\ r \in Nat
      BY <1>0, <2>1
    <3> QED
      BY <2>2, <3>1
  <2>4. Cardinality(below(x)) = 0
    BY <2>3, FS_EmptySet
  <2> HIDE DEF below
  <2>5. Cardinality(below(x)) < Limit
    BY <1>0, <2>4
  <2> QED
    BY <2>5
<1> HIDE DEF below
<1> QED
  BY <1>1, <1>2, <1>3 DEF A

-----------------------------------------------------------------------------
\* What the invariant says of a watch.
LEMMA StreamOf ==
  ASSUME IInv, NEW w \in Watches
  PROVE  Fetched(w, watch[w]) /\ Kept(w, client[w]) /\ (Subscribed => InStep(w, watch[w], client[w]))
<1>1. Streams
  BY DEF IInv
<1> QED
  BY <1>1 DEF Streams

\* The invariant gives what the client may rely on.
LEMMA InvMissesNothing == IInv => NothingMissed
<1> SUFFICES ASSUME IInv, NEW w \in Watches, Subscribed, ~ cancelled, ~ overtaken[w], ~ resumed[w],
                    NEW id \in Ids, rows[w][id].rev <= watch[w].gt
             PROVE  Agrees(w, id)
  BY DEF NothingMissed
<1>1. InStep(w, watch[w], client[w])
  BY StreamOf
<1>2. Shows(w, client[w], id)
  BY <1>1 DEF InStep
<1> QED
  BY <1>2 DEF Shows, Agrees

\* Steps of the handlers and of the listener that leave rows and streams alone.
LEMMA StreamsKept ==
  ASSUME IInv, UNCHANGED <<rows, seq, open, pc, watch, client, cancelled, resumed, overtaken>>,
         TypeOK', NoLostWakeup'
  PROVE  IInv'
<1>1. Revisions' /\ Loop'
  BY DEF IInv, Revisions, Loop
<1>2. Streams'
  BY DEF IInv, Streams, Fetched, Kept, InStep, Shows, Subscribed, Found
<1> QED
  BY <1>1, <1>2 DEF IInv

\* A handler notifies, or fails to; the listener passes on, fails, reconnects.
LEMMA BusInv ==
  ASSUME IInv, (\E w \in Watches : Notify(w) \/ NotifyLost(w)) \/ Listener
  PROVE  IInv'
<1>0. TypeOK /\ Loop /\ NoLostWakeup
  BY DEF IInv
<1>s. \A w \in Watches : watch[w].parked => Subscribed
  BY <1>0 DEF Loop, Position, Subscribed, IdleWatch
<1>1. ASSUME NEW w \in Watches, Notify(w) PROVE IInv'
  <2>1. /\ UNCHANGED <<rows, seq, open, pc, watch, client, cancelled, resumed, overtaken>>
        /\ UNCHANGED <<listener, faults, token, conns>>
        /\ unnotified' = [unnotified EXCEPT ![w] = @ - 1] /\ unnotified[w] > 0
        /\ queued' = IF listener = "up" THEN queued \cup {w} ELSE queued
        /\ lost' = [lost EXCEPT ![w] = @ \/ listener = "starting"]
    BY <1>1 DEF Notify, dbVars, clientVars
  <2>2. unnotified' \in [Watches -> Nat] /\ queued' \subseteq Watches /\ lost' \in [Watches -> BOOLEAN]
    BY <1>0, <2>1 DEF TypeOK
  <2>3. TypeOK'
    BY <1>0, <2>1, <2>2 DEF TypeOK
  <2>4. NoLostWakeup'
    BY <1>0, <2>1 DEF TypeOK, NoLostWakeup, Above
  <2> QED
    BY <2>1, <2>3, <2>4, StreamsKept
<1>2. ASSUME NEW w \in Watches, NotifyLost(w) PROVE IInv'
  <2>1. /\ UNCHANGED <<rows, seq, open, pc, watch, client, cancelled, resumed, overtaken>>
        /\ UNCHANGED <<listener, queued, token, conns>>
        /\ unnotified' = [unnotified EXCEPT ![w] = @ - 1] /\ unnotified[w] > 0
        /\ lost' = [lost EXCEPT ![w] = TRUE] /\ faults' = faults + 1
    BY <1>2 DEF NotifyLost, dbVars, clientVars
  <2>2. unnotified' \in [Watches -> Nat] /\ lost' \in [Watches -> BOOLEAN] /\ faults' \in Nat
    BY <1>0, <2>1 DEF TypeOK
  <2>3. TypeOK'
    BY <1>0, <2>1, <2>2 DEF TypeOK
  <2>4. NoLostWakeup'
    BY <1>0, <2>1 DEF TypeOK, NoLostWakeup, Above
  <2> QED
    BY <2>1, <2>3, <2>4, StreamsKept
<1>3. ASSUME NEW w \in Watches, Deliver(w) PROVE IInv'
  <2>1. /\ UNCHANGED <<rows, seq, open, pc, watch, client, cancelled, resumed, overtaken>>
        /\ UNCHANGED <<unnotified, listener, faults, conns>>
        /\ queued' = queued \ {w}
        /\ token' = [token EXCEPT ![w] = Subscribed] /\ lost' = [lost EXCEPT ![w] = FALSE]
    BY <1>3 DEF Deliver, dbVars, clientVars
  <2>2. token' \in [Watches -> BOOLEAN] /\ lost' \in [Watches -> BOOLEAN]
    BY <1>0, <2>1 DEF TypeOK, Subscribed
  <2>3. TypeOK'
    BY <1>0, <2>1, <2>2 DEF TypeOK
  <2>4. NoLostWakeup'
    <3> SUFFICES ASSUME NEW v \in Watches, watch[v].parked, Above(v, watch[v].gt) # {}, ~ lost'[v]
                 PROVE  token'[v] \/ v \in queued' \/ unnotified'[v] > 0 \/ listener' = "down"
      BY <2>1 DEF NoLostWakeup, Above
    <3>1. CASE v = w
      BY <1>0, <1>s, <2>1, <3>1 DEF TypeOK
    <3>2. CASE v # w
      BY <1>0, <2>1, <3>2 DEF TypeOK, NoLostWakeup
    <3> QED
      BY <3>1, <3>2
  <2> QED
    BY <2>1, <2>3, <2>4, StreamsKept
<1>4. ASSUME ListenerFails PROVE IInv'
  <2>1. /\ UNCHANGED <<rows, seq, open, pc, watch, client, cancelled, resumed, overtaken>>
        /\ UNCHANGED <<unnotified, lost, token, conns>>
        /\ queued' = {} /\ listener' = "down" /\ faults' = faults + 1
    BY <1>4 DEF ListenerFails, dbVars, clientVars
  <2>2. TypeOK'
    BY <1>0, <2>1 DEF TypeOK
  <2>3. NoLostWakeup'
    BY <2>1 DEF NoLostWakeup
  <2> QED
    BY <2>1, <2>2, <2>3, StreamsKept
<1>5. ASSUME ListenerConnects PROVE IInv'
  <2>1. /\ UNCHANGED <<rows, seq, open, pc, watch, client, cancelled, resumed, overtaken>>
        /\ UNCHANGED <<unnotified, queued, faults, conns>> /\ listener' = "up"
        /\ IF listener = "down"
           THEN token' = [w \in Watches |-> Subscribed] /\ lost' = [w \in Watches |-> FALSE]
           ELSE UNCHANGED <<token, lost>>
    BY <1>5 DEF ListenerConnects, dbVars, clientVars
  <2>2. token' \in [Watches -> BOOLEAN] /\ lost' \in [Watches -> BOOLEAN]
    <3>1. PICK s \in BOOLEAN : s = Subscribed
      <4>1. Subscribed \in BOOLEAN
        BY DEF Subscribed
      <4> QED
        BY <4>1
    <3>2. [w \in Watches |-> s] \in [Watches -> BOOLEAN] /\ [w \in Watches |-> FALSE] \in [Watches -> BOOLEAN]
      OBVIOUS
    <3> QED
      BY <1>0, <2>1, <3>1, <3>2 DEF TypeOK
  <2>3. TypeOK'
    BY <1>0, <2>1, <2>2 DEF TypeOK
  <2>4. NoLostWakeup'
    <3> SUFFICES ASSUME NEW v \in Watches, watch[v].parked, Above(v, watch[v].gt) # {}, ~ lost'[v]
                 PROVE  token'[v] \/ v \in queued' \/ unnotified'[v] > 0 \/ listener' = "down"
      BY <2>1 DEF NoLostWakeup, Above
    <3>1. CASE listener = "down"
      BY <1>s, <2>1, <3>1
    <3>2. CASE listener # "down"
      BY <1>0, <2>1, <3>2 DEF NoLostWakeup
    <3> QED
      BY <3>1, <3>2
  <2> QED
    BY <2>1, <2>3, <2>4, StreamsKept
<1> QED
  BY <1>1, <1>2, <1>3, <1>4, <1>5 DEF Listener

-----------------------------------------------------------------------------
\* A step of the request that serves watch w keeps the invariant if it does so for
\* the state and the client's copy of w.
LEMMA ServedInv ==
  ASSUME IInv, NEW w \in Watches, NEW st \in WatchState, NEW cl \in ClientState,
         UNCHANGED <<rows, seq, open, unnotified, queued, listener, faults, conns>>,
         UNCHANGED <<cancelled, resumed, overtaken>>,
         Subscribed, Subscribed', Position(pc'),
         watch' = [watch EXCEPT ![w] = st], client' = [client EXCEPT ![w] = cl],
         Fetched(w, st), Kept(w, cl), InStep(w, st, cl),
         token' \in [Watches -> BOOLEAN], lost' \in [Watches -> BOOLEAN],
         \A v \in Watches \ {w} : token'[v] = token[v] /\ lost'[v] = lost[v],
         st.parked /\ Above(w, st.gt) # {} /\ ~ lost'[w] =>
           token'[w] \/ w \in queued \/ unnotified[w] > 0 \/ listener = "down"
  PROVE  IInv'
<1>0. TypeOK /\ Revisions /\ NoLostWakeup
  BY DEF IInv
<1>1. /\ watch \in [Watches -> WatchState] /\ client \in [Watches -> ClientState]
  BY <1>0 DEF TypeOK, WatchState, ClientState
<1>2. /\ watch' \in [Watches -> WatchState] /\ client' \in [Watches -> ClientState]
      /\ watch'[w] = st /\ client'[w] = cl
      /\ \A v \in Watches \ {w} : watch'[v] = watch[v] /\ client'[v] = client[v]
  BY <1>1
<1>3. TypeOK'
  <2>1. \A v \in Watches : \A x \in watch'[v].list : x.rev > watch'[v].gt
    BY <1>0, <1>2 DEF TypeOK, Fetched
  <2> QED
    BY <1>0, <1>2, <2>1 DEF TypeOK, Position, WatchState, ClientState
<1>4. Revisions' /\ Loop'
  BY <1>0 DEF Revisions, Loop, Subscribed
<1>5. Streams'
  <2>1. ASSUME NEW v \in Watches PROVE Fetched(v, watch[v])' /\ Kept(v, client[v])' /\ InStep(v, watch[v], client[v])'
    <3>1. CASE v = w
      BY <1>2, <3>1 DEF Fetched, Kept, InStep, Shows, Found
    <3>2. CASE v # w
      <4>1. Fetched(v, watch[v]) /\ Kept(v, client[v]) /\ InStep(v, watch[v], client[v])
        BY StreamOf
      <4> QED
        BY <1>2, <3>2, <4>1 DEF Fetched, Kept, InStep, Shows, Found
    <3> QED
      BY <3>1, <3>2
  <2> QED
    BY <2>1 DEF Streams
<1>6. NoLostWakeup'
  BY <1>0, <1>2 DEF NoLostWakeup, Above
<1> QED
  BY <1>3, <1>4, <1>5, <1>6 DEF IInv

\* The next iteration of the loop.
LEMMA AdvanceIs ==
  ASSUME IInv, pc.at = "scan", NEW parked \in BOOLEAN, Advance(parked)
  PROVE  Position(pc') /\ Subscribed'
<1>1. Position(pc) /\ NumWatches \in Nat \ {0}
  BY ConstantsAssumption DEF IInv, Loop
<1> DEFINE n == IF parked THEN pc.parked + 1 ELSE pc.parked
<1>2. pc.i \in 1 .. NumWatches /\ pc.parked \in 0 .. NumWatches /\ pc.parked < pc.i
  BY <1>1 DEF Position, Watches
<1>3. n \in 0 .. pc.i
  BY <1>1, <1>2
<1>4. pc' = IF pc.i < NumWatches THEN Scanning(pc.i + 1, n)
            ELSE IF n = NumWatches THEN At("wait") ELSE Scanning(1, 0)
  BY DEF Advance
<1> HIDE DEF n
<1> QED
  BY <1>1, <1>2, <1>3, <1>4 DEF Position, Subscribed, Scanning, At, Watches

\* Where it starts, and where it ends.
LEMMA Positions == /\ Position(Scanning(1, 0)) /\ Position(At("closed"))
                   /\ Scanning(1, 0).at = "scan"
BY ConstantsAssumption DEF Position, Scanning, At, Watches

\* The steps of the request that move no cursor: a watch parks, or is signalled.
LEMMA ParkedInv ==
  ASSUME IInv, NEW w \in Watches, Unpark(w) \/ StayParked(w) \/ Park(w) \/ WaitNotified(w)
  PROVE  IInv'
<1>0. TypeOK /\ NoLostWakeup /\ Streams /\ Revisions
  BY DEF IInv
<1> DEFINE W(b) == [watch[w] EXCEPT !.parked = b]
<1>1. \A b \in BOOLEAN : W(b) \in WatchState
  <2>1. watch[w] \in WatchState
    BY <1>0 DEF TypeOK, WatchState
  <2> QED
    BY <2>1 DEF WatchState
<1>2. client[w] \in ClientState /\ client = [client EXCEPT ![w] = client[w]]
  BY <1>0 DEF TypeOK, ClientState
<1>3. \A b \in BOOLEAN : Fetched(w, W(b)) /\ Kept(w, client[w]) /\ (Subscribed => InStep(w, W(b), client[w]))
  <2>1. Fetched(w, watch[w]) /\ Kept(w, client[w]) /\ (Subscribed => InStep(w, watch[w], client[w]))
    BY StreamOf
  <2>2. \A b \in BOOLEAN : /\ W(b).gt = watch[w].gt /\ W(b).list = watch[w].list
                           /\ W(b).ids = watch[w].ids /\ W(b).atTail = watch[w].atTail
    BY <1>0 DEF TypeOK
  <2> HIDE DEF W
  <2> QED
    BY <2>1, <2>2 DEF Fetched, InStep
<1>4. \A b \in BOOLEAN : W(b).parked = b
  BY <1>0 DEF TypeOK
<1>5. \A t \in [Watches -> BOOLEAN] : \A b \in BOOLEAN :
        /\ [t EXCEPT ![w] = b] \in [Watches -> BOOLEAN]
        /\ \A v \in Watches \ {w} : [t EXCEPT ![w] = b][v] = t[v]
  OBVIOUS
<1>6. token \in [Watches -> BOOLEAN] /\ lost \in [Watches -> BOOLEAN]
  BY <1>0 DEF TypeOK
<1>a. CASE Unpark(w)
  <2>1. /\ UNCHANGED <<rows, seq, open, unnotified, queued, listener, faults, conns>>
        /\ UNCHANGED <<cancelled, resumed, overtaken, client, lost>>
        /\ token' = [token EXCEPT ![w] = FALSE]
        /\ pc.at = "scan" /\ Advance(FALSE)
    BY <1>a DEF Unpark, dbVars, busVars, clientVars
  <2>2. watch' = [watch EXCEPT ![w] = W(FALSE)]
    BY <1>a DEF Unpark
  <2>3. Subscribed /\ Subscribed' /\ Position(pc')
    BY <2>1, AdvanceIs DEF Subscribed
  <2> HIDE DEF W
  <2> QED
    BY <1>1, <1>2, <1>3, <1>4, <1>5, <1>6, <2>1, <2>2, <2>3, ServedInv
<1>b. CASE StayParked(w)
  <2>1. /\ UNCHANGED <<rows, seq, open, unnotified, queued, listener, faults, conns>>
        /\ UNCHANGED <<cancelled, resumed, overtaken, client, lost, token, watch>>
        /\ pc.at = "scan" /\ Advance(TRUE) /\ watch[w].parked
    BY <1>b DEF StayParked, dbVars, busVars, clientVars
  <2>2. watch' = [watch EXCEPT ![w] = W(TRUE)]
    BY <1>0, <2>1 DEF TypeOK
  <2>3. Subscribed /\ Subscribed' /\ Position(pc')
    BY <2>1, AdvanceIs DEF Subscribed
  <2>4. W(TRUE).gt = watch[w].gt
    BY <1>0 DEF TypeOK
  <2>5. W(TRUE).parked /\ Above(w, W(TRUE).gt) # {} /\ ~ lost'[w] =>
          token'[w] \/ w \in queued \/ unnotified[w] > 0 \/ listener = "down"
    BY <1>0, <2>1, <2>4 DEF NoLostWakeup
  <2> HIDE DEF W
  <2> QED
    BY <1>1, <1>2, <1>3, <1>6, <2>1, <2>2, <2>3, <2>5, ServedInv
<1>c. CASE Park(w)
  <2>1. /\ UNCHANGED <<rows, seq, open, unnotified, queued, listener, faults, conns>>
        /\ UNCHANGED <<cancelled, resumed, overtaken, client, token>>
        /\ lost' = [lost EXCEPT ![w] = FALSE] /\ Batch(w, watch[w].gt) = {}
        /\ pc.at = "scan" /\ Advance(TRUE)
    BY <1>c DEF Park, Fetching, dbVars, busVars, clientVars
  <2>2. watch' = [watch EXCEPT ![w] = W(TRUE)]
    BY <1>c DEF Park
  <2>3. Subscribed /\ Subscribed' /\ Position(pc')
    BY <2>1, AdvanceIs DEF Subscribed
  <2>4. W(TRUE).gt = watch[w].gt /\ watch[w].gt \in Nat
    BY <1>0 DEF TypeOK
  <2>5. Above(w, W(TRUE).gt) = {}
    BY <1>0, <2>1, <2>4, BatchIs
  <2> HIDE DEF W
  <2> QED
    BY <1>1, <1>2, <1>3, <1>5, <1>6, <2>1, <2>2, <2>3, <2>5, ServedInv
<1>d. CASE WaitNotified(w)
  <2>1. /\ UNCHANGED <<rows, seq, open, unnotified, queued, listener, faults, conns>>
        /\ UNCHANGED <<cancelled, resumed, overtaken, client, lost>>
        /\ token' = [token EXCEPT ![w] = FALSE]
        /\ pc.at = "wait" /\ pc' = Scanning(1, 0)
    BY <1>d DEF WaitNotified, dbVars, busVars, clientVars
  <2>2. watch' = [watch EXCEPT ![w] = W(FALSE)]
    BY <1>d DEF WaitNotified
  <2>3. Subscribed /\ Subscribed' /\ Position(pc')
    BY <2>1, Positions DEF Subscribed
  <2> HIDE DEF W
  <2> QED
    BY <1>1, <1>2, <1>3, <1>4, <1>5, <1>6, <2>1, <2>2, <2>3, ServedInv
<1> QED
  BY <1>a, <1>b, <1>c, <1>d

-----------------------------------------------------------------------------
\* The item of a fetched list that goes next is one with the lowest revision.
LEMMA NextItemIs ==
  ASSUME TypeOK, NEW w \in Watches, watch[w].list # {}
  PROVE  NextItem(w) \in watch[w].list /\ \A y \in watch[w].list : NextItem(w).rev <= y.rev
<1> DEFINE L == watch[w].list
           T == {x.rev : x \in L}
<1>1. T \subseteq Nat /\ T # {}
  BY Typed
<1>2. PICK r \in T : \A q \in T : r <= q
  <2> HIDE DEF T
  <2> QED
    BY <1>1, LeastOne
<1>3. \E x \in L : \A y \in L : x.rev <= y.rev
  BY <1>2
<1> QED
  BY <1>3 DEF NextItem

\* Once it is taken, what is left is in order, and a row between the old cursor and the
\* new one can only be the item's.
LEMMA AfterItem ==
  ASSUME IInv, NEW w \in Watches, NEW x \in watch[w].list, x = NextItem(w),
         NEW st \in WatchState, st.gt = x.rev, st.list = watch[w].list \ {x}
  PROVE  /\ Fetched(w, st) /\ watch[w].gt < x.rev /\ x.rev <= rows[w][x.id].rev
         /\ x.id \in Ids /\ x.rev \in Nat /\ x.del \in BOOLEAN
         /\ ~ overtaken[w] => \A id \in Ids : rows[w][id].rev <= x.rev /\ ~ (rows[w][id].rev <= watch[w].gt) =>
                                 id = x.id /\ rows[w][id].rev = x.rev /\ rows[w][id].del = x.del
<1>0. TypeOK /\ Revisions
  BY DEF IInv
<1>1. Fetched(w, watch[w])
  BY StreamOf
<1>2. \A y \in watch[w].list : x.rev <= y.rev
  BY <1>0, NextItemIs
<1>3. /\ \A id \in Ids : rows[w][id].rev \in Nat
      /\ watch[w].gt \in Nat
      /\ \A y \in watch[w].list : y.id \in Ids /\ y.rev \in Nat /\ y.rev > watch[w].gt
      /\ x.del \in BOOLEAN
  BY <1>0, Typed
<1>4. \A y \in watch[w].list \ {x} : y.rev > x.rev
  BY <1>1, <1>2, <1>3 DEF Fetched
<1>5. x.rev <= rows[w][x.id].rev
  BY <1>1 DEF Fetched
<1>6. ASSUME ~ overtaken[w], NEW id \in Ids, rows[w][id].rev > watch[w].gt
      PROVE  \A y \in watch[w].list : rows[w][id].rev <= y.rev => Found(w, id) \in watch[w].list
  BY <1>1, <1>6 DEF Fetched
<1>7. Fetched(w, st)
  <2>1. \A y \in st.list : y.rev > st.gt /\ y.rev <= rows[w][y.id].rev
    BY <1>1, <1>4 DEF Fetched
  <2>2. \A y, z \in st.list : y.rev = z.rev => y = z
    BY <1>1 DEF Fetched
  <2>3. \E id \in Ids : st.gt <= rows[w][id].rev
    BY <1>3, <1>5
  <2>4. ASSUME ~ overtaken[w], NEW y \in st.list, NEW id \in Ids,
               rows[w][id].rev > st.gt, rows[w][id].rev <= y.rev
        PROVE  Found(w, id) \in st.list
    <3>1. Found(w, id) \in watch[w].list
      BY <1>3, <1>6, <2>4
    <3>2. Found(w, id).rev # x.rev
      BY <1>3, <2>4 DEF Found
    <3> QED
      BY <3>1, <3>2
  <2> QED
    BY <2>1, <2>2, <2>3, <2>4 DEF Fetched
<1>8. ASSUME ~ overtaken[w], NEW id \in Ids, rows[w][id].rev <= x.rev, ~ (rows[w][id].rev <= watch[w].gt)
      PROVE  id = x.id /\ rows[w][id].rev = x.rev /\ rows[w][id].del = x.del
  <2>1. Found(w, id) \in watch[w].list
    BY <1>3, <1>6, <1>8
  <2>2. ~ (Found(w, id).rev > x.rev)
    BY <1>3, <1>8 DEF Found
  <2>3. Found(w, id) = x
    BY <1>4, <2>1, <2>2
  <2> QED
    BY <2>3 DEF Found
<1> QED
  BY <1>3, <1>5, <1>7, <1>8

\* The steps of the request that move a cursor or fetch.
LEMMA SkipInv == ASSUME IInv, NEW w \in Watches, SkipDelete(w) PROVE IInv'
<1>0. TypeOK
  BY DEF IInv
<1>1. PICK x \in watch[w].list :
        /\ Sending(w, x) /\ Skipped(w, x)
        /\ watch' = [watch EXCEPT ![w].gt = x.rev, ![w].list = @ \ {x}]
        /\ Advance(FALSE)
        /\ UNCHANGED <<rows, seq, open, unnotified, queued, listener, faults, conns>>
        /\ UNCHANGED <<cancelled, resumed, overtaken, client, token, lost>>
  BY DEF SkipDelete, dbVars, busVars, clientVars
<1> DEFINE st == [watch[w] EXCEPT !.gt = x.rev, !.list = @ \ {x}]
<1>2. /\ pc.at = "scan" /\ ~ watch[w].parked /\ x = NextItem(w)
      /\ x.del /\ ~ watch[w].atTail /\ x.id \notin watch[w].ids
  BY <1>1 DEF Sending, Skipped
<1>3. Subscribed /\ Subscribed' /\ Position(pc')
  BY <1>1, <1>2, AdvanceIs DEF Subscribed
<1>4. st \in WatchState /\ watch[w] \in WatchState
  <2>1. watch[w] \in WatchState /\ x.rev \in Nat
    BY <1>0, Typed DEF TypeOK, WatchState
  <2> QED
    BY <2>1 DEF WatchState
<1>5. /\ st.gt = x.rev /\ st.list = watch[w].list \ {x} /\ st.ids = watch[w].ids
      /\ st.atTail = watch[w].atTail /\ ~ st.parked
  BY <1>2, <1>4 DEF WatchState
<1>6. watch' = [watch EXCEPT ![w] = st]
  BY <1>0, <1>1 DEF TypeOK
<1>7. client[w] \in ClientState /\ client' = [client EXCEPT ![w] = client[w]]
  BY <1>0, <1>1 DEF TypeOK, ClientState
<1> HIDE DEF st
<1>8. /\ Fetched(w, st) /\ watch[w].gt < x.rev
      /\ x.id \in Ids /\ x.rev \in Nat
      /\ ~ overtaken[w] => \A id \in Ids : rows[w][id].rev <= x.rev /\ ~ (rows[w][id].rev <= watch[w].gt) =>
                              id = x.id /\ rows[w][id].rev = x.rev /\ rows[w][id].del = x.del
  <2>1. x = NextItem(w) /\ st \in WatchState /\ st.gt = x.rev /\ st.list = watch[w].list \ {x}
    BY <1>2, <1>4, <1>5
  <2> QED
    BY <2>1, AfterItem
<1>9. Kept(w, client[w]) /\ InStep(w, watch[w], client[w])
  BY <1>3, StreamOf
<1>10. InStep(w, st, client[w])
  <2>1. client[w].gt <= st.gt
    BY <1>0, <1>5, <1>8, <1>9, Typed DEF InStep
  <2>2. ~ resumed[w] /\ ~ st.atTail => \A id \in Ids : client[w].view[id] # 0 => id \in st.ids
    BY <1>5, <1>9 DEF InStep
  <2>3. ASSUME ~ cancelled, ~ overtaken[w], ~ resumed[w], NEW id \in Ids, rows[w][id].rev <= st.gt
        PROVE  Shows(w, client[w], id)
    <3>1. CASE rows[w][id].rev <= watch[w].gt
      BY <1>9, <2>3, <3>1 DEF InStep
    <3>2. CASE ~ (rows[w][id].rev <= watch[w].gt)
      <4>1. id = x.id /\ rows[w][id].del = x.del
        BY <1>5, <1>8, <2>3, <3>2
      <4>2. client[w].view[id] = 0
        BY <1>2, <1>9, <2>3, <4>1 DEF InStep
      <4> QED
        BY <1>2, <4>1, <4>2 DEF Shows
    <3> QED
      BY <3>1, <3>2
  <2> QED
    BY <2>1, <2>2, <2>3 DEF InStep
<1>11. token \in [Watches -> BOOLEAN] /\ lost \in [Watches -> BOOLEAN]
  BY <1>0 DEF TypeOK
<1> QED
  BY <1>1, <1>3, <1>4, <1>5, <1>6, <1>7, <1>8, <1>9, <1>10, <1>11, ServedInv

\* A fetch puts what it found in order into the watch's list.
LEMMA FetchInv == ASSUME IInv, NEW w \in Watches, FetchItems(w) PROVE IInv'
<1>0. TypeOK /\ Revisions
  BY DEF IInv
<1>1. /\ pc.at = "scan" /\ ~ watch[w].parked /\ watch[w].list = {} /\ Advance(FALSE)
      /\ watch' = [watch EXCEPT ![w].list = Batch(w, watch[w].gt)]
      /\ UNCHANGED <<rows, seq, open, unnotified, queued, listener, faults, conns>>
      /\ UNCHANGED <<cancelled, resumed, overtaken, client, token, lost>>
  BY DEF FetchItems, Fetching, dbVars, busVars, clientVars
<1>2. Subscribed /\ Subscribed' /\ Position(pc')
  BY <1>1, AdvanceIs DEF Subscribed
<1> DEFINE B == Batch(w, watch[w].gt)
           st == [watch[w] EXCEPT !.list = B]
<1>3. watch[w] \in WatchState /\ watch[w].gt \in Nat
  BY <1>0 DEF TypeOK, WatchState
<1>4. /\ B \subseteq Above(w, watch[w].gt)
      /\ \A x \in B : \A y \in Above(w, watch[w].gt) : y.rev <= x.rev => y \in B
  BY <1>0, <1>3, BatchIs
<1> HIDE DEF B
<1>5. \A x \in B : \E id \in Ids : rows[w][id].rev > watch[w].gt /\ x = Found(w, id)
  BY <1>4, AboveIs
<1>6. B \subseteq Item
  BY <1>0, <1>5, Typed DEF Found, Item
<1>7. st \in WatchState
  BY <1>3, <1>6 DEF WatchState
<1>8. st.list = B /\ st.gt = watch[w].gt /\ st.ids = watch[w].ids /\ st.atTail = watch[w].atTail /\ ~ st.parked
  BY <1>1, <1>3 DEF WatchState
<1>9. watch' = [watch EXCEPT ![w] = st]
  BY <1>0, <1>1 DEF TypeOK, B
<1>10. client[w] \in ClientState /\ client' = [client EXCEPT ![w] = client[w]]
  BY <1>0, <1>1 DEF TypeOK, ClientState
<1> HIDE DEF st
<1>11. Fetched(w, watch[w]) /\ Kept(w, client[w]) /\ InStep(w, watch[w], client[w])
  BY <1>2, StreamOf
<1>12. InStep(w, st, client[w])
  BY <1>8, <1>11 DEF InStep
<1>13. Fetched(w, st)
  <2>1. \A x \in B : x.rev > watch[w].gt /\ x.rev <= rows[w][x.id].rev
    BY <1>0, <1>5, Typed DEF Found
  <2>2. ASSUME NEW x \in B, NEW y \in B, x.rev = y.rev PROVE x = y
    <3>1. PICK i \in Ids : rows[w][i].rev > watch[w].gt /\ x = Found(w, i)
      BY <1>5
    <3>2. PICK j \in Ids : rows[w][j].rev > watch[w].gt /\ y = Found(w, j)
      BY <1>5
    <3>3. rows[w][i].rev = rows[w][j].rev /\ rows[w][i].rev # 0
      BY <1>0, <1>3, <2>2, <3>1, <3>2, Typed DEF Found
    <3>4. i = j
      BY <1>0, <3>3 DEF Revisions
    <3> QED
      BY <3>1, <3>2, <3>4
  <2>3. ASSUME NEW x \in B, NEW id \in Ids, rows[w][id].rev > watch[w].gt, rows[w][id].rev <= x.rev
        PROVE  Found(w, id) \in B
    BY <1>4, <2>3, AboveIs DEF Found
  <2> QED
    BY <1>8, <1>11, <2>1, <2>2, <2>3 DEF Fetched
<1>14. token \in [Watches -> BOOLEAN] /\ lost \in [Watches -> BOOLEAN]
  BY <1>0 DEF TypeOK
<1> QED
  BY <1>1, <1>2, <1>7, <1>8, <1>9, <1>10, <1>11, <1>12, <1>13, <1>14, ServedInv

\* What the two action properties say of a step.
InOrder(v) == /\ client'[v].gt >= client[v].gt
              /\ client'[v].view # client[v].view => client'[v].gt > client[v].gt
TailTrue(v) == client'[v].atTail /\ ~ client[v].atTail /\ ~ overtaken[v] /\ ~ resumed[v] =>
                 \A id \in Ids : Agrees(v, id)

\* A step that leaves the client alone satisfies both.
LEMMA ClientKept ==
  ASSUME TypeOK, client' = client
  PROVE  \A v \in Watches : InOrder(v) /\ TailTrue(v)
BY Typed DEF InOrder, TailTrue

\* An item goes to the client.
LEMMA SendInv ==
  ASSUME IInv, NEW w \in Watches, SendItem(w)
  PROVE  IInv' /\ \A v \in Watches : InOrder(v) /\ TailTrue(v)
<1>0. TypeOK
  BY DEF IInv
<1>1. PICK x \in watch[w].list :
        /\ Sending(w, x) /\ ~ Skipped(w, x)
        /\ watch' = [watch EXCEPT ![w].gt = x.rev, ![w].list = @ \ {x},
                      ![w].ids = IF x.del \/ watch[w].atTail THEN @ ELSE @ \cup {x.id}]
        /\ Event(w, x.rev, client[w].atTail,
                 [client[w].view EXCEPT ![x.id] = IF x.del THEN 0 ELSE x.rev])
        /\ UNCHANGED <<rows, seq, open, unnotified, queued, listener, faults, conns>>
        /\ UNCHANGED <<cancelled, resumed, overtaken, token, lost>>
  BY DEF SendItem, dbVars, busVars
<1> DEFINE st == [watch[w] EXCEPT !.gt = x.rev, !.list = @ \ {x},
                   !.ids = IF x.del \/ watch[w].atTail THEN @ ELSE @ \cup {x.id}]
           view == [client[w].view EXCEPT ![x.id] = IF x.del THEN 0 ELSE x.rev]
           sent == [gt |-> x.rev, atTail |-> client[w].atTail, view |-> view]
           cl == IF cancelled THEN client[w] ELSE sent
<1>2. /\ pc.at = "scan" /\ ~ watch[w].parked /\ x = NextItem(w)
  BY <1>1 DEF Sending
<1>3. Subscribed /\ Subscribed' /\ Position(pc')
  BY <1>1, <1>2, Positions DEF Subscribed, Event
<1>4. st \in WatchState /\ watch[w] \in WatchState
  <2>1. watch[w] \in WatchState /\ x.rev \in Nat /\ x.id \in Ids
    BY <1>0, Typed DEF TypeOK, WatchState
  <2> QED
    BY <2>1 DEF WatchState
<1>5. /\ st.gt = x.rev /\ st.list = watch[w].list \ {x} /\ st.atTail = watch[w].atTail /\ ~ st.parked
      /\ watch[w].ids \subseteq st.ids /\ (~ x.del /\ ~ st.atTail => x.id \in st.ids)
  BY <1>2, <1>4 DEF WatchState
<1>6. watch' = [watch EXCEPT ![w] = st]
  BY <1>0, <1>1 DEF TypeOK
<1> HIDE DEF st
<1>7. /\ Fetched(w, st) /\ watch[w].gt < x.rev /\ x.rev <= rows[w][x.id].rev
      /\ x.id \in Ids /\ x.rev \in Nat /\ x.del \in BOOLEAN
      /\ ~ overtaken[w] => \A id \in Ids : rows[w][id].rev <= x.rev /\ ~ (rows[w][id].rev <= watch[w].gt) =>
                              id = x.id /\ rows[w][id].rev = x.rev /\ rows[w][id].del = x.del
  <2>1. x = NextItem(w) /\ st \in WatchState /\ st.gt = x.rev /\ st.list = watch[w].list \ {x}
    BY <1>2, <1>4, <1>5
  <2> QED
    BY <2>1, AfterItem
<1>8. Kept(w, client[w]) /\ InStep(w, watch[w], client[w])
  BY <1>3, StreamOf
<1>9. /\ client[w] \in ClientState /\ client \in [Watches -> ClientState]
      /\ client[w].view \in [Ids -> Nat] /\ client[w].atTail \in BOOLEAN
      /\ client[w].gt \in Nat /\ watch[w].gt \in Nat /\ \A id \in Ids : rows[w][id].rev \in Nat
  BY <1>0, Typed DEF TypeOK, ClientState
<1>10. client[w].gt < x.rev
  BY <1>7, <1>8, <1>9 DEF InStep
<1>11. /\ view \in [Ids -> Nat] /\ view[x.id] = (IF x.del THEN 0 ELSE x.rev)
       /\ \A id \in Ids \ {x.id} : view[id] = client[w].view[id]
  BY <1>7, <1>9
<1> HIDE DEF view
<1>12. sent \in ClientState /\ sent.gt = x.rev /\ sent.view = view /\ sent.atTail = client[w].atTail
  BY <1>7, <1>9, <1>11 DEF ClientState
<1>13. client' = [client EXCEPT ![w] = cl]
  BY <1>1, <1>9 DEF Event, view
<1> HIDE DEF sent
<1>14. ASSUME ~ cancelled, ~ overtaken[w], ~ resumed[w], NEW id \in Ids, rows[w][id].rev <= x.rev
       PROVE  Shows(w, sent, id)
  <2>1. CASE rows[w][id].rev <= watch[w].gt
    <3>1. id # x.id
      BY <1>7, <1>9, <2>1
    <3>2. Shows(w, client[w], id)
      BY <1>8, <1>14, <2>1 DEF InStep
    <3> QED
      BY <1>11, <1>12, <3>1, <3>2 DEF Shows
  <2>2. CASE ~ (rows[w][id].rev <= watch[w].gt)
    <3>1. id = x.id /\ rows[w][id].rev = x.rev /\ rows[w][id].del = x.del
      BY <1>7, <1>14, <2>2
    <3> QED
      BY <1>11, <1>12, <3>1 DEF Shows
  <2> QED
    BY <2>1, <2>2
<1>15. cl \in ClientState /\ Kept(w, cl) /\ InStep(w, st, cl)
  <2>1. CASE cancelled
    <3>1. cl = client[w]
      BY <2>1
    <3>2. InStep(w, st, client[w])
      BY <1>5, <1>7, <1>8, <1>9, <1>10, <2>1 DEF InStep
    <3> QED
      BY <1>8, <1>9, <3>1, <3>2
  <2>2. CASE ~ cancelled
    <3>1. cl = sent
      BY <2>2
    <3>2. Kept(w, sent)
      BY <1>7, <1>9, <1>10, <1>12, <1>14, <2>2 DEF Kept
    <3>3. ~ resumed[w] /\ ~ st.atTail => \A id \in Ids : sent.view[id] # 0 => id \in st.ids
      BY <1>5, <1>8, <1>11, <1>12 DEF InStep
    <3>4. InStep(w, st, sent)
      BY <1>5, <1>7, <1>12, <1>14, <2>2, <3>3 DEF InStep
    <3> QED
      BY <1>12, <3>1, <3>2, <3>4
  <2> QED
    BY <2>1, <2>2
<1>16. token \in [Watches -> BOOLEAN] /\ lost \in [Watches -> BOOLEAN]
  BY <1>0 DEF TypeOK
<1>17. \A v \in Watches : InOrder(v) /\ TailTrue(v)
  <2> SUFFICES ASSUME NEW v \in Watches PROVE InOrder(v) /\ TailTrue(v)
    OBVIOUS
  <2>1. client[v].gt \in Nat
    BY <1>0, Typed
  <2>2. \/ client'[v] = client[v]
        \/ v = w /\ client'[w] = sent
    BY <1>9, <1>13
  <2> QED
    BY <1>7, <1>10, <1>12, <2>1, <2>2 DEF InOrder, TailTrue
<1> HIDE DEF cl
<1>18. IInv'
  BY <1>1, <1>3, <1>4, <1>5, <1>6, <1>7, <1>13, <1>15, <1>16, ServedInv
<1> QED
  BY <1>17, <1>18

\* The tail event.
LEMMA TailInv ==
  ASSUME IInv, NEW w \in Watches, FetchTail(w)
  PROVE  IInv' /\ \A v \in Watches : InOrder(v) /\ TailTrue(v)
<1>0. TypeOK /\ Revisions
  BY DEF IInv
<1>1. /\ pc.at = "scan" /\ ~ watch[w].parked /\ watch[w].list = {} /\ Batch(w, watch[w].gt) = {}
      /\ watch' = [watch EXCEPT ![w].atTail = TRUE, ![w].ids = {}]
      /\ Event(w, client[w].gt, TRUE, client[w].view)
      /\ UNCHANGED <<rows, seq, open, unnotified, queued, listener, faults, conns>>
      /\ UNCHANGED <<cancelled, resumed, overtaken, token, lost>>
  BY DEF FetchTail, Fetching, dbVars, busVars
<1> DEFINE st == [watch[w] EXCEPT !.atTail = TRUE, !.ids = {}]
           told == [gt |-> client[w].gt, atTail |-> TRUE, view |-> client[w].view]
           cl == IF cancelled THEN client[w] ELSE told
<1>2. Subscribed /\ Subscribed' /\ Position(pc')
  BY <1>1, Positions DEF Subscribed, Event
<1>3. watch[w] \in WatchState /\ watch[w].gt \in Nat /\ client[w] \in ClientState /\ client \in [Watches -> ClientState]
  BY <1>0 DEF TypeOK, WatchState, ClientState
<1>4. st \in WatchState
  BY <1>3 DEF WatchState
<1>5. st.gt = watch[w].gt /\ st.list = {} /\ st.atTail /\ ~ st.parked
  BY <1>1, <1>3 DEF WatchState
<1>6. watch' = [watch EXCEPT ![w] = st]
  BY <1>0, <1>1 DEF TypeOK
<1>7. client' = [client EXCEPT ![w] = cl]
  BY <1>1, <1>3 DEF Event
<1>8. told \in ClientState /\ told.gt = client[w].gt /\ told.view = client[w].view
  BY <1>3 DEF ClientState
<1> HIDE DEF st, told
<1>9. Fetched(w, watch[w]) /\ Kept(w, client[w]) /\ InStep(w, watch[w], client[w])
  BY <1>2, StreamOf
<1>10. Fetched(w, st)
  BY <1>1, <1>5, <1>9 DEF Fetched
<1>11. cl \in ClientState /\ cl.gt = client[w].gt /\ cl.view = client[w].view
  BY <1>3, <1>8
<1>12. client'[w] = cl /\ \A v \in Watches \ {w} : client'[v] = client[v]
  BY <1>3, <1>7
<1>13. \A v \in Watches : InOrder(v)
  BY <1>0, <1>11, <1>12, Typed DEF InOrder
<1>14. \A v \in Watches : TailTrue(v)
  <2> SUFFICES ASSUME NEW v \in Watches, client'[v].atTail, ~ client[v].atTail, ~ overtaken[v], ~ resumed[v],
                      NEW id \in Ids
               PROVE  Agrees(v, id)
    BY DEF TailTrue
  <2>1. v = w /\ ~ cancelled
    BY <1>12
  <2>2. Above(w, watch[w].gt) = {}
    BY <1>0, <1>1, <1>3, BatchIs
  <2>3. ~ (rows[w][id].rev > watch[w].gt)
    BY <2>2, AboveIs
  <2>4. rows[w][id].rev <= watch[w].gt
    BY <1>0, <1>3, <2>3, Typed
  <2>5. Shows(w, client[w], id)
    BY <1>9, <2>1, <2>4 DEF InStep
  <2> QED
    BY <2>1, <2>5 DEF Shows, Agrees
<1> HIDE DEF cl
<1>15. Kept(w, cl) /\ InStep(w, st, cl)
  BY <1>5, <1>9, <1>11 DEF Kept, InStep, Shows
<1>16. token \in [Watches -> BOOLEAN] /\ lost \in [Watches -> BOOLEAN]
  BY <1>0 DEF TypeOK
<1>17. IInv'
  BY <1>1, <1>2, <1>4, <1>5, <1>6, <1>7, <1>10, <1>11, <1>15, <1>16, ServedInv
<1> QED
  BY <1>13, <1>14, <1>17

-----------------------------------------------------------------------------
\* The stream ends, or starts over after the timeout.
LEMMA EndInv ==
  ASSUME IInv, (\E w \in Watches : FetchFails(w)) \/ SeesCancel \/ WaitTimeout
  PROVE  IInv'
<1>0. TypeOK /\ Revisions /\ Loop /\ NoLostWakeup
  BY DEF IInv
<1>1. /\ UNCHANGED <<rows, seq, open, unnotified, queued, listener, faults, conns>>
      /\ UNCHANGED <<cancelled, resumed, overtaken, client, lost>>
  BY DEF FetchFails, SeesCancel, WaitTimeout, dbVars, busVars, clientVars
<1>2. Revisions'
  BY <1>0, <1>1 DEF Revisions
<1>3. \A v \in Watches : Kept(v, client[v])'
  BY <1>1, StreamOf DEF Kept, Shows
<1>4. CASE End
  <2>1. pc' = At("closed") /\ token' = [v \in Watches |-> FALSE] /\ watch' = [v \in Watches |-> IdleWatch]
    BY <1>4 DEF End
  <2>2. IdleWatch \in WatchState
    BY DEF IdleWatch, WatchState
  <2>3. TypeOK'
    <3>1. token' \in [Watches -> BOOLEAN] /\ watch' \in [Watches -> WatchState]
      BY <2>1, <2>2
    <3>2. \A v \in Watches : watch'[v].list = {}
      BY <2>1 DEF IdleWatch
    <3> QED
      BY <1>0, <1>1, <2>1, <3>1, <3>2, Positions DEF TypeOK, WatchState, Position
  <2>4. Loop' /\ ~ Subscribed'
    BY <2>1, Positions DEF Loop, Subscribed, At
  <2>5. Streams'
    <3>1. \A v \in Watches : watch'[v].list = {} /\ watch'[v].gt = 0
      BY <2>1 DEF IdleWatch
    <3>2. \A v \in Watches : Fetched(v, watch[v])'
      BY <3>1 DEF Fetched
    <3> QED
      BY <1>3, <2>4, <3>2 DEF Streams
  <2>6. NoLostWakeup'
    BY <2>1 DEF NoLostWakeup, IdleWatch
  <2> QED
    BY <1>2, <2>3, <2>4, <2>5, <2>6 DEF IInv
<1>5. CASE WaitTimeout
  <2>1. pc.at = "wait" /\ pc' = Scanning(1, 0) /\ UNCHANGED <<token, watch>>
    BY <1>5 DEF WaitTimeout
  <2>2. TypeOK'
    BY <1>0, <1>1, <2>1, Positions DEF TypeOK, Position
  <2>3. Loop' /\ Subscribed
    BY <2>1, Positions DEF Loop, Subscribed
  <2>4. Streams'
    BY <1>1, <2>1, <2>3, StreamOf DEF Streams, Fetched, Found, Kept, InStep, Shows
  <2>5. NoLostWakeup'
    BY <1>0, <1>1, <2>1 DEF NoLostWakeup, Above
  <2> QED
    BY <1>2, <2>2, <2>3, <2>4, <2>5 DEF IInv
<1> QED
  BY <1>4, <1>5 DEF FetchFails, SeesCancel

\* The client goes.
LEMMA CancelInv == ASSUME IInv, Cancel PROVE IInv'
<1>0. TypeOK /\ Revisions /\ Loop /\ NoLostWakeup
  BY DEF IInv
<1>1. /\ UNCHANGED <<rows, seq, open, unnotified, queued, listener, faults, conns>>
      /\ UNCHANGED <<resumed, overtaken, client, lost, pc, watch, token>> /\ cancelled' = TRUE
  BY DEF Cancel, dbVars, busVars
<1>2. Revisions' /\ Loop' /\ TypeOK' /\ NoLostWakeup'
  BY <1>0, <1>1 DEF Revisions, Loop, TypeOK, NoLostWakeup, Above
<1>3. Streams'
  BY <1>1, StreamOf DEF Streams, Fetched, Found, Kept, InStep, Shows, Subscribed
<1> QED
  BY <1>2, <1>3 DEF IInv

\* It comes back with its cursor: what the stream remembers starts empty, and so is
\* the client's copy unless it had seen the tail.
LEMMA ConnectInv == ASSUME IInv, Connect PROVE IInv'
<1>0. TypeOK /\ Revisions /\ Loop /\ NoLostWakeup
  BY DEF IInv
<1>1. /\ UNCHANGED <<rows, seq, open, unnotified, queued, listener, faults>>
      /\ UNCHANGED <<overtaken, client, lost>>
      /\ cancelled' = FALSE /\ conns' = conns + 1 /\ pc' = Scanning(1, 0)
      /\ token' = [w \in Watches |-> FALSE]
      /\ watch' = [w \in Watches |-> Resume(w)]
      /\ resumed' = [w \in Watches |-> resumed[w] \/ (client[w].gt # 0 /\ ~ client[w].atTail)]
  BY DEF Connect, dbVars, busVars
<1>2. Revisions' /\ Loop'
  BY <1>0, <1>1, Positions DEF Revisions, Loop
<1>3. \A w \in Watches : /\ Resume(w) \in WatchState /\ Resume(w).gt = client[w].gt
                         /\ Resume(w).atTail = client[w].atTail /\ Resume(w).list = {}
                         /\ ~ Resume(w).parked
  BY <1>0, Typed DEF Resume, IdleWatch, WatchState
<1>4. TypeOK'
  <2>1. watch' \in [Watches -> WatchState] /\ \A w \in Watches : watch'[w].list = {}
    BY <1>1, <1>3
  <2>2. token' \in [Watches -> BOOLEAN] /\ resumed' \in [Watches -> BOOLEAN]
    BY <1>0, <1>1 DEF TypeOK
  <2>3. /\ UNCHANGED <<rows, seq, open, unnotified, queued, listener, faults>>
        /\ UNCHANGED <<overtaken, client, lost>> /\ cancelled' = FALSE /\ conns' \in Nat
    BY <1>0, <1>1 DEF TypeOK
  <2>4. pc' \in [at : {"closed", "scan", "wait"}, i : Watches, parked : 0 .. NumWatches]
    BY <1>1, Positions DEF Position
  <2> QED
    BY <1>0, <2>1, <2>2, <2>3, <2>4 DEF TypeOK, WatchState
<1>5. Streams'
  <2> SUFFICES ASSUME NEW w \in Watches
               PROVE  Fetched(w, watch[w])' /\ Kept(w, client[w])' /\ InStep(w, watch[w], client[w])'
    BY DEF Streams
  <2>1. Kept(w, client[w])
    BY StreamOf
  <2>2. /\ watch'[w].gt = client[w].gt /\ watch'[w].atTail = client[w].atTail /\ watch'[w].list = {}
        /\ ~ resumed'[w] => ~ resumed[w] /\ (client[w].gt = 0 \/ client[w].atTail)
    BY <1>1, <1>3
  <2>3. Fetched(w, watch[w])'
    BY <1>1, <2>1, <2>2 DEF Fetched, Kept
  <2>4. Kept(w, client[w])'
    BY <1>1, <2>1, <2>2 DEF Kept, Shows
  <2>5. InStep(w, watch[w], client[w])'
    <3>1. client'[w].gt <= watch'[w].gt
      BY <1>0, <1>1, <2>2, Typed
    <3>2. ~ resumed'[w] /\ ~ watch'[w].atTail => \A id \in Ids : client'[w].view[id] = 0
      BY <1>1, <2>1, <2>2 DEF Kept
    <3> QED
      BY <1>1, <2>1, <2>2, <3>1, <3>2 DEF InStep, Kept, Shows
  <2> QED
    BY <2>3, <2>4, <2>5
<1>6. NoLostWakeup'
  BY <1>1, <1>3 DEF NoLostWakeup
<1> QED
  BY <1>2, <1>4, <1>5, <1>6 DEF IInv

-----------------------------------------------------------------------------
\* A transaction that begins or is rolled back changes no row.
LEMMA WriteInv ==
  ASSUME IInv, NEW w \in Watches, NEW id \in Ids,
         (\E del \in BOOLEAN : Write(w, id, del)) \/ Rollback(w, id)
  PROVE  IInv'
<1>0. TypeOK /\ Revisions /\ Loop /\ NoLostWakeup
  BY DEF IInv
<1>1. /\ UNCHANGED <<rows, unnotified, queued, listener, faults, conns, token, watch, pc>>
      /\ UNCHANGED <<cancelled, resumed, overtaken, client, lost>>
  BY DEF Write, Rollback, busVars, clientVars
<1>2. Streams'
  BY <1>1, StreamOf DEF Streams, Fetched, Found, Kept, InStep, Shows, Subscribed
<1>3. Loop' /\ NoLostWakeup'
  BY <1>0, <1>1 DEF Loop, NoLostWakeup, Above
<1>4. seq \in [Watches -> Nat] /\ open \in [Watches -> [Ids -> Row]] /\ NoRow \in Row
  BY <1>0 DEF TypeOK, NoRow, Row
<1>5. CASE \E del \in BOOLEAN : Write(w, id, del)
  <2>1. PICK del \in BOOLEAN :
          /\ seq' = [seq EXCEPT ![w] = @ + 1]
          /\ open' = [open EXCEPT ![w][id] = [rev |-> seq[w] + 1, del |-> del]]
    BY <1>5 DEF Write
  <2> DEFINE new == [rev |-> seq[w] + 1, del |-> del]
  <2>2. new \in Row /\ new.rev = seq[w] + 1
    BY <1>4 DEF Row
  <2> HIDE DEF new
  <2>3. seq' \in [Watches -> Nat] /\ open' \in [Watches -> [Ids -> Row]]
    BY <1>4, <2>1, <2>2 DEF new
  <2>4. TypeOK'
    BY <1>0, <1>1, <2>3 DEF TypeOK
  <2>5. /\ seq'[w] = seq[w] + 1 /\ open'[w][id] = new
        /\ \A j \in Ids \ {id} : open'[w][j] = open[w][j]
        /\ \A v \in Watches \ {w} : seq'[v] = seq[v] /\ open'[v] = open[v]
    BY <1>4, <2>1 DEF new
  <2>6. \A v \in Watches : \A j \in Ids : rows[v][j].rev \in Nat /\ open[v][j].rev \in Nat
    BY <1>0, Typed
  <2>7. Revisions'
    <3> SUFFICES ASSUME NEW v \in Watches, NEW i \in Ids
                 PROVE  /\ rows[v][i].rev <= seq'[v] /\ open'[v][i].rev <= seq'[v]
                        /\ rows[v][i].rev = 0 => rows[v][i] = NoRow
                        /\ open'[v][i].rev = 0 => open'[v][i] = NoRow
                        /\ open'[v][i].rev # 0 => rows[v][i].rev < open'[v][i].rev
                        /\ \A j \in Ids : open'[v][i].rev # 0 => rows[v][j].rev # open'[v][i].rev
                        /\ \A j \in Ids : open'[v][i].rev # 0 /\ open'[v][j].rev = open'[v][i].rev => j = i
                        /\ \A j \in Ids : rows[v][i].rev # 0 /\ rows[v][j].rev = rows[v][i].rev => j = i
      BY <1>1 DEF Revisions
    <3>1. CASE v # w
      BY <1>0, <2>5, <3>1 DEF Revisions
    <3>2. CASE v = w
      <4>1. \A j \in Ids : rows[w][j].rev <= seq[w] /\ open[w][j].rev <= seq[w]
        BY <1>0 DEF Revisions
      <4>2. seq[w] \in Nat
        BY <1>4
      <4>3. CASE i = id
        BY <1>0, <2>2, <2>5, <2>6, <3>2, <4>1, <4>2, <4>3 DEF Revisions
      <4>4. CASE i # id
        BY <1>0, <2>2, <2>5, <2>6, <3>2, <4>1, <4>2, <4>4 DEF Revisions
      <4> QED
        BY <4>3, <4>4
    <3> QED
      BY <3>1, <3>2
  <2> QED
    BY <1>2, <1>3, <2>4, <2>7 DEF IInv
<1>6. CASE Rollback(w, id)
  <2>1. seq' = seq /\ open' = [open EXCEPT ![w][id] = NoRow]
    BY <1>6 DEF Rollback
  <2>2. open' \in [Watches -> [Ids -> Row]] /\ NoRow.rev = 0
    BY <1>4, <2>1 DEF NoRow
  <2>3. TypeOK'
    BY <1>0, <1>1, <2>1, <2>2 DEF TypeOK
  <2>4. \A v \in Watches : \A j \in Ids : open'[v][j] = open[v][j] \/ open'[v][j] = NoRow
    BY <1>4, <2>1
  <2>5. seq[w] \in Nat /\ \A v \in Watches : seq[v] \in Nat
    BY <1>4
  <2>6. Revisions'
    BY <1>0, <1>1, <2>1, <2>2, <2>4, <2>5 DEF Revisions
  <2> QED
    BY <1>2, <1>3, <2>3, <2>6 DEF IInv
<1> QED
  BY <1>5, <1>6

\* A commit: unless it was overtaken, its revision is above every cursor.
LEMMA CommitInv == ASSUME IInv, NEW w \in Watches, NEW id \in Ids, Commit(w, id) PROVE IInv'
<1>0. TypeOK /\ Revisions /\ Loop /\ NoLostWakeup
  BY DEF IInv
<1> DEFINE r == open[w][id].rev
<1>1. /\ UNCHANGED <<seq, queued, listener, faults, lost, token, pc, watch, client, cancelled, conns, resumed>>
      /\ open[w][id] # NoRow
      /\ rows' = [rows EXCEPT ![w][id] = open[w][id]]
      /\ open' = [open EXCEPT ![w][id] = NoRow]
      /\ unnotified' = [unnotified EXCEPT ![w] = @ + 1]
      /\ overtaken' = [overtaken EXCEPT ![w] = @ \/ \E j \in Ids : rows[w][j].rev > open[w][id].rev]
  BY DEF Commit, clientVars
<1>2. /\ rows \in [Watches -> [Ids -> Row]] /\ open \in [Watches -> [Ids -> Row]]
      /\ unnotified \in [Watches -> Nat] /\ overtaken \in [Watches -> BOOLEAN]
      /\ NoRow \in Row /\ NoRow.rev = 0
  BY <1>0 DEF TypeOK, NoRow, Row
<1>3. /\ rows'[w][id] = open[w][id] /\ open'[w][id] = NoRow
      /\ \A j \in Ids \ {id} : rows'[w][j] = rows[w][j] /\ open'[w][j] = open[w][j]
      /\ \A v \in Watches \ {w} : rows'[v] = rows[v] /\ open'[v] = open[v]
  BY <1>1, <1>2
<1>4. /\ \A v \in Watches : \A j \in Ids : rows[v][j].rev \in Nat /\ open[v][j].rev \in Nat
      /\ \A v \in Watches : seq[v] \in Nat /\ watch[v].gt \in Nat /\ client[v].gt \in Nat
      /\ \A v \in Watches : \A x \in watch[v].list : x.id \in Ids /\ x.rev \in Nat
  BY <1>0, Typed
<1>5. r # 0 /\ r \in Nat /\ rows[w][id].rev < r /\ \A j \in Ids : rows[w][j].rev # r
  BY <1>0, <1>1, <1>4 DEF Revisions
<1>6. /\ rows' \in [Watches -> [Ids -> Row]] /\ open' \in [Watches -> [Ids -> Row]]
      /\ unnotified' \in [Watches -> Nat] /\ overtaken' \in [Watches -> BOOLEAN]
      /\ unnotified'[w] > 0 /\ \A v \in Watches \ {w} : unnotified'[v] = unnotified[v]
  <2>1. PICK b \in BOOLEAN : b = (overtaken[w] \/ \E j \in Ids : rows[w][j].rev > open[w][id].rev)
    <3>1. (overtaken[w] \/ \E j \in Ids : rows[w][j].rev > open[w][id].rev) \in BOOLEAN
      OBVIOUS
    <3> QED
      BY <3>1
  <2>2. overtaken' = [overtaken EXCEPT ![w] = b]
    BY <1>1, <1>2, <2>1
  <2> QED
    BY <1>1, <1>2, <2>2
<1>7. TypeOK'
  BY <1>0, <1>1, <1>6 DEF TypeOK
<1>8. /\ \A v \in Watches : overtaken[v] => overtaken'[v]
      /\ ~ overtaken'[w] => \A j \in Ids : rows[w][j].rev < r
  <2>1. \A v \in Watches : overtaken[v] => overtaken'[v]
    BY <1>1, <1>2
  <2>2. ~ overtaken'[w] => \A j \in Ids : ~ (rows[w][j].rev > open[w][id].rev)
    BY <1>1, <1>2
  <2> QED
    BY <1>4, <1>5, <2>1, <2>2
<1>9. Revisions'
  <2> SUFFICES ASSUME NEW v \in Watches, NEW i \in Ids
               PROVE  /\ rows'[v][i].rev <= seq[v] /\ open'[v][i].rev <= seq[v]
                      /\ rows'[v][i].rev = 0 => rows'[v][i] = NoRow
                      /\ open'[v][i].rev = 0 => open'[v][i] = NoRow
                      /\ open'[v][i].rev # 0 => rows'[v][i].rev < open'[v][i].rev
                      /\ \A j \in Ids : open'[v][i].rev # 0 => rows'[v][j].rev # open'[v][i].rev
                      /\ \A j \in Ids : open'[v][i].rev # 0 /\ open'[v][j].rev = open'[v][i].rev => j = i
                      /\ \A j \in Ids : rows'[v][i].rev # 0 /\ rows'[v][j].rev = rows'[v][i].rev => j = i
    BY <1>1 DEF Revisions
  <2>1. CASE v # w
    BY <1>0, <1>3, <2>1 DEF Revisions
  <2>2. CASE v = w /\ i = id
    BY <1>0, <1>2, <1>3, <1>4, <1>5, <2>2 DEF Revisions
  <2>3. CASE v = w /\ i # id
    <3>1. /\ rows'[w][i] = rows[w][i] /\ open'[w][i] = open[w][i]
          /\ \A j \in Ids : j # id => rows'[w][j] = rows[w][j] /\ open'[w][j] = open[w][j]
          /\ rows[w][i].rev # r /\ rows'[w][id].rev = r /\ open'[w][id].rev = 0
      BY <1>2, <1>3, <1>5, <2>3
    <3>2. open[w][i].rev # 0 => open[w][i].rev # r
      BY <1>0, <1>5, <2>3 DEF Revisions
    <3> QED
      BY <1>0, <1>5, <2>3, <3>1, <3>2 DEF Revisions
  <2> QED
    BY <2>1, <2>2, <2>3
<1>10. \A j \in Ids : rows[w][j].rev <= rows'[w][j].rev
  BY <1>3, <1>4, <1>5
<1> HIDE DEF r
<1>11. \A j \in Ids : \/ rows'[w][j].rev = rows[w][j].rev /\ Found(w, j)' = Found(w, j)
                      \/ j = id /\ rows'[w][j].rev = r
  <2> SUFFICES ASSUME NEW j \in Ids
               PROVE  \/ rows'[w][j].rev = rows[w][j].rev /\ Found(w, j)' = Found(w, j)
                      \/ j = id /\ rows'[w][j].rev = r
    OBVIOUS
  <2>1. CASE j = id
    BY <1>3, <2>1 DEF r
  <2>2. CASE j # id
    <3>1. rows'[w][j] = rows[w][j]
      BY <1>3, <2>2
    <3>2. Found(w, j)' = Found(w, j)
      BY <3>1 DEF Found
    <3> QED
      BY <3>1, <3>2
  <2> QED
    BY <2>1, <2>2
<1>12. Fetched(w, watch[w])'
  <2>1. Fetched(w, watch[w])
    BY StreamOf
  <2>2. \A x \in watch[w].list : x.rev > watch[w].gt /\ x.rev <= rows'[w][x.id].rev
    <3> SUFFICES ASSUME NEW x \in watch[w].list
                 PROVE  x.rev > watch[w].gt /\ x.rev <= rows'[w][x.id].rev
      OBVIOUS
    <3>1. x.rev > watch[w].gt /\ x.rev <= rows[w][x.id].rev /\ x.id \in Ids
      BY <1>4, <2>1 DEF Fetched
    <3>2. rows'[w][x.id].rev \in Nat
      BY <1>6, <3>1 DEF Row
    <3> QED
      BY <1>4, <1>10, <3>1, <3>2
  <2>3. watch[w].gt # 0 => \E j \in Ids : watch[w].gt <= rows'[w][j].rev
    BY <1>4, <1>5, <1>11, <2>1 DEF Fetched
  <2>4. ASSUME ~ overtaken'[w], NEW x \in watch[w].list, NEW j \in Ids,
               rows'[w][j].rev > watch[w].gt, rows'[w][j].rev <= x.rev
        PROVE  Found(w, j)' \in watch[w].list
    <3>1. x.rev < r /\ x.rev \in Nat
      BY <1>4, <1>5, <1>8, <2>1, <2>4 DEF Fetched
    <3>2. rows'[w][j].rev = rows[w][j].rev /\ Found(w, j)' = Found(w, j)
      BY <1>5, <1>11, <2>4, <3>1
    <3> QED
      BY <1>8, <2>1, <2>4, <3>2 DEF Fetched
  <2> QED
    BY <1>1, <2>1, <2>2, <2>3, <2>4 DEF Fetched
<1>13. ASSUME ~ overtaken'[w], NEW gt \in Nat, gt # 0 => \E j \in Ids : gt <= rows[w][j].rev,
              NEW j \in Ids, rows'[w][j].rev <= gt
       PROVE  rows'[w][j] = rows[w][j]
  <2>1. gt < r
    BY <1>4, <1>5, <1>8, <1>13
  <2> QED
    BY <1>3, <1>5, <1>13, <2>1 DEF r
<1>14. Kept(w, client[w])'
  <2>1. Kept(w, client[w])
    BY StreamOf
  <2>2. client[w].gt # 0 => \E j \in Ids : client[w].gt <= rows'[w][j].rev
    BY <1>4, <1>5, <1>11, <2>1 DEF Kept
  <2>3. ASSUME ~ overtaken'[w], ~ resumed[w], NEW j \in Ids, rows'[w][j].rev <= client[w].gt
        PROVE  Shows(w, client[w], j)'
    <3>1. rows'[w][j] = rows[w][j]
      BY <1>4, <1>13, <2>1, <2>3 DEF Kept
    <3>2. Shows(w, client[w], j)
      BY <1>8, <2>1, <2>3, <3>1 DEF Kept
    <3> QED
      BY <1>1, <3>1, <3>2 DEF Shows
  <2> QED
    BY <1>1, <2>1, <2>2, <2>3 DEF Kept
<1>15. ASSUME Subscribed PROVE InStep(w, watch[w], client[w])'
  <2>1. InStep(w, watch[w], client[w]) /\ Fetched(w, watch[w])
    BY <1>15, StreamOf
  <2>2. ASSUME ~ cancelled, ~ overtaken'[w], ~ resumed[w], NEW j \in Ids, rows'[w][j].rev <= watch[w].gt
        PROVE  Shows(w, client[w], j)'
    <3>1. rows'[w][j] = rows[w][j]
      BY <1>4, <1>13, <2>1, <2>2 DEF Fetched
    <3>2. Shows(w, client[w], j)
      BY <1>8, <2>1, <2>2, <3>1 DEF InStep
    <3> QED
      BY <1>1, <3>1, <3>2 DEF Shows
  <2> QED
    BY <1>1, <2>1, <2>2 DEF InStep
<1>16. Streams'
  <2>1. ASSUME NEW v \in Watches, v # w
        PROVE  Fetched(v, watch[v])' /\ Kept(v, client[v])' /\ (Subscribed => InStep(v, watch[v], client[v])')
    <3>1. rows'[v] = rows[v] /\ overtaken'[v] = overtaken[v]
      BY <1>1, <1>2, <2>1
    <3> QED
      BY <1>1, <3>1, StreamOf DEF Fetched, Found, Kept, InStep, Shows
  <2>2. Subscribed' = Subscribed
    BY <1>1 DEF Subscribed
  <2> QED
    BY <1>12, <1>14, <1>15, <2>1, <2>2 DEF Streams
<1>17. Loop'
  BY <1>0, <1>1 DEF Loop
<1>18. NoLostWakeup'
  BY <1>0, <1>1, <1>3, <1>6 DEF NoLostWakeup, Above
<1> QED
  BY <1>7, <1>9, <1>16, <1>17, <1>18 DEF IInv

-----------------------------------------------------------------------------
\* The initial states, and every step.
LEMMA InitInv == Init => IInv
<1> SUFFICES ASSUME Init PROVE IInv
  OBVIOUS
<1>1. NoRow \in Row /\ NoRow.rev = 0 /\ IdleWatch \in WatchState /\ IdleWatch.gt = 0 /\ IdleWatch.list = {}
      /\ ~ IdleWatch.parked
  BY DEF NoRow, Row, IdleWatch, WatchState
<1>2. pc \in [at : {"closed", "scan", "wait"}, i : Watches, parked : 0 .. NumWatches]
  BY Positions DEF Init, Position
<1>3. TypeOK
  BY <1>1, <1>2 DEF Init, TypeOK, WatchState
<1>4. Revisions
  BY <1>1 DEF Init, Revisions
<1>5. Streams
  BY <1>1 DEF Init, Streams, Fetched, Kept, Subscribed, At, Shows
<1>6. Loop
  BY Positions DEF Init, Loop
<1>7. NoLostWakeup
  BY <1>1 DEF Init, NoLostWakeup
<1> QED
  BY <1>3, <1>4, <1>5, <1>6, <1>7 DEF IInv

\* Every step keeps the invariant.
LEMMA NextInv ==
  ASSUME IInv, [Next]_vars
  PROVE  IInv' /\ \A v \in Watches : InOrder(v) /\ TailTrue(v)
<1>0. TypeOK
  BY DEF IInv
<1>1. ASSUME NEW w \in Watches, SendItem(w) \/ FetchTail(w)
      PROVE  IInv' /\ \A v \in Watches : InOrder(v) /\ TailTrue(v)
  BY <1>1, SendInv, TailInv
<1>2. ASSUME ~ \E w \in Watches : SendItem(w) \/ FetchTail(w)
      PROVE  client' = client
  BY <1>2 DEF Next, Handlers, Listener, SendMultiWatch, ServeWatch, Write, Commit, Rollback, Notify, NotifyLost,
      Deliver, ListenerFails, ListenerConnects, Connect, Cancel, Unpark, StayParked, SkipDelete, FetchItems,
      Park, FetchFails, WaitNotified, WaitTimeout, SeesCancel, clientVars, vars
<1>3. ASSUME ~ \E w \in Watches : SendItem(w) \/ FetchTail(w)
      PROVE  IInv'
  <2>1. CASE Handlers
    <3>1. \/ \E w \in Watches, id \in Ids : (\E del \in BOOLEAN : Write(w, id, del)) \/ Rollback(w, id)
          \/ \E w \in Watches, id \in Ids : Commit(w, id)
          \/ \E w \in Watches : Notify(w) \/ NotifyLost(w)
      BY <2>1 DEF Handlers
    <3> QED
      BY <3>1, WriteInv, CommitInv, BusInv
  <2>2. CASE Listener
    BY <2>2, BusInv
  <2>3. CASE Connect \/ Cancel
    BY <2>3, ConnectInv, CancelInv
  <2>4. CASE SendMultiWatch
    BY <1>3, <2>4, ParkedInv, SkipInv, FetchInv, EndInv DEF SendMultiWatch, ServeWatch
  <2>5. CASE UNCHANGED vars
    <3>1. UNCHANGED <<rows, seq, open, pc, watch, client, cancelled, resumed, overtaken>>
          /\ UNCHANGED <<unnotified, queued, listener, faults, lost, token, conns>>
      BY <2>5 DEF vars
    <3>2. TypeOK' /\ NoLostWakeup'
      BY <3>1 DEF IInv, TypeOK, NoLostWakeup, Above
    <3> QED
      BY <3>1, <3>2, StreamsKept
  <2> QED
    BY <2>1, <2>2, <2>3, <2>4, <2>5 DEF Next
<1> QED
  BY <1>0, <1>1, <1>2, <1>3, ClientKept

-----------------------------------------------------------------------------
\* The invariant holds throughout.
THEOREM Invariance == Spec => []IInv
<1>1. IInv /\ [Next]_vars => IInv'
  BY NextInv
<1> QED
  BY InitInv, <1>1, PTL DEF Spec

\* The variables keep their types, and the loop stays within the watches.
THEOREM TypeCorrect == Spec => []TypeOK
<1>1. IInv => TypeOK
  BY DEF IInv
<1> QED
  BY <1>1, Invariance, PTL

\* A connected client has every change up to the stream's cursor, unless a commit was
\* overtaken or it came back before it had seen the tail.
THEOREM MissesNothing == Spec => []NothingMissed
BY InvMissesNothing, Invariance, PTL

\* A parked watch that rows are waiting for has its wake-up on the way, unless a
\* notification was lost.
THEOREM WakesUp == Spec => []NoLostWakeup
<1>1. IInv => NoLostWakeup
  BY DEF IInv
<1> QED
  BY <1>1, Invariance, PTL

\* When the tail event reaches the client, its copy is the table.
THEOREM TailTellsTheTruth == Spec => TailIsCurrent
<1>1. IInv /\ [Next]_vars =>
        [\A w \in Watches :
           client'[w].atTail /\ ~ client[w].atTail /\ ~ overtaken[w] /\ ~ resumed[w] =>
             \A id \in Ids : Agrees(w, id)]_vars
  BY NextInv DEF TailTrue
<1> QED
  BY <1>1, Invariance, PTL DEF Spec, TailIsCurrent

\* Events reach the client in the order of their revisions.
THEOREM InRevisionOrder == Spec => EventsInOrder
<1>1. IInv /\ [Next]_vars =>
        [\A w \in Watches :
           /\ client'[w].gt >= client[w].gt
           /\ client'[w].view # client[w].view => client'[w].gt > client[w].gt]_vars
  BY NextInv DEF InOrder
<1> QED
  BY <1>1, Invariance, PTL DEF Spec, EventsInOrder
==============================================================================
