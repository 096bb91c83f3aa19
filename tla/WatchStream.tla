----------------------------- MODULE WatchStream -----------------------------
(***************************************************************************)
(* The watch pipeline: a handler writes a row (a trigger stamps it with    *)
(* the next value of its table's revision sequence), commits, and notifies *)
(* the row's signal through pg_notify; the listener of the API process     *)
(* passes the notification to the signal bus; sendMultiWatch, parked on    *)
(* its subscriptions, wakes, fetches the rows above its cursor and streams *)
(* them to the client, which keeps a copy and may come back with its       *)
(* cursor after the connection broke.                                      *)
(*   internal/handlers/events.go, internal/signalbus/pg_signalbus.go,      *)
(*   internal/database/migration_20231031_0000/migration.go                *)
(***************************************************************************)
EXTENDS Naturals, FiniteSets

CONSTANTS NumWatches, \* the watches of the request, each on a table of its own
          Ids,        \* the ids of the rows
          Limit,      \* rows per fetch (100 in the code)
          MaxWrites,  \* bound: transactions, over all tables
          MaxFaults,  \* bound: lost notifications and listener failures
          MaxConns    \* bound: connections the client opens

ASSUME ConstantsAssumption ==
  NumWatches \in Nat \ {0} /\ Limit \in Nat \ {0} /\ {MaxWrites, MaxFaults, MaxConns} \subseteq Nat

Watches == 1 .. NumWatches

VARIABLES rows,       \* rows[w][id]: the committed row, NoRow if there is none
          seq,        \* seq[w]: the last revision drawn from the table's sequence
          open,       \* open[w][id]: the version an open transaction has written
          unnotified, \* unnotified[w]: commits whose handler has yet to notify
          queued,     \* the signals in pg_notify's queue for this process
          listener,   \* the LISTEN connection of the process
          token,      \* token[w]: the channel of the watch's subscription is full
          pc,         \* the loop of sendMultiWatch's nextEvent
          watch,      \* watch[w]: its watchState
          cancelled,  \* the request's context is done: the client has gone
          client,     \* client[w]: the client's cursor, tail flag and copy of the rows
          faults, conns,
          lost,       \* history, lost[w]: a commit's notification was lost
          overtaken,  \* history, overtaken[w]: a commit came after a higher revision's
          resumed     \* history, resumed[w]: the client resumed before it saw the tail

dbVars == <<rows, seq, open>>
busVars == <<unnotified, queued, listener, faults, lost>>
clientVars == <<client, cancelled, conns, resumed>>
vars == <<rows, seq, open, unnotified, queued, listener, token, pc, watch,
          cancelled, client, faults, conns, lost, overtaken, resumed>>

NoRow == [rev |-> 0, del |-> FALSE]
Row == [rev : Nat, del : BOOLEAN]
Item == [id : Ids, rev : Nat, del : BOOLEAN]

Scanning(i, parked) == [at |-> "scan", i |-> i, parked |-> parked]
At(label) == [at |-> label, i |-> 1, parked |-> 0]
IdleWatch == [parked |-> FALSE, atTail |-> FALSE, gt |-> 0, list |-> {}, ids |-> {}]

\* The rows of w's table above revision gt, and the first Limit of them (the last
\* Limit, in a variant that forgets the order).
Above(w, gt) == {[id |-> id, rev |-> rows[w][id].rev, del |-> rows[w][id].del] :
                   id \in {j \in Ids : rows[w][j].rev > gt}}
BatchLatest(w, gt) == {x \in Above(w, gt) : Cardinality({y \in Above(w, gt) : y.rev > x.rev}) < Limit}
Batch(w, gt) == {x \in Above(w, gt) : Cardinality({y \in Above(w, gt) : y.rev < x.rev}) < Limit}

\* The number of transactions begun.
Writes == LET sum[i \in 0 .. NumWatches] == IF i = 0 THEN 0 ELSE sum[i - 1] + seq[i]
          IN sum[NumWatches]

-----------------------------------------------------------------------------
Init ==
  /\ rows = [w \in Watches |-> [id \in Ids |-> NoRow]]
  /\ seq = [w \in Watches |-> 0]
  /\ open = [w \in Watches |-> [id \in Ids |-> NoRow]]
  /\ unnotified = [w \in Watches |-> 0]
  /\ queued = {}
  /\ listener = "starting"
  /\ token = [w \in Watches |-> FALSE]
  /\ pc = At("closed")
  /\ watch = [w \in Watches |-> IdleWatch]
  /\ cancelled = FALSE
  /\ client = [w \in Watches |-> [gt |-> 0, atTail |-> FALSE, view |-> [id \in Ids |-> 0]]]
  /\ faults = 0 /\ conns = 0
  /\ lost = [w \in Watches |-> FALSE]
  /\ overtaken = [w \in Watches |-> FALSE]
  /\ resumed = [w \in Watches |-> FALSE]

(***************************************************************************)
(* The handlers that write.                                                *)
(***************************************************************************)
\* INSERT or UPDATE: the trigger draws the revision, the row stays locked until
\* the transaction ends.  A delete sets deleted_at on a row that is not deleted.
Write(w, id, del) ==
  /\ Writes < MaxWrites
  /\ open[w][id] = NoRow
  /\ del => rows[w][id] # NoRow /\ ~ rows[w][id].del
  /\ seq' = [seq EXCEPT ![w] = @ + 1]
  /\ open' = [open EXCEPT ![w][id] = [rev |-> seq[w] + 1, del |-> del]]
  /\ UNCHANGED <<rows, token, pc, watch, overtaken>> /\ UNCHANGED busVars /\ UNCHANGED clientVars

Commit(w, id) ==
  /\ open[w][id] # NoRow
  /\ rows' = [rows EXCEPT ![w][id] = open[w][id]]
  /\ open' = [open EXCEPT ![w][id] = NoRow]
  /\ unnotified' = [unnotified EXCEPT ![w] = @ + 1]
  /\ overtaken' = [overtaken EXCEPT ![w] = @ \/ \E j \in Ids : rows[w][j].rev > open[w][id].rev]
  /\ UNCHANGED <<seq, queued, listener, faults, lost, token, pc, watch>> /\ UNCHANGED clientVars

\* A rolled back transaction leaves a gap in the revisions.
Rollback(w, id) ==
  /\ open[w][id] # NoRow
  /\ open' = [open EXCEPT ![w][id] = NoRow]
  /\ UNCHANGED <<rows, seq, token, pc, watch, overtaken>> /\ UNCHANGED busVars /\ UNCHANGED clientVars

\* signalBus.Notify after the commit.  The payload is queued for the processes
\* that listen; one that has not issued its first LISTEN never gets it.
Notify(w) ==
  /\ unnotified[w] > 0
  /\ unnotified' = [unnotified EXCEPT ![w] = @ - 1]
  /\ queued' = IF listener = "up" THEN queued \cup {w} ELSE queued
  /\ lost' = [lost EXCEPT ![w] = @ \/ listener = "starting"]
  /\ UNCHANGED <<listener, faults, token, pc, watch, overtaken>>
  /\ UNCHANGED dbVars /\ UNCHANGED clientVars

\* pg_notify fails (the error is only logged), the process stops between commit
\* and Notify, or the handler (DeleteVPC) does not notify at all.
NotifyLost(w) ==
  /\ unnotified[w] > 0 /\ faults < MaxFaults
  /\ faults' = faults + 1
  /\ unnotified' = [unnotified EXCEPT ![w] = @ - 1]
  /\ lost' = [lost EXCEPT ![w] = TRUE]
  /\ UNCHANGED <<queued, listener, token, pc, watch, overtaken>>
  /\ UNCHANGED dbVars /\ UNCHANGED clientVars

(***************************************************************************)
(* The listener of the API process.                                        *)
(***************************************************************************)
Subscribed == pc.at \in {"scan", "wait"}

\* Were the subscription's channel unbuffered, a send would need a receiver.
DeliverUnbuffered(w) ==
  /\ w \in queued
  /\ queued' = queued \ {w}
  /\ token' = [token EXCEPT ![w] = @ \/ pc.at = "wait"]
  /\ lost' = [lost EXCEPT ![w] = FALSE]
  /\ UNCHANGED <<unnotified, listener, faults, pc, watch, overtaken>>
  /\ UNCHANGED dbVars /\ UNCHANGED clientVars

\* The in-memory bus sends to the subscriptions of signal w.
Deliver(w) ==
  /\ w \in queued
  /\ queued' = queued \ {w}
  /\ token' = [token EXCEPT ![w] = Subscribed]
  /\ lost' = [lost EXCEPT ![w] = FALSE]
  /\ UNCHANGED <<unnotified, listener, faults, pc, watch, overtaken>>
  /\ UNCHANGED dbVars /\ UNCHANGED clientVars

\* The connection breaks: what it had queued is gone.
ListenerFails ==
  /\ listener = "up" /\ faults < MaxFaults
  /\ faults' = faults + 1
  /\ listener' = "down"
  /\ queued' = {}
  /\ UNCHANGED <<unnotified, lost, token, pc, watch, overtaken>>
  /\ UNCHANGED dbVars /\ UNCHANGED clientVars

\* A listener that only listens again after a failure.
ListenerConnectsQuietly ==
  /\ listener # "up"
  /\ listener' = "up"
  /\ UNCHANGED <<token, lost, unnotified, queued, faults, pc, watch, overtaken>>
  /\ UNCHANGED dbVars /\ UNCHANGED clientVars

\* LISTEN succeeds.  On a reconnection, not on the first connection, NotifyAll
\* makes up for what may have been missed.
ListenerConnects ==
  /\ listener # "up"
  /\ listener' = "up"
  /\ IF listener = "down"
     THEN /\ token' = [w \in Watches |-> Subscribed]
          /\ lost' = [w \in Watches |-> FALSE]
     ELSE UNCHANGED <<token, lost>>
  /\ UNCHANGED <<unnotified, queued, faults, pc, watch, overtaken>>
  /\ UNCHANGED dbVars /\ UNCHANGED clientVars

(***************************************************************************)
(* The client's connection.                                                *)
(***************************************************************************)
\* The watchState of a request with the client's cursor (without its gt_revision).
ResumeFromStart(w) == [IdleWatch EXCEPT !.atTail = client[w].atTail]
Resume(w) == [IdleWatch EXCEPT !.gt = client[w].gt, !.atTail = client[w].atTail]

\* A request with the client's cursors: sendMultiWatch subscribes to every
\* signal before it fetches anything.
Connect ==
  /\ pc.at = "closed" /\ conns < MaxConns
  /\ conns' = conns + 1
  /\ pc' = Scanning(1, 0)
  /\ token' = [w \in Watches |-> FALSE]
  /\ watch' = [w \in Watches |-> Resume(w)]
  /\ cancelled' = FALSE
  /\ resumed' = [w \in Watches |-> resumed[w] \/ (client[w].gt # 0 /\ ~ client[w].atTail)]
  /\ UNCHANGED <<client, overtaken>> /\ UNCHANGED dbVars /\ UNCHANGED busVars

\* The connection breaks: the request's context is cancelled.
Cancel ==
  /\ Subscribed /\ ~ cancelled
  /\ cancelled' = TRUE
  /\ UNCHANGED <<client, conns, resumed, token, pc, watch, overtaken>>
  /\ UNCHANGED dbVars /\ UNCHANGED busVars

(***************************************************************************)
(* sendMultiWatch.  Each step is one iteration of the for-range loop over  *)
(* the states; an event makes nextEvent return and start over.             *)
(***************************************************************************)
\* The loop with an off-by-one at its end.
AdvancePastEnd(parked) ==
  LET n == IF parked THEN pc.parked + 1 ELSE pc.parked
  IN pc' = IF pc.i <= NumWatches THEN Scanning(pc.i + 1, n)
           ELSE IF n = NumWatches THEN At("wait") ELSE Scanning(1, 0)

\* The next iteration; after the last, wait if every watch was found parked.
Advance(parked) ==
  LET n == IF parked THEN pc.parked + 1 ELSE pc.parked
  IN pc' = IF pc.i < NumWatches THEN Scanning(pc.i + 1, n)
           ELSE IF n = NumWatches THEN At("wait") ELSE Scanning(1, 0)

\* nextEvent returns an event for watch w; a client that has gone misses it.
Event(w, gt, atTail, view) ==
  /\ pc' = Scanning(1, 0)
  /\ client' = IF cancelled THEN client
               ELSE [client EXCEPT ![w] = [gt |-> gt, atTail |-> atTail, view |-> view]]

\* nextEvent returns "close" or "error": the stream ends and the deferred
\* function closes the subscriptions.  (An error of the third or a later watch
\* ends it by a panic: slices.Delete(states, i, 1) needs i <= 1.)
End ==
  /\ pc' = At("closed")
  /\ token' = [w \in Watches |-> FALSE]
  /\ watch' = [w \in Watches |-> IdleWatch]

\* A parked watch has been signalled while the others were served.
Unpark(w) ==
  /\ pc.at = "scan" /\ pc.i = w /\ watch[w].parked /\ token[w]
  /\ token' = [token EXCEPT ![w] = FALSE]
  /\ watch' = [watch EXCEPT ![w].parked = FALSE]
  /\ Advance(FALSE)
  /\ UNCHANGED overtaken /\ UNCHANGED dbVars /\ UNCHANGED busVars /\ UNCHANGED clientVars

StayParked(w) ==
  /\ pc.at = "scan" /\ pc.i = w /\ watch[w].parked /\ ~ token[w] /\ ~ cancelled
  /\ Advance(TRUE)
  /\ UNCHANGED <<token, watch, overtaken>>
  /\ UNCHANGED dbVars /\ UNCHANGED busVars /\ UNCHANGED clientVars

\* The item of the fetched list that is next.
NextItem(w) == CHOOSE x \in watch[w].list : \A y \in watch[w].list : x.rev <= y.rev

Sending(w, x) == pc.at = "scan" /\ pc.i = w /\ ~ watch[w].parked /\ watch[w].list # {}
                 /\ x = NextItem(w)

\* Before the tail, skip every delete.
SkippedAlways(w, x) == x.del /\ ~ watch[w].atTail

\* A deleted row whose id this stream never sent is skipped, before the tail.
Skipped(w, x) == x.del /\ ~ watch[w].atTail /\ x.id \notin watch[w].ids

SkipDelete(w) ==
  \E x \in watch[w].list :
    /\ Sending(w, x) /\ Skipped(w, x)
    /\ watch' = [watch EXCEPT ![w].gt = x.rev, ![w].list = @ \ {x}]
    /\ Advance(FALSE)
    /\ UNCHANGED <<token, overtaken>>
    /\ UNCHANGED dbVars /\ UNCHANGED busVars /\ UNCHANGED clientVars

\* A "change" or "delete" event.
SendItem(w) ==
  \E x \in watch[w].list :
    /\ Sending(w, x) /\ ~ Skipped(w, x)
    /\ watch' = [watch EXCEPT ![w].gt = x.rev, ![w].list = @ \ {x},
                  ![w].ids = IF x.del \/ watch[w].atTail THEN @ ELSE @ \cup {x.id}]
    /\ Event(w, x.rev, client[w].atTail,
             [client[w].view EXCEPT ![x.id] = IF x.del THEN 0 ELSE x.rev])
    /\ UNCHANGED <<token, overtaken, cancelled, conns, resumed>>
    /\ UNCHANGED dbVars /\ UNCHANGED busVars

Fetching(w) == pc.at = "scan" /\ pc.i = w /\ ~ watch[w].parked /\ watch[w].list = {}

FetchItems(w) ==
  /\ Fetching(w) /\ Batch(w, watch[w].gt) # {}
  /\ watch' = [watch EXCEPT ![w].list = Batch(w, watch[w].gt)]
  /\ Advance(FALSE)
  /\ UNCHANGED <<token, overtaken>>
  /\ UNCHANGED dbVars /\ UNCHANGED busVars /\ UNCHANGED clientVars

\* The first empty fetch sends the "tail" event.
FetchTail(w) ==
  /\ Fetching(w) /\ Batch(w, watch[w].gt) = {} /\ ~ watch[w].atTail
  /\ watch' = [watch EXCEPT ![w].atTail = TRUE, ![w].ids = {}]
  /\ Event(w, client[w].gt, TRUE, client[w].view)
  /\ UNCHANGED <<token, overtaken, cancelled, conns, resumed>>
  /\ UNCHANGED dbVars /\ UNCHANGED busVars

\* Later ones park the watch.
Park(w) ==
  /\ Fetching(w) /\ Batch(w, watch[w].gt) = {} /\ watch[w].atTail
  /\ watch' = [watch EXCEPT ![w].parked = TRUE]
  /\ lost' = [lost EXCEPT ![w] = FALSE]
  /\ Advance(TRUE)
  /\ UNCHANGED <<token, overtaken, unnotified, queued, listener, faults>>
  /\ UNCHANGED dbVars /\ UNCHANGED clientVars

\* The transaction of the fetch fails, as it does once the context is done.
FetchFails(w) ==
  /\ Fetching(w)
  /\ End
  /\ UNCHANGED overtaken /\ UNCHANGED dbVars /\ UNCHANGED busVars /\ UNCHANGED clientVars

\* Every watch is parked: wait for a signal, the 30 s timeout, which unparks
\* none of them, or the end of the request.
WaitNotified(w) ==
  /\ pc.at = "wait" /\ token[w]
  /\ token' = [token EXCEPT ![w] = FALSE]
  /\ watch' = [watch EXCEPT ![w].parked = FALSE]
  /\ pc' = Scanning(1, 0)
  /\ UNCHANGED overtaken /\ UNCHANGED dbVars /\ UNCHANGED busVars /\ UNCHANGED clientVars

WaitTimeout ==
  /\ pc.at = "wait"
  /\ pc' = Scanning(1, 0)
  /\ UNCHANGED <<token, watch, overtaken>>
  /\ UNCHANGED dbVars /\ UNCHANGED busVars /\ UNCHANGED clientVars

SeesCancel ==
  /\ cancelled
  /\ pc.at = "wait" \/ (pc.at = "scan" /\ watch[pc.i].parked)
  /\ End
  /\ UNCHANGED overtaken /\ UNCHANGED dbVars /\ UNCHANGED busVars /\ UNCHANGED clientVars

-----------------------------------------------------------------------------
ServeWatch(w) ==
  \/ Unpark(w) \/ StayParked(w) \/ SkipDelete(w) \/ SendItem(w)
  \/ FetchItems(w) \/ FetchTail(w) \/ Park(w) \/ FetchFails(w) \/ WaitNotified(w)

SendMultiWatch == (\E w \in Watches : ServeWatch(w)) \/ WaitTimeout \/ SeesCancel

Handlers ==
  \E w \in Watches :
    \/ \E id \in Ids : (\E del \in BOOLEAN : Write(w, id, del)) \/ Commit(w, id) \/ Rollback(w, id)
    \/ Notify(w) \/ NotifyLost(w)

Listener == (\E w \in Watches : Deliver(w)) \/ ListenerFails \/ ListenerConnects

Next == Handlers \/ Listener \/ Connect \/ Cancel \/ SendMultiWatch

Spec == Init /\ [][Next]_vars

\* A running request keeps going, a handler that has committed gets to its
\* Notify (or fails to), and the process's listener keeps receiving and
\* reconnecting (pq.NewListener retries every 10 s to 1 min).  Nothing makes a
\* client connect, a transaction commit or a fault happen.
Fairness ==
  /\ WF_vars(SendMultiWatch)
  /\ \A w \in Watches : WF_vars(Notify(w)) /\ WF_vars(Deliver(w))
  /\ WF_vars(ListenerConnects)

FairSpec == Spec /\ Fairness

-----------------------------------------------------------------------------
(* Properties.                                                             *)

\* Every variable has its type, the loop stays within the watches, and what a
\* watch has yet to send lies above its cursor.
TypeOK ==
  /\ rows \in [Watches -> [Ids -> Row]] /\ open \in [Watches -> [Ids -> Row]]
  /\ seq \in [Watches -> Nat] /\ unnotified \in [Watches -> Nat]
  /\ queued \subseteq Watches /\ listener \in {"starting", "up", "down"}
  /\ token \in [Watches -> BOOLEAN]
  /\ pc \in [at : {"closed", "scan", "wait"}, i : Watches, parked : 0 .. NumWatches]
  /\ watch \in [Watches -> [parked : BOOLEAN, atTail : BOOLEAN, gt : Nat,
                            list : SUBSET Item, ids : SUBSET Ids]]
  /\ \A w \in Watches : \A x \in watch[w].list : x.rev > watch[w].gt
  /\ client \in [Watches -> [gt : Nat, atTail : BOOLEAN, view : [Ids -> Nat]]]
  /\ cancelled \in BOOLEAN /\ faults \in Nat /\ conns \in Nat
  /\ lost \in [Watches -> BOOLEAN] /\ overtaken \in [Watches -> BOOLEAN]
  /\ resumed \in [Watches -> BOOLEAN]

\* A parked watch that a committed row is waiting for will be woken: its signal is
\* in its channel, in the queue, still to be sent, or made up for when the
\* listener reconnects - unless the notification of a commit was lost.
NoLostWakeup ==
  \A w \in Watches :
    watch[w].parked /\ Above(w, watch[w].gt) # {} /\ ~ lost[w] =>
      token[w] \/ w \in queued \/ unnotified[w] > 0 \/ listener = "down"

\* The client's copy agrees with the table, for row id of watch w.
Agrees(w, id) ==
  client[w].view[id] = IF rows[w][id].del THEN 0 ELSE rows[w][id].rev

\* A connected client has everything at or below the stream's cursor: no change
\* and no delete is skipped, whatever is written between the fetches - when
\* transactions commit in the order of their revisions, and the client did not
\* come back with a cursor before it had seen the tail.
NothingMissed ==
  \A w \in Watches :
    Subscribed /\ ~ cancelled /\ ~ overtaken[w] /\ ~ resumed[w] =>
      \A id \in Ids : rows[w][id].rev <= watch[w].gt => Agrees(w, id)

\* The tail event says that the client has the current state: its copy is the
\* table as the last fetch saw it (under the same two conditions).
TailIsCurrent ==
  [][\A w \in Watches :
       client'[w].atTail /\ ~ client[w].atTail /\ ~ overtaken[w] /\ ~ resumed[w] =>
         \A id \in Ids : Agrees(w, id)]_vars

\* Events reach the client in the order of their revisions, across reconnections
\* too: its cursor never goes back and every change of its copy moves it.
EventsInOrder ==
  [][\A w \in Watches :
       /\ client'[w].gt >= client[w].gt
       /\ client'[w].view # client[w].view => client'[w].gt > client[w].gt]_vars

\* A committed change reaches a client that stays connected, whichever watches
\* are parked and even if the listener has to reconnect in between.
EventuallyDelivered ==
  \A w \in Watches :
    (\E id \in Ids : ~ Agrees(w, id)) /\ Subscribed ~>
      \/ \A id \in Ids : Agrees(w, id)
      \/ ~ Subscribed \/ cancelled
      \/ lost[w] \/ overtaken[w] \/ resumed[w]

\* What watch-api.md:34 promises: a client fetches the current state and then
\* follows the changes "without missing any events".  Not so when a transaction
\* commits after one that drew a higher revision, nor (:36, "a client can start a
\* new watch from the last returned revision") when a stream broke before its tail.
NoEventMissed ==
  \A w \in Watches :
    Subscribed /\ ~ cancelled =>
      \A id \in Ids : rows[w][id].rev <= watch[w].gt => Agrees(w, id)
==============================================================================
