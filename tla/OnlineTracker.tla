---------------------------- MODULE OnlineTracker ----------------------------
(***************************************************************************)
(* The online tracker of internal/handlers/online_tracker.go, for one      *)
(* agent (a device or a site): the replicas of the API server count the    *)
(* agent's event streams, announce in Redis that they have some, and keep  *)
(* the online column of its row.  A stream that ends leaves a timer, which *)
(* writes the agent off unless some replica still announces it.  Redis     *)
(* takes the commands of a replica some time after they were sent, and an  *)
(* update of the agent's row saves the column as it read it.               *)
(***************************************************************************)
EXTENDS Naturals, Sequences, FiniteSets

CONSTANTS Streams,  \* a request of the agent, and after it the timer it left
          Replicas,
          MaxFaults, \* bound: failed calls, lost Redis connections, crashes
          MaxWire    \* bound: commands of a replica that Redis has yet to take

ASSUME ConstantsAssumption ==
  MaxFaults \in Nat /\ MaxWire \in Nat /\ Replicas # {} /\ IsFiniteSet(Streams)

VARIABLES online,     \* the column of the agent's row
          count,      \* count[p]: localAgents[agent] of replica p; 0: no key
          drafts,     \* the values of online that updates have read
          subscribed, \* Redis: the replicas subscribed to the agent's channel
          wire,       \* wire[p]: the commands of replica p that Redis has yet to take
          stream,     \* stream[s]: the replica that serves s, where Connected is, and
                      \* the online column as it read it
          faults,
          stale,      \* history: online is what an update put back
          crossed,    \* history: a stream was between its read of the row and its
                      \* subscription's taking effect, or began, while a timer was
                      \* writing the agent off
          lateOn,     \* history: a fault may have left a connected agent offline
          lateOff     \* history: a fault may have left an agent that has gone online

redis == <<subscribed, wire>>
vars == <<online, count, drafts, redis, stream, faults, stale, crossed, lateOn, lateOff>>

Closed == [at |-> "closed", on |-> CHOOSE p \in Replicas : TRUE, wasOnline |-> FALSE]

At(s, label) == stream[s].at = label
Goto(s, label) == stream' = [stream EXCEPT ![s] = IF label = "closed" THEN Closed
                                                  ELSE [@ EXCEPT !.at = label]]
Fault == faults < MaxFaults /\ faults' = faults + 1

\* Subscribe and Unsubscribe of the client library write a command and return: they do
\* not wait for Redis to take it.
Command == [do : {"subscribe", "unsubscribe"}, by : Streams]
Send(p, what, s) ==
  /\ Len(wire[p]) < MaxWire
  /\ wire' = [wire EXCEPT ![p] = Append(@, [do |-> what, by |-> s])]
  /\ UNCHANGED subscribed

\* The connection of a replica is lost, and what it has sent.
Disconnect(p) ==
  /\ wire' = [wire EXCEPT ![p] = <<>>]
  /\ subscribed' = subscribed \ {p}

-----------------------------------------------------------------------------
Init ==
  /\ online = FALSE
  /\ count = [p \in Replicas |-> 0] /\ drafts = {}
  /\ subscribed = {} /\ wire = [p \in Replicas |-> <<>>]
  /\ stream = [s \in Streams |-> Closed]
  /\ faults = 0 /\ stale = FALSE /\ crossed = FALSE /\ lateOn = FALSE /\ lateOff = FALSE

\* UpdateDevice, UpdateSite: the row is read at the start, and saved in the end with
\* every column as it was read: the online column too.  (On PostgreSQL, read committed.
\* Of those that have read a value there may always be one more that has yet to save it.)
UpdateRead ==
  /\ drafts' = drafts \cup {online}
  /\ UNCHANGED <<online, count, redis, stream, faults, stale, crossed, lateOn, lateOff>>

UpdateSave ==
  /\ \E v \in drafts : online' = v /\ stale' = (stale \/ v # online)
  /\ UNCHANGED <<count, drafts, redis, stream, faults, crossed, lateOn, lateOff>>

\* Connected, up to its read of the row.  (When that fails the stream is not tracked.)
Connect(s, p) ==
  /\ At(s, "closed")
  /\ stream' = [stream EXCEPT ![s] = [at |-> "read", on |-> p, wasOnline |-> online]]
  /\ crossed' = (crossed \/ \E t \in Streams : At(t, "writeOff"))
  /\ UNCHANGED <<online, count, drafts, redis, faults, stale, lateOn, lateOff>>

ReadFails(s, p) ==
  /\ At(s, "closed") /\ Fault
  /\ stream' = [stream EXCEPT ![s] = [at |-> "untracked", on |-> p, wasOnline |-> FALSE]]
  /\ UNCHANGED <<online, count, drafts, redis, stale, crossed, lateOn, lateOff>>

\* connected, under the lock: the first stream of a replica subscribes.
Track(s) ==
  LET p == stream[s].on IN
  /\ At(s, "read")
  /\ count' = [count EXCEPT ![p] = @ + 1]
  /\ \/ count[p] = 0 /\ Send(p, "subscribe", s)
     \/ count[p] # 0 /\ UNCHANGED redis
  /\ Goto(s, IF stream[s].wasOnline THEN "serving" ELSE "mark")
  /\ UNCHANGED <<online, drafts, faults, stale, crossed, lateOn, lateOff>>

\* The call to subscribe fails: the stream is served untracked, but the replica counts
\* it for good.
TrackFails(s) ==
  LET p == stream[s].on IN
  /\ At(s, "read") /\ count[p] = 0 /\ Fault
  /\ count' = [count EXCEPT ![p] = 1]
  /\ Disconnect(p)
  /\ Goto(s, "untracked")
  /\ lateOn' = TRUE /\ lateOff' = TRUE
  /\ UNCHANGED <<online, drafts, stale, crossed>>

\* Unless it was online when the row was read, the agent is marked online.  (When
\* that fails fn runs, and runs again: one stream after the other.)
MarkOnline(s) ==
  /\ At(s, "mark")
  /\ \/ online' = TRUE /\ stale' = FALSE /\ UNCHANGED <<faults, lateOn>>
     \/ Fault /\ lateOn' = TRUE /\ UNCHANGED <<online, stale>>
  /\ Goto(s, "serving")
  /\ UNCHANGED <<count, drafts, redis, crossed, lateOff>>

\* The stream ends.  disconnected, under the lock: the last stream of a replica
\* unsubscribes; then the timer starts.  (Variants: the subscription stays; any
\* stream forgets the count.)
UntrackKeeps(s) ==
  LET p == stream[s].on IN
  /\ At(s, "serving")
  /\ count' = [count EXCEPT ![p] = IF @ > 0 THEN @ - 1 ELSE 0]
  /\ Goto(s, "grace")
  /\ UNCHANGED <<online, drafts, redis, faults, stale, crossed, lateOn, lateOff>>

UntrackAll(s) ==
  LET p == stream[s].on IN
  /\ At(s, "serving")
  /\ count' = [count EXCEPT ![p] = 0]
  /\ Send(p, "unsubscribe", s)
  /\ Goto(s, "grace")
  /\ UNCHANGED <<online, drafts, faults, stale, crossed, lateOn, lateOff>>

Untrack(s) ==
  LET p == stream[s].on IN
  /\ At(s, "serving")
  /\ count' = [count EXCEPT ![p] = IF @ > 0 THEN @ - 1 ELSE 0]
  /\ \/ count[p] = 1 /\ Send(p, "unsubscribe", s)
     \/ count[p] # 1 /\ UNCHANGED redis
  /\ Goto(s, "grace")
  /\ UNCHANGED <<online, drafts, faults, stale, crossed, lateOn, lateOff>>

\* The call to unsubscribe fails: no timer starts.
UntrackFails(s) ==
  LET p == stream[s].on IN
  /\ At(s, "serving") /\ count[p] = 1 /\ Fault
  /\ count' = [count EXCEPT ![p] = 0]
  /\ Disconnect(p)
  /\ Goto(s, "closed")
  /\ lateOff' = TRUE
  /\ UNCHANGED <<online, drafts, stale, crossed, lateOn>>

UntrackedEnds(s) ==
  /\ At(s, "untracked")
  /\ Goto(s, "closed")
  /\ UNCHANGED <<online, count, drafts, redis, faults, stale, crossed, lateOn, lateOff>>

\* The grace period is over: isConnected asks Redis whether any replica has the agent.
\* (A variant asks the replica's own count.)
IsConnectedHere(s) == count[stream[s].on] # 0
IsConnected(s) == subscribed # {}

\* A stream that relies on the row, or will, and that Redis does not know of yet.
Unheard(t) ==
  \/ At(t, "read")
  \/ stream[t].at \in {"mark", "serving"} /\ wire[stream[t].on] # <<>>

\* Redis, for longer than the grace period, has not taken the command with which stream
\* s ended: what it answers of the replica of s is of before.
Overtaken(s) ==
  \E i \in DOMAIN wire[stream[s].on] : wire[stream[s].on][i] = [do |-> "unsubscribe", by |-> s]

CheckOnline(s) ==
  /\ At(s, "grace")
  /\ \/ /\ Goto(s, IF IsConnected(s) THEN "closed" ELSE "writeOff")
        /\ crossed' = (crossed \/ (~ IsConnected(s) /\ \E t \in Streams : Unheard(t)))
        /\ lateOff' = (lateOff \/ Overtaken(s))
        /\ UNCHANGED faults
     \/ Fault /\ Goto(s, "closed") /\ lateOff' = TRUE /\ UNCHANGED crossed
  /\ UNCHANGED <<online, count, drafts, redis, stale, lateOn>>

\* The row is written, where it is online.
MarkOffline(s) ==
  /\ At(s, "writeOff")
  /\ \/ online' = FALSE /\ stale' = FALSE /\ UNCHANGED <<faults, lateOff>>
     \/ Fault /\ lateOff' = TRUE /\ UNCHANGED <<online, stale>>
  /\ Goto(s, "closed")
  /\ UNCHANGED <<count, drafts, redis, crossed, lateOn>>

\* Redis takes the next command of replica p.
RedisTakes(p) ==
  /\ wire[p] # <<>>
  /\ subscribed' = IF Head(wire[p]).do = "subscribe" THEN subscribed \cup {p}
                                                    ELSE subscribed \ {p}
  /\ wire' = [wire EXCEPT ![p] = Tail(@)]
  /\ UNCHANGED <<online, count, drafts, stream, faults, stale, crossed, lateOn, lateOff>>

\* The replica's Redis connection is lost, and with it its subscription; the client
\* library subscribes again with the next call that needs the connection.
RedisDrops(p) ==
  /\ p \in subscribed \/ wire[p] # <<>>
  /\ Fault /\ Disconnect(p)
  /\ lateOn' = TRUE
  /\ UNCHANGED <<online, count, drafts, stream, stale, crossed, lateOff>>

Resubscribe(p) ==
  /\ count[p] # 0 /\ p \notin subscribed /\ wire[p] = <<>>
  /\ subscribed' = subscribed \cup {p}
  /\ UNCHANGED <<online, count, drafts, wire, stream, faults, stale, crossed, lateOn, lateOff>>

\* The replica restarts: its streams end and its timers are forgotten.
Crash(p) ==
  /\ Fault
  /\ stream' = [s \in Streams |-> IF stream[s].on = p THEN Closed ELSE stream[s]]
  /\ count' = [count EXCEPT ![p] = 0]
  /\ Disconnect(p)
  /\ lateOff' = TRUE
  /\ UNCHANGED <<online, drafts, stale, crossed, lateOn>>

-----------------------------------------------------------------------------
Timer(s) == CheckOnline(s) \/ MarkOffline(s)

Serve(s) ==
  \/ \E p \in Replicas : Connect(s, p) \/ ReadFails(s, p)
  \/ Track(s) \/ TrackFails(s) \/ MarkOnline(s)
  \/ Untrack(s) \/ UntrackFails(s) \/ UntrackedEnds(s)

Next ==
  \/ \E s \in Streams : Serve(s) \/ Timer(s)
  \/ \E p \in Replicas : RedisTakes(p) \/ RedisDrops(p) \/ Resubscribe(p) \/ Crash(p)
  \/ UpdateRead \/ UpdateSave

Spec == Init /\ [][Next]_vars

\* A timer that runs goes off, and does what it has to do; so does a handler once
\* it has read the row, and Redis takes what it was sent.  Nothing makes an agent
\* connect or go, or be updated.
FairSpec ==
  /\ Spec
  /\ \A s \in Streams : WF_vars(Timer(s)) /\ WF_vars(Track(s)) /\ WF_vars(MarkOnline(s))
  /\ \A p \in Replicas : WF_vars(RedisTakes(p))

-----------------------------------------------------------------------------
(* Properties.                                                             *)

Tracked(p) == {s \in Streams : stream[s].on = p /\ stream[s].at \in {"mark", "serving"}}
Gone == \A s \in Streams : stream[s].at \in {"closed", "grace", "writeOff"}

\* What a replica has told Redis last: that it has streams of the agent.
Announces(p) ==
  IF wire[p] = <<>> THEN p \in subscribed ELSE wire[p][Len(wire[p])].do = "subscribe"

\* Every variable has its type; a replica announces the agent only while it counts
\* streams of it, unless a fault made it miss the end of one.
TypeOK ==
  /\ online \in BOOLEAN /\ count \in [Replicas -> Nat] /\ drafts \subseteq BOOLEAN
  /\ subscribed \subseteq Replicas /\ wire \in [Replicas -> Seq(Command)]
  /\ lateOff \/ \A p \in Replicas : Announces(p) => count[p] # 0
  /\ stream \in [Streams -> [at : {"closed", "read", "mark", "serving", "untracked",
                                   "grace", "writeOff"},
                             on : Replicas, wasOnline : BOOLEAN]]
  /\ faults \in 0 .. MaxFaults /\ {stale, crossed, lateOn, lateOff} \subseteq BOOLEAN

\* A replica never counts fewer streams than it tracks, whatever fails: so it does
\* not unsubscribe while it serves one.
CountsItsStreams == \A p \in Replicas : count[p] >= Cardinality(Tracked(p))

\* An agent with a tracked stream that is past marking it is online: streams may
\* come and go on several replicas, within their grace periods or not, Redis may be
\* slow to take what it is sent, and replicas may crash - unless a new stream crossed
\* a timer's write-off, a call failed that would have kept it online, or the row is as
\* an update that read it earlier put it back.
OnlineWhileServed ==
  (\E s \in Streams : At(s, "serving")) /\ ~ crossed /\ ~ lateOn /\ ~ stale => online

\* An agent that has gone is written off in the end, unless it comes back, a fault
\* prevented it, Redis took longer than the grace period to take the end of its last
\* stream, or an update put back that it is online.
OfflineWhenGone == Gone ~> ~ online \/ ~ Gone \/ lateOff \/ stale

\* What events.go:437 says of a stream: the "device will be considered to be
\* online for the duration of this request".  Not so if it connects while the
\* timer of an earlier stream writes the agent off.
OnlineForTheDuration ==
  (\E s \in Streams : At(s, "serving")) /\ (\A s \in Streams : ~ At(s, "writeOff")) /\ ~ stale
    => online

\* The same line, where nothing failed and no timer was about to write the agent off.
\* Not so if an update that read the row before the agent was marked saves it after.
OnlineWhateverUpdates ==
  (\E s \in Streams : At(s, "serving")) /\ ~ crossed /\ ~ lateOn => online
==============================================================================
