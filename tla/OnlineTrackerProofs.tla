------------------------- MODULE OnlineTrackerProofs -------------------------
(***************************************************************************)
(* For any streams of an agent and any replicas of the API server: a       *)
(* replica counts the streams it tracks, and an agent whose streams are    *)
(* served is online, unless a call failed, a stream crossed a write-off or *)
(* an update put the online column back as it had read it.                 *)
(***************************************************************************)
EXTENDS OnlineTracker, FiniteSetTheorems, SequenceTheorems, TLAPS

\* Unless a subscription was lost, a replica that counts streams announces the agent, or
\* has sent that it does.
Announced == lateOn \/ \A p \in Replicas : count[p] # 0 => Announces(p)

\* While a timer writes the agent off nothing else is about to rely on its row:
\* no stream is between its read and its end.
AloneWhenWritingOff ==
  crossed \/ lateOn \/
    \A s, t \in Streams : At(t, "writeOff") => stream[s].at \notin {"read", "mark", "serving"}

\* A stream that found the agent online, or has marked it, still has it online, where no
\* update has written the row.
StillOnline ==
  crossed \/ lateOn \/ stale \/
    \A s \in Streams : (At(s, "read") /\ stream[s].wasOnline) \/ At(s, "serving") => online

\* The inductive invariant.
IInv ==
  /\ TypeOK
  /\ CountsItsStreams
  /\ Announced
  /\ AloneWhenWritingOff
  /\ StillOnline

-----------------------------------------------------------------------------
\* Where a stream may be.
LEMMA ClosedIs ==
  /\ Closed.at = "closed" /\ Closed.on \in Replicas /\ Closed.wasOnline = FALSE
  /\ Closed \in [at : {"closed", "read", "mark", "serving", "untracked", "grace", "writeOff"},
                 on : Replicas, wasOnline : BOOLEAN]
BY ConstantsAssumption DEF Closed

\* The tracked streams of a replica can be counted.
LEMMA TrackedFinite ==
  ASSUME NEW p \in Replicas
  PROVE  IsFiniteSet(Tracked(p)) /\ Cardinality(Tracked(p)) \in Nat
<1>1. Tracked(p) \subseteq Streams
  BY DEF Tracked
<1> QED
  BY <1>1, ConstantsAssumption, FS_Subset, FS_CardinalityType

\* Moving one stream: what its record becomes, and the others'.
LEMMA GotoMoves ==
  ASSUME TypeOK, NEW s \in Streams,
         NEW l \in {"closed", "read", "mark", "serving", "untracked", "grace", "writeOff"},
         Goto(s, l)
  PROVE  /\ stream' \in [Streams -> [at : {"closed", "read", "mark", "serving", "untracked",
                                          "grace", "writeOff"},
                                    on : Replicas, wasOnline : BOOLEAN]]
         /\ stream'[s].at = l
         /\ l # "closed" => stream'[s].on = stream[s].on /\ stream'[s].wasOnline = stream[s].wasOnline
         /\ \A t \in Streams : t # s => stream'[t] = stream[t]
<1>1. CASE l = "closed"
  BY <1>1, ClosedIs DEF Goto, TypeOK
<1>2. CASE l # "closed"
  BY <1>2 DEF Goto, TypeOK
<1> QED
  BY <1>1, <1>2

\* A replica that starts to track a stream tracks one more.
LEMMA OneMore ==
  ASSUME NEW p \in Replicas, NEW s \in Streams, Tracked(p)' = Tracked(p) \cup {s}
  PROVE  Cardinality(Tracked(p)') <= Cardinality(Tracked(p)) + 1
BY TrackedFinite, FS_AddElement

\* A replica that stops tracking a stream tracks one less.
LEMMA OneLess ==
  ASSUME NEW p \in Replicas, NEW s \in Tracked(p), Tracked(p)' = Tracked(p) \ {s}
  PROVE  Cardinality(Tracked(p)') = Cardinality(Tracked(p)) - 1 /\ Cardinality(Tracked(p)) # 0
<1>1. IsFiniteSet(Tracked(p)) /\ Cardinality(Tracked(p)) \in Nat /\ s \in Tracked(p)
  BY TrackedFinite
<1>2. Cardinality(Tracked(p)) # 0
  BY <1>1, FS_EmptySet
<1> QED
  BY <1>1, <1>2, FS_RemoveElement

\* A replica that counts no stream tracks none.
LEMMA NoneTracked ==
  ASSUME TypeOK, CountsItsStreams, NEW p \in Replicas, count[p] = 0
  PROVE  Tracked(p) = {}
<1>1. Cardinality(Tracked(p)) = 0 /\ IsFiniteSet(Tracked(p))
  BY TrackedFinite DEF CountsItsStreams
<1> QED
  BY <1>1, FS_EmptySet

\* A call that fails uses up one of the faults.
LEMMA FaultCounts ==
  ASSUME TypeOK, Fault PROVE faults' \in 0 .. MaxFaults
BY ConstantsAssumption DEF Fault, TypeOK

\* A replica that sends a command announces the agent if it subscribes, and only then.
LEMMA SendAnnounces ==
  ASSUME TypeOK, NEW p \in Replicas, NEW s \in Streams,
         NEW what \in {"subscribe", "unsubscribe"}, Send(p, what, s)
  PROVE  /\ wire' \in [Replicas -> Seq(Command)] /\ subscribed' \subseteq Replicas
         /\ wire'[p] # <<>>
         /\ Announces(p)' <=> what = "subscribe"
         /\ \A q \in Replicas \ {p} : Announces(q)' <=> Announces(q)
<1> DEFINE c == [do |-> what, by |-> s]
<1>1. c \in Command /\ wire[p] \in Seq(Command)
  BY DEF Command, TypeOK
<1>2. /\ wire' = [wire EXCEPT ![p] = Append(wire[p], c)] /\ subscribed' = subscribed
      /\ wire \in [Replicas -> Seq(Command)] /\ subscribed \subseteq Replicas
  BY DEF Send, TypeOK
<1>3. /\ Append(wire[p], c) \in Seq(Command) /\ Append(wire[p], c) # <<>>
      /\ Append(wire[p], c)[Len(Append(wire[p], c))] = c
  BY <1>1
<1>4. wire'[p] = Append(wire[p], c) /\ \A q \in Replicas \ {p} : wire'[q] = wire[q]
  BY <1>2
<1>5. Announces(p)' <=> what = "subscribe"
  BY <1>3, <1>4 DEF Announces
<1>6. \A q \in Replicas \ {p} : Announces(q)' <=> Announces(q)
  BY <1>2, <1>4 DEF Announces
<1> QED
  BY <1>2, <1>3, <1>4, <1>5, <1>6

\* A replica that loses its connection announces nothing.
LEMMA DisconnectAnnounces ==
  ASSUME TypeOK, NEW p \in Replicas, Disconnect(p)
  PROVE  /\ wire' \in [Replicas -> Seq(Command)] /\ subscribed' \subseteq Replicas
         /\ ~ Announces(p)'
         /\ \A q \in Replicas \ {p} : Announces(q)' <=> Announces(q)
BY DEF Disconnect, Announces, TypeOK

\* The last command sent stays the last while the first is taken.
LEMMA LastOfTail ==
  ASSUME NEW S, NEW q \in Seq(S), q # <<>>
  PROVE  /\ Len(q) = 1 => Tail(q) = <<>> /\ Head(q) = q[Len(q)]
         /\ Len(q) # 1 => Tail(q) # <<>> /\ Tail(q)[Len(Tail(q))] = q[Len(q)]
<1>1. /\ Tail(q) \in Seq(S) /\ Len(Tail(q)) = Len(q) - 1
      /\ \A i \in 1 .. Len(Tail(q)) : Tail(q)[i] = q[i + 1]
  BY HeadTailProperties
<1>2. Len(q) \in Nat \ {0}
  BY EmptySeq
<1>3. ASSUME Len(q) = 1 PROVE Tail(q) = <<>>
  <2>1. Len(Tail(q)) = 0
    BY <1>1, <1>3
  <2>2. Tail(q) # <<>> => Len(Tail(q)) \in Nat \ {0}
    BY <1>1, EmptySeq
  <2> QED
    BY <2>1, <2>2
<1>4. Head(q) = q[1]
  BY <1>2
<1>5. ASSUME Len(q) # 1 PROVE Tail(q) # <<>> /\ Tail(q)[Len(Tail(q))] = q[Len(q)]
  <2>1. Len(q) - 1 \in 1 .. Len(Tail(q)) /\ (Len(q) - 1) + 1 = Len(q)
    BY <1>1, <1>2, <1>5
  <2>2. Tail(q)[Len(q) - 1] = q[(Len(q) - 1) + 1]
    BY <1>1, <2>1
  <2>3. Len(Tail(q)) # 0
    BY <1>1, <1>2, <1>5
  <2>4. Tail(q) # <<>>
    BY <2>3, EmptySeq
  <2>5. Tail(q)[Len(Tail(q))] = q[Len(q)]
    BY <1>1, <2>1, <2>2
  <2> QED
    BY <2>4, <2>5
<1> QED
  BY <1>3, <1>4, <1>5

\* What a replica announces does not depend on what Redis has taken of it.
LEMMA TakesAnnounces ==
  ASSUME TypeOK, NEW p \in Replicas, RedisTakes(p)
  PROVE  /\ wire' \in [Replicas -> Seq(Command)] /\ subscribed' \subseteq Replicas
         /\ \A q \in Replicas : Announces(q)' <=> Announces(q)
<1>1. wire[p] \in Seq(Command) /\ wire[p] # <<>> /\ wire \in [Replicas -> Seq(Command)]
  BY DEF RedisTakes, TypeOK
<1>2. /\ wire'[p] = Tail(wire[p]) /\ \A q \in Replicas \ {p} : wire'[q] = wire[q]
      /\ wire' = [wire EXCEPT ![p] = Tail(wire[p])]
  BY <1>1 DEF RedisTakes
<1>3. /\ subscribed' = IF Head(wire[p]).do = "subscribe" THEN subscribed \cup {p}
                                                         ELSE subscribed \ {p}
      /\ subscribed' \subseteq Replicas
  BY DEF RedisTakes, TypeOK
<1>4. wire' \in [Replicas -> Seq(Command)]
  BY <1>1, <1>2
<1>5. \A q \in Replicas \ {p} : Announces(q)' <=> Announces(q)
  BY <1>2, <1>3 DEF Announces
<1>6. Announces(p)' <=> Announces(p)
  <2>1. CASE Len(wire[p]) = 1
    <3>1. Tail(wire[p]) = <<>> /\ Head(wire[p]) = wire[p][Len(wire[p])]
      BY <1>1, <2>1, LastOfTail
    <3> QED
      BY <1>1, <1>2, <1>3, <3>1 DEF Announces
  <2>2. CASE Len(wire[p]) # 1
    <3>1. Tail(wire[p]) # <<>> /\ Tail(wire[p])[Len(Tail(wire[p]))] = wire[p][Len(wire[p])]
      BY <1>1, <2>2, LastOfTail
    <3> QED
      BY <1>1, <1>2, <3>1 DEF Announces
  <2> QED
    BY <2>1, <2>2
<1> QED
  BY <1>3, <1>4, <1>5, <1>6

\* The initial states.
LEMMA InitInv == Init => IInv
<1> SUFFICES ASSUME Init PROVE IInv
  OBVIOUS
<1> USE DEF Init
<1>1. TypeOK
  <2>1. faults \in 0 .. MaxFaults /\ count \in [Replicas -> Nat]
    BY ConstantsAssumption
  <2>2. stream \in [Streams -> [at : {"closed", "read", "mark", "serving", "untracked",
                                     "grace", "writeOff"},
                               on : Replicas, wasOnline : BOOLEAN]]
    <3> HIDE DEF Init
    <3> QED
      BY ClosedIs DEF Init
  <2>3. wire \in [Replicas -> Seq(Command)] /\ \A p \in Replicas : ~ Announces(p)
    BY DEF Announces
  <2> QED
    BY <2>1, <2>2, <2>3 DEF TypeOK
<1>2. CountsItsStreams
  <2>1. \A p \in Replicas : Tracked(p) = {} /\ count[p] = 0
    BY ClosedIs DEF Tracked
  <2> HIDE DEF Init
  <2> QED
    BY <2>1, FS_EmptySet DEF CountsItsStreams
<1>3. Announced /\ AloneWhenWritingOff /\ StillOnline
  BY ClosedIs DEF Announced, AloneWhenWritingOff, StillOnline, At
<1> QED
  BY <1>1, <1>2, <1>3 DEF IInv

\* Connect: nothing is tracked yet; what was read of the row is still so.
LEMMA ConnectInv ==
  ASSUME IInv, NEW s \in Streams, NEW p \in Replicas, Connect(s, p)
  PROVE  IInv'
<1> USE DEF IInv, Connect
<1>0. \A q \in Replicas : Announces(q)' <=> Announces(q)
  BY DEF Announces, redis
<1>1. /\ TypeOK'
      /\ stream'[s] = [at |-> "read", on |-> p, wasOnline |-> online]
      /\ \A t \in Streams : t # s => stream'[t] = stream[t]
  BY <1>0 DEF TypeOK, redis
<1>2. CountsItsStreams'
  <2>1. \A q \in Replicas : Tracked(q)' = Tracked(q)
    BY <1>1 DEF Tracked, At
  <2> QED
    BY <2>1 DEF CountsItsStreams
<1>3. Announced'
  BY <1>0 DEF Announced
<1>4. AloneWhenWritingOff'
  BY <1>1 DEF AloneWhenWritingOff, At, TypeOK
<1>5. StillOnline'
  BY <1>1 DEF StillOnline, At, TypeOK
<1> QED
  BY <1>1, <1>2, <1>3, <1>4, <1>5

\* ReadFails: nothing is tracked.
LEMMA ReadFailsInv ==
  ASSUME IInv, NEW s \in Streams, NEW p \in Replicas, ReadFails(s, p)
  PROVE  IInv'
<1> USE DEF IInv, ReadFails
<1>0. \A q \in Replicas : Announces(q)' <=> Announces(q)
  BY DEF Announces, redis
<1>1. /\ TypeOK'
      /\ stream[s].at = "closed" /\ stream'[s].at = "untracked"
      /\ \A t \in Streams : t # s => stream'[t] = stream[t]
  BY <1>0, FaultCounts DEF TypeOK, redis, At
<1>2. CountsItsStreams'
  <2>1. \A q \in Replicas : Tracked(q)' = Tracked(q)
    BY <1>1 DEF Tracked
  <2> QED
    BY <2>1 DEF CountsItsStreams
<1>3. Announced' /\ AloneWhenWritingOff' /\ StillOnline'
  BY <1>0, <1>1 DEF Announced, AloneWhenWritingOff, StillOnline, At
<1> QED
  BY <1>1, <1>2, <1>3

\* Updates: the online column is no longer what the streams and timers left it at.
LEMMA UpdateInv ==
  ASSUME IInv, UpdateRead \/ UpdateSave
  PROVE  IInv'
<1> USE DEF IInv
<1>1. /\ UNCHANGED <<count, redis, stream, faults, crossed, lateOn, lateOff>>
      /\ online' \in BOOLEAN /\ drafts' \subseteq BOOLEAN /\ stale' \in BOOLEAN
      /\ stale' \/ (online' = online /\ ~ stale)
  <2>1. CASE UpdateRead
    BY <2>1 DEF UpdateRead, TypeOK
  <2>2. CASE UpdateSave
    <3>1. PICK v \in drafts : online' = v /\ stale' = (stale \/ v # online)
      BY <2>2 DEF UpdateSave
    <3>2. v \in BOOLEAN /\ stale \in BOOLEAN /\ (v # online) \in BOOLEAN
      BY DEF TypeOK
    <3>3. /\ UNCHANGED <<count, drafts, redis, stream, faults, crossed, lateOn, lateOff>>
          /\ drafts \subseteq BOOLEAN
      BY <2>2 DEF UpdateSave, TypeOK
    <3> QED
      BY <3>1, <3>2, <3>3
  <2> QED
    BY <2>1, <2>2
<1>2. \A q \in Replicas : (Announces(q)' <=> Announces(q)) /\ Tracked(q)' = Tracked(q)
  BY <1>1 DEF Announces, Tracked, redis
<1>3. TypeOK'
  BY <1>1, <1>2 DEF TypeOK, redis
<1>4. CountsItsStreams' /\ Announced' /\ AloneWhenWritingOff' /\ StillOnline'
  BY <1>1, <1>2 DEF CountsItsStreams, Announced, AloneWhenWritingOff, StillOnline, At
<1> QED
  BY <1>3, <1>4

\* Track: the replica counts the stream and, with the first, announces the agent.
LEMMA TrackInv ==
  ASSUME IInv, NEW s \in Streams, Track(s)
  PROVE  IInv'
<1> DEFINE l == IF stream[s].wasOnline THEN "serving" ELSE "mark"
<1>p. PICK p \in Replicas : p = stream[s].on
  BY DEF IInv, TypeOK
<1>0. p = stream[s].on /\ TypeOK /\ stream[s].at = "read" /\ count[p] \in Nat
  BY <1>p DEF IInv, TypeOK, Track, At
<1>1. /\ stream'[s].at = l /\ stream'[s].on = p
      /\ \A t \in Streams : t # s => stream'[t] = stream[t]
  BY <1>0, GotoMoves DEF Track
<1>2. /\ count' = [count EXCEPT ![p] = @ + 1]
      /\ wire' \in [Replicas -> Seq(Command)] /\ subscribed' \subseteq Replicas
      /\ count[p] # 0 /\ Announces(p) => Announces(p)'
      /\ count[p] = 0 => Announces(p)'
      /\ \A q \in Replicas \ {p} : Announces(q)' <=> Announces(q)
  <2>1. CASE count[p] = 0
    <3>1. Send(p, "subscribe", s)
      BY <1>0, <2>1 DEF Track
    <3> QED
      BY <1>0, <2>1, <3>1, SendAnnounces DEF Track
  <2>2. CASE count[p] # 0
    <3>1. UNCHANGED <<subscribed, wire>>
      BY <1>0, <2>2 DEF Track, redis
    <3> QED
      BY <1>0, <2>2, <3>1 DEF Track, Announces, TypeOK
  <2> QED
    BY <2>1, <2>2
<1>3. TypeOK'
  <2>1. stream' \in [Streams -> [at : {"closed", "read", "mark", "serving", "untracked",
                                      "grace", "writeOff"},
                                on : Replicas, wasOnline : BOOLEAN]]
    BY <1>0, GotoMoves DEF Track
  <2>2. count' \in [Replicas -> Nat] /\ \A q \in Replicas : count'[q] =
          IF q = p THEN count[p] + 1 ELSE count[q]
    BY <1>0, <1>2 DEF TypeOK
  <2>3. lateOff' \/ \A q \in Replicas : Announces(q)' => count'[q] # 0
    <3>1. UNCHANGED lateOff
      BY DEF Track
    <3>2. lateOff \/ \A q \in Replicas : Announces(q) => count[q] # 0
      BY <1>0 DEF TypeOK
    <3> QED
      BY <1>0, <1>2, <2>2, <3>1, <3>2
  <2> QED
    BY <1>0, <1>2, <2>1, <2>2, <2>3 DEF Track, TypeOK
<1>4. CountsItsStreams'
  <2> SUFFICES ASSUME NEW q \in Replicas PROVE count'[q] >= Cardinality(Tracked(q)')
    BY DEF CountsItsStreams
  <2>1. count[q] \in Nat /\ count[q] >= Cardinality(Tracked(q)) /\ Cardinality(Tracked(q)) \in Nat
    BY TrackedFinite DEF IInv, CountsItsStreams, TypeOK
  <2>2. CASE q = p
    <3>1. Tracked(q)' = Tracked(q) \cup {s}
      BY <1>0, <1>1, <2>2 DEF Tracked
    <3>2. IsFiniteSet(Tracked(q)) /\ IsFiniteSet(Tracked(q)') /\ Cardinality(Tracked(q)') \in Nat
      BY <3>1, TrackedFinite, FS_AddElement, FS_CardinalityType
    <3>3. count'[q] = count[q] + 1
      BY <1>0, <1>2, <2>2 DEF TypeOK
    <3>4. Cardinality(Tracked(q)') <= Cardinality(Tracked(q)) + 1
      BY <3>1, OneMore
    <3> QED
      BY <2>1, <3>2, <3>3, <3>4
  <2>3. CASE q # p
    <3>1. Tracked(q)' = Tracked(q)
      BY <1>0, <1>1, <2>3 DEF Tracked
    <3> QED
      BY <1>0, <1>2, <2>1, <2>3, <3>1 DEF TypeOK
  <2> QED
    BY <2>2, <2>3
<1>5. Announced'
  BY <1>0, <1>2 DEF IInv, Announced, Track, TypeOK
<1>6. AloneWhenWritingOff'
  BY <1>0, <1>1 DEF IInv, AloneWhenWritingOff, Track, At
<1>7. StillOnline'
  BY <1>0, <1>1 DEF IInv, StillOnline, Track, At
<1> QED
  BY <1>3, <1>4, <1>5, <1>6, <1>7 DEF IInv

\* TrackFails: the replica counts a stream that it does not track.
LEMMA TrackFailsInv ==
  ASSUME IInv, NEW s \in Streams, TrackFails(s)
  PROVE  IInv'
<1> DEFINE p == stream[s].on
<1>0. p \in Replicas /\ TypeOK /\ stream[s].at = "read" /\ count[p] = 0
  BY DEF IInv, TypeOK, TrackFails, At
<1>1. /\ stream'[s].at = "untracked"
      /\ \A t \in Streams : t # s => stream'[t] = stream[t]
  BY <1>0, GotoMoves DEF TrackFails
<1>2. TypeOK'
  <2>1. stream' \in [Streams -> [at : {"closed", "read", "mark", "serving", "untracked",
                                      "grace", "writeOff"},
                                on : Replicas, wasOnline : BOOLEAN]]
    BY <1>0, GotoMoves DEF TrackFails
  <2>2. faults' \in 0 .. MaxFaults
    BY <1>0, FaultCounts DEF TrackFails
  <2>3. wire' \in [Replicas -> Seq(Command)] /\ subscribed' \subseteq Replicas
    BY <1>0, DisconnectAnnounces DEF TrackFails
  <2> QED
    BY <1>0, <2>1, <2>2, <2>3 DEF TrackFails, TypeOK
<1>3. CountsItsStreams'
  <2> SUFFICES ASSUME NEW q \in Replicas PROVE count'[q] >= Cardinality(Tracked(q)')
    BY DEF CountsItsStreams
  <2>1. Tracked(q)' = Tracked(q)
    BY <1>0, <1>1 DEF Tracked
  <2>2. count[q] \in Nat /\ count[q] >= Cardinality(Tracked(q)) /\ Cardinality(Tracked(q)) \in Nat
    BY TrackedFinite DEF IInv, CountsItsStreams, TypeOK
  <2>3. count'[q] = IF q = p THEN 1 ELSE count[q]
    BY <1>0 DEF TrackFails, TypeOK
  <2> QED
    BY <1>0, <2>1, <2>2, <2>3
<1>4. Announced' /\ AloneWhenWritingOff' /\ StillOnline'
  BY DEF Announced, AloneWhenWritingOff, StillOnline, TrackFails
<1> QED
  BY <1>2, <1>3, <1>4 DEF IInv

\* MarkOnline: the stream stays tracked, and the agent is online once it succeeds.
LEMMA MarkOnlineInv ==
  ASSUME IInv, NEW s \in Streams, MarkOnline(s)
  PROVE  IInv'
<1>0. TypeOK /\ stream[s].at = "mark"
  BY DEF IInv, MarkOnline, At
<1>a. \A q \in Replicas : Announces(q)' <=> Announces(q)
  BY DEF MarkOnline, Announces, redis
<1>1. /\ stream'[s].at = "serving" /\ stream'[s].on = stream[s].on
      /\ \A t \in Streams : t # s => stream'[t] = stream[t]
  BY <1>0, GotoMoves DEF MarkOnline
<1>2. TypeOK'
  <2>1. stream' \in [Streams -> [at : {"closed", "read", "mark", "serving", "untracked",
                                      "grace", "writeOff"},
                                on : Replicas, wasOnline : BOOLEAN]]
    BY <1>0, GotoMoves DEF MarkOnline
  <2>2. faults' \in 0 .. MaxFaults
    BY <1>0, FaultCounts DEF MarkOnline, TypeOK
  <2> QED
    BY <1>0, <1>a, <2>1, <2>2 DEF MarkOnline, TypeOK, redis
<1>3. CountsItsStreams'
  <2>1. \A q \in Replicas : Tracked(q)' = Tracked(q)
    BY <1>0, <1>1 DEF Tracked
  <2> QED
    BY <2>1 DEF IInv, CountsItsStreams, MarkOnline
<1>4. Announced'
  BY <1>a DEF IInv, Announced, MarkOnline
<1>5. AloneWhenWritingOff'
  BY <1>0, <1>1 DEF IInv, AloneWhenWritingOff, MarkOnline, At
<1>6. StillOnline'
  BY <1>0, <1>1 DEF IInv, StillOnline, MarkOnline, At
<1> QED
  BY <1>2, <1>3, <1>4, <1>5, <1>6 DEF IInv

\* A stream that is served is one of those its replica counts.
LEMMA ServedIsCounted ==
  ASSUME TypeOK, CountsItsStreams, NEW s \in Streams, stream[s].at = "serving"
  PROVE  /\ stream[s].on \in Replicas /\ count[stream[s].on] \in Nat \ {0}
         /\ s \in Tracked(stream[s].on)
         /\ count[stream[s].on] - 1 >= Cardinality(Tracked(stream[s].on) \ {s})
         /\ Cardinality(Tracked(stream[s].on) \ {s}) \in Nat
<1> DEFINE p == stream[s].on
<1>1. p \in Replicas /\ count[p] \in Nat
  BY DEF TypeOK
<1>2. s \in Tracked(p)
  BY DEF Tracked
<1>3. IsFiniteSet(Tracked(p)) /\ Cardinality(Tracked(p)) \in Nat
  BY <1>1, TrackedFinite
<1>4. Cardinality(Tracked(p)) # 0
  BY <1>2, <1>3, FS_EmptySet
<1>5. IsFiniteSet(Tracked(p) \ {s}) /\ Cardinality(Tracked(p) \ {s}) = Cardinality(Tracked(p)) - 1
  BY <1>2, <1>3, FS_RemoveElement
<1>6. count[p] >= Cardinality(Tracked(p))
  BY <1>1 DEF CountsItsStreams
<1> QED
  BY <1>1, <1>2, <1>3, <1>4, <1>5, <1>6

\* Untrack: the replica counts one stream less, and with its last one leaves the channel.
LEMMA UntrackInv ==
  ASSUME IInv, NEW s \in Streams, Untrack(s)
  PROVE  IInv'
<1>p. PICK p \in Replicas : p = stream[s].on
  BY DEF IInv, TypeOK
<1>0. p = stream[s].on /\ TypeOK /\ stream[s].at = "serving"
  BY <1>p DEF IInv, Untrack, At
<1>1. /\ stream'[s].at = "grace" /\ stream'[s].on = p
      /\ \A t \in Streams : t # s => stream'[t] = stream[t]
  BY <1>0, GotoMoves DEF Untrack
<1>2. /\ p \in Replicas /\ count[p] \in Nat \ {0}
      /\ s \in Tracked(p) /\ count[p] - 1 >= Cardinality(Tracked(p) \ {s})
  BY <1>0, ServedIsCounted DEF IInv
<1>3. /\ count' = [count EXCEPT ![p] = count[p] - 1]
      /\ wire' \in [Replicas -> Seq(Command)] /\ subscribed' \subseteq Replicas
      /\ count[p] = 1 => ~ Announces(p)'
      /\ count[p] # 1 => (Announces(p)' <=> Announces(p))
      /\ \A q \in Replicas \ {p} : Announces(q)' <=> Announces(q)
  <2>1. (IF count[p] > 0 THEN count[p] - 1 ELSE 0) = count[p] - 1
    BY <1>2
  <2>2. count' = [count EXCEPT ![p] = IF count[p] > 0 THEN count[p] - 1 ELSE 0]
    BY <1>0 DEF Untrack
  <2>3. CASE count[p] = 1
    <3>1. Send(p, "unsubscribe", s)
      BY <1>0, <2>3 DEF Untrack
    <3> QED
      BY <1>0, <1>2, <2>1, <2>2, <2>3, <3>1, SendAnnounces
  <2>4. CASE count[p] # 1
    <3>1. UNCHANGED <<subscribed, wire>>
      BY <1>0, <2>4 DEF Untrack, redis
    <3> QED
      BY <1>0, <2>1, <2>2, <2>4, <3>1 DEF Announces, TypeOK
  <2> QED
    BY <2>3, <2>4
<1>4. TypeOK'
  <2>1. stream' \in [Streams -> [at : {"closed", "read", "mark", "serving", "untracked",
                                      "grace", "writeOff"},
                                on : Replicas, wasOnline : BOOLEAN]]
    BY <1>0, GotoMoves DEF Untrack
  <2>2. count' \in [Replicas -> Nat] /\ \A q \in Replicas : count'[q] =
          IF q = p THEN count[p] - 1 ELSE count[q]
    BY <1>0, <1>2, <1>3 DEF TypeOK
  <2>3. lateOff' \/ \A q \in Replicas : Announces(q)' => count'[q] # 0
    BY <1>0, <1>2, <1>3, <2>2 DEF Untrack, TypeOK
  <2> QED
    BY <1>0, <1>3, <2>1, <2>2, <2>3 DEF Untrack, TypeOK
<1>5. CountsItsStreams'
  <2> SUFFICES ASSUME NEW q \in Replicas PROVE count'[q] >= Cardinality(Tracked(q)')
    BY DEF CountsItsStreams
  <2>1. Tracked(q)' = IF q = p THEN Tracked(q) \ {s} ELSE Tracked(q)
    BY <1>0, <1>1 DEF Tracked
  <2>2. count'[q] = IF q = p THEN count[p] - 1 ELSE count[q]
    BY <1>0, <1>3 DEF TypeOK
  <2>3. count[q] >= Cardinality(Tracked(q))
    BY DEF IInv, CountsItsStreams
  <2> QED
    BY <1>2, <2>1, <2>2, <2>3
<1>6. Announced'
  BY <1>0, <1>2, <1>3 DEF IInv, Announced, Untrack, TypeOK
<1>7. AloneWhenWritingOff'
  BY <1>0, <1>1 DEF IInv, AloneWhenWritingOff, Untrack, At
<1>8. StillOnline'
  BY <1>0, <1>1 DEF IInv, StillOnline, Untrack, At
<1> QED
  BY <1>4, <1>5, <1>6, <1>7, <1>8 DEF IInv

\* UntrackFails: it was the replica's last stream.
LEMMA UntrackFailsInv ==
  ASSUME IInv, NEW s \in Streams, UntrackFails(s)
  PROVE  IInv'
<1> DEFINE p == stream[s].on
<1>0. TypeOK /\ stream[s].at = "serving" /\ count[p] = 1
  BY DEF IInv, UntrackFails, At
<1>1. /\ stream'[s].at = "closed"
      /\ \A t \in Streams : t # s => stream'[t] = stream[t]
  BY <1>0, GotoMoves DEF UntrackFails
<1>a. /\ wire' \in [Replicas -> Seq(Command)] /\ subscribed' \subseteq Replicas
      /\ \A q \in Replicas \ {p} : Announces(q)' <=> Announces(q)
  BY <1>0, DisconnectAnnounces DEF UntrackFails, TypeOK
<1>2. /\ p \in Replicas /\ s \in Tracked(p)
      /\ count[p] - 1 >= Cardinality(Tracked(p) \ {s})
  BY <1>0, ServedIsCounted DEF IInv
<1>3. TypeOK'
  <2>1. stream' \in [Streams -> [at : {"closed", "read", "mark", "serving", "untracked",
                                      "grace", "writeOff"},
                                on : Replicas, wasOnline : BOOLEAN]]
    BY <1>0, GotoMoves DEF UntrackFails
  <2>2. faults' \in 0 .. MaxFaults
    BY <1>0, FaultCounts DEF UntrackFails
  <2> QED
    BY <1>0, <1>a, <2>1, <2>2 DEF UntrackFails, TypeOK
<1>4. CountsItsStreams'
  <2> SUFFICES ASSUME NEW q \in Replicas PROVE count'[q] >= Cardinality(Tracked(q)')
    BY DEF CountsItsStreams
  <2>1. Tracked(q)' = IF q = p THEN Tracked(q) \ {s} ELSE Tracked(q)
    <3>1. \A t \in Streams : t \in Tracked(q)' <=> t \in Tracked(q) /\ t # s
      BY <1>0, <1>1 DEF Tracked
    <3>2. q # p => s \notin Tracked(q)
      BY DEF Tracked
    <3> QED
      BY <3>1, <3>2 DEF Tracked
  <2>2. count'[q] = IF q = p THEN count[p] - 1 ELSE count[q]
    BY <1>0 DEF UntrackFails, TypeOK
  <2>3. count[q] >= Cardinality(Tracked(q))
    BY DEF IInv, CountsItsStreams
  <2> QED
    BY <1>2, <2>1, <2>2, <2>3
<1>5. Announced'
  BY <1>0, <1>a, <1>2 DEF IInv, Announced, UntrackFails, TypeOK
<1>6. AloneWhenWritingOff'
  BY <1>0, <1>1 DEF IInv, AloneWhenWritingOff, UntrackFails, At
<1>7. StillOnline'
  BY <1>0, <1>1 DEF IInv, StillOnline, UntrackFails, At
<1> QED
  BY <1>3, <1>4, <1>5, <1>6, <1>7 DEF IInv

\* UntrackedEnds: nobody tracked it.
LEMMA UntrackedEndsInv ==
  ASSUME IInv, NEW s \in Streams, UntrackedEnds(s)
  PROVE  IInv'
<1>0. TypeOK /\ stream[s].at = "untracked"
  BY DEF IInv, UntrackedEnds, At
<1>1. /\ stream'[s].at = "closed"
      /\ \A t \in Streams : t # s => stream'[t] = stream[t]
  BY <1>0, GotoMoves DEF UntrackedEnds
<1>a. \A q \in Replicas : Announces(q)' <=> Announces(q)
  BY DEF UntrackedEnds, Announces, redis
<1>2. TypeOK'
  BY <1>0, <1>a, GotoMoves DEF UntrackedEnds, TypeOK, redis
<1>3. CountsItsStreams'
  <2>1. \A q \in Replicas : Tracked(q)' = Tracked(q)
    BY <1>0, <1>1 DEF Tracked
  <2> QED
    BY <2>1 DEF IInv, CountsItsStreams, UntrackedEnds
<1>4. Announced' /\ AloneWhenWritingOff' /\ StillOnline'
  BY <1>0, <1>1, <1>a DEF IInv, Announced, AloneWhenWritingOff, StillOnline, UntrackedEnds, At
<1> QED
  BY <1>2, <1>3, <1>4 DEF IInv

\* CheckOnline: when no replica announces the agent none tracks a stream, so a timer
\* that starts to write the agent off is alone.
LEMMA CheckOnlineInv ==
  ASSUME IInv, NEW s \in Streams, CheckOnline(s)
  PROVE  IInv'
<1>0. TypeOK /\ stream[s].at = "grace"
  BY DEF IInv, CheckOnline, At
<1>g. PICK l \in {"closed", "writeOff"} : Goto(s, l) /\ (l = "writeOff" => ~ IsConnected(s))
  <2>1. CASE Goto(s, IF IsConnected(s) THEN "closed" ELSE "writeOff")
    BY <2>1
  <2>2. CASE Goto(s, "closed")
    BY <2>2
  <2> QED
    BY <2>1, <2>2 DEF CheckOnline
<1>1. /\ stream'[s].at = l
      /\ \A t \in Streams : t # s => stream'[t] = stream[t]
  BY <1>0, <1>g, GotoMoves
<1>a. \A q \in Replicas : Announces(q)' <=> Announces(q)
  BY DEF CheckOnline, Announces, redis
<1>2. TypeOK'
  <2>1. stream' \in [Streams -> [at : {"closed", "read", "mark", "serving", "untracked",
                                      "grace", "writeOff"},
                                on : Replicas, wasOnline : BOOLEAN]]
    BY <1>0, <1>g, GotoMoves
  <2>2. faults' \in 0 .. MaxFaults
    BY <1>0, FaultCounts DEF CheckOnline, TypeOK
  <2>3. {crossed', lateOff'} \subseteq BOOLEAN /\ (lateOff => lateOff')
    <3>1. IsConnected(s) \in BOOLEAN /\ Overtaken(s) \in BOOLEAN
          /\ (\E t \in Streams : Unheard(t)) \in BOOLEAN
      BY DEF IsConnected, Overtaken
    <3> QED
      BY <1>0, <3>1 DEF CheckOnline, TypeOK
  <2> QED
    BY <1>0, <1>a, <2>1, <2>2, <2>3 DEF CheckOnline, TypeOK, redis
<1>3. CountsItsStreams'
  <2>1. \A q \in Replicas : Tracked(q)' = Tracked(q)
    BY <1>0, <1>1 DEF Tracked
  <2> QED
    BY <2>1 DEF IInv, CountsItsStreams, CheckOnline
<1>4. Announced' /\ StillOnline'
  BY <1>0, <1>1, <1>a DEF IInv, Announced, StillOnline, CheckOnline, At, TypeOK
<1>5. AloneWhenWritingOff'
  <2> SUFFICES ASSUME ~ crossed', ~ lateOn', NEW r \in Streams, NEW t \in Streams, At(t, "writeOff")'
               PROVE  stream'[r].at \notin {"read", "mark", "serving"}
    BY DEF AloneWhenWritingOff, At
  <2>1. ~ crossed /\ ~ lateOn
    BY <1>0 DEF CheckOnline, TypeOK
  <2>2. CASE l = "closed"
    BY <2>1, <2>2, <1>1 DEF IInv, AloneWhenWritingOff, At
  <2>3. CASE l = "writeOff"
    <3>1. ~ IsConnected(s) /\ stream'[s].at = "writeOff"
      BY <1>1, <1>g, <2>3
    <3>2. \A q \in Streams : ~ Unheard(q)
      <4>1. ~ Goto(s, "closed")
        BY <3>1, <1>0, GotoMoves
      <4>2. crossed' = (crossed \/ (~ IsConnected(s) /\ \E q \in Streams : Unheard(q)))
        BY <4>1 DEF CheckOnline
      <4> QED
        BY <3>1, <4>2
    <3>3. \A q \in Streams : stream[q].at \notin {"mark", "serving"}
      <4> SUFFICES ASSUME NEW q \in Streams, stream[q].at \in {"mark", "serving"} PROVE FALSE
        OBVIOUS
      <4>1. PICK p \in Replicas : p = stream[q].on
        BY <1>0 DEF TypeOK
      <4>2. wire[p] = <<>>
        BY <3>2, <4>1 DEF Unheard
      <4>3. ~ Announces(p)
        BY <3>1, <4>2 DEF Announces, IsConnected
      <4>4. count[p] = 0
        BY <2>1, <4>3 DEF IInv, Announced
      <4>5. q \in Tracked(p)
        BY <4>1 DEF Tracked
      <4> QED
        BY <4>4, <4>5, NoneTracked DEF IInv
    <3>4. \A q \in Streams : stream[q].at # "read"
      BY <3>2 DEF Unheard, At
    <3> QED
      BY <1>1, <3>1, <3>3, <3>4
  <2> QED
    BY <2>2, <2>3
<1> QED
  BY <1>2, <1>3, <1>4, <1>5 DEF IInv

\* MarkOffline: nothing relies on the row that is written.
LEMMA MarkOfflineInv ==
  ASSUME IInv, NEW s \in Streams, MarkOffline(s)
  PROVE  IInv'
<1>0. TypeOK /\ stream[s].at = "writeOff"
  BY DEF IInv, MarkOffline, At
<1>a. \A q \in Replicas : Announces(q)' <=> Announces(q)
  BY DEF MarkOffline, Announces, redis
<1>1. /\ stream'[s].at = "closed"
      /\ \A t \in Streams : t # s => stream'[t] = stream[t]
  BY <1>0, GotoMoves DEF MarkOffline
<1>2. TypeOK'
  <2>1. stream' \in [Streams -> [at : {"closed", "read", "mark", "serving", "untracked",
                                      "grace", "writeOff"},
                                on : Replicas, wasOnline : BOOLEAN]]
    BY <1>0, GotoMoves DEF MarkOffline
  <2>2. faults' \in 0 .. MaxFaults
    BY <1>0, FaultCounts DEF MarkOffline, TypeOK
  <2> QED
    BY <1>0, <1>a, <2>1, <2>2 DEF MarkOffline, TypeOK, redis
<1>3. CountsItsStreams'
  <2>1. \A q \in Replicas : Tracked(q)' = Tracked(q)
    BY <1>0, <1>1 DEF Tracked
  <2> QED
    BY <2>1 DEF IInv, CountsItsStreams, MarkOffline
<1>4. Announced'
  BY <1>a DEF IInv, Announced, MarkOffline
<1>5. AloneWhenWritingOff'
  BY <1>0, <1>1 DEF IInv, AloneWhenWritingOff, MarkOffline, At
<1>6. StillOnline'
  <2> SUFFICES ASSUME ~ crossed, ~ lateOn, NEW t \in Streams, stream'[t].at \in {"read", "serving"}
               PROVE  FALSE
    BY DEF StillOnline, MarkOffline, At
  <2>1. stream[t].at \in {"read", "serving"}
    BY <1>1
  <2> QED
    BY <1>0, <2>1 DEF IInv, AloneWhenWritingOff, At
<1> QED
  BY <1>2, <1>3, <1>4, <1>5, <1>6 DEF IInv

\* RedisTakes: the replicas announce what they did.
LEMMA RedisTakesInv ==
  ASSUME IInv, NEW p \in Replicas, RedisTakes(p)
  PROVE  IInv'
<1>1. /\ wire' \in [Replicas -> Seq(Command)] /\ subscribed' \subseteq Replicas
      /\ \A q \in Replicas : Announces(q)' <=> Announces(q)
  BY TakesAnnounces DEF IInv
<1>2. TypeOK'
  BY <1>1 DEF IInv, RedisTakes, TypeOK
<1>3. CountsItsStreams'
  BY DEF IInv, RedisTakes, CountsItsStreams, Tracked
<1>4. Announced' /\ AloneWhenWritingOff' /\ StillOnline'
  BY <1>1 DEF IInv, Announced, AloneWhenWritingOff, StillOnline, RedisTakes, At
<1> QED
  BY <1>2, <1>3, <1>4 DEF IInv

\* RedisDrops: whatever was announced may be missing from now on.
LEMMA RedisDropsInv ==
  ASSUME IInv, NEW p \in Replicas, RedisDrops(p)
  PROVE  IInv'
<1>1. TypeOK'
  <2>1. faults' \in 0 .. MaxFaults
    BY FaultCounts DEF IInv, RedisDrops
  <2>2. /\ wire' \in [Replicas -> Seq(Command)] /\ subscribed' \subseteq Replicas
        /\ \A q \in Replicas : Announces(q)' => Announces(q)
    BY DisconnectAnnounces DEF IInv, RedisDrops
  <2> QED
    BY <2>1, <2>2 DEF IInv, RedisDrops, TypeOK
<1>2. CountsItsStreams'
  BY DEF IInv, RedisDrops, CountsItsStreams, Tracked
<1>3. Announced' /\ AloneWhenWritingOff' /\ StillOnline'
  BY DEF Announced, AloneWhenWritingOff, StillOnline, RedisDrops
<1> QED
  BY <1>1, <1>2, <1>3 DEF IInv

\* Resubscribe: only a replica that counts streams announces the agent again.
LEMMA ResubscribeInv ==
  ASSUME IInv, NEW p \in Replicas, Resubscribe(p)
  PROVE  IInv'
<1>a. /\ count[p] # 0 /\ Announces(p)'
      /\ \A q \in Replicas \ {p} : Announces(q)' <=> Announces(q)
  BY DEF IInv, TypeOK, Resubscribe, Announces
<1>1. TypeOK'
  BY <1>a DEF IInv, Resubscribe, TypeOK
<1>2. CountsItsStreams'
  BY DEF IInv, Resubscribe, CountsItsStreams, Tracked
<1>3. Announced' /\ AloneWhenWritingOff' /\ StillOnline'
  BY <1>a DEF IInv, Announced, AloneWhenWritingOff, StillOnline, Resubscribe, At
<1> QED
  BY <1>1, <1>2, <1>3 DEF IInv

\* Crash: the replica's streams, timers and counts go together.
LEMMA CrashInv ==
  ASSUME IInv, NEW p \in Replicas, Crash(p)
  PROVE  IInv'
<1>0. TypeOK
  BY DEF IInv
<1>1. \A t \in Streams : stream'[t] = IF stream[t].on = p THEN Closed ELSE stream[t]
  BY DEF Crash
<1>2. \A q \in Replicas : count'[q] = IF q = p THEN 0 ELSE count[q]
  BY <1>0 DEF Crash, TypeOK
<1>a. /\ wire' \in [Replicas -> Seq(Command)] /\ subscribed' \subseteq Replicas
      /\ \A q \in Replicas \ {p} : Announces(q)' <=> Announces(q)
  BY <1>0, DisconnectAnnounces DEF Crash
<1>3. TypeOK'
  <2>1. faults' \in 0 .. MaxFaults
    BY <1>0, FaultCounts DEF Crash
  <2>2. stream' \in [Streams -> [at : {"closed", "read", "mark", "serving", "untracked",
                                      "grace", "writeOff"},
                                on : Replicas, wasOnline : BOOLEAN]]
    BY <1>0, ClosedIs DEF Crash, TypeOK
  <2> QED
    BY <1>0, <1>a, <2>1, <2>2 DEF Crash, TypeOK
<1>4. CountsItsStreams'
  <2> SUFFICES ASSUME NEW q \in Replicas PROVE count'[q] >= Cardinality(Tracked(q)')
    BY DEF CountsItsStreams
  <2>1. Tracked(q)' = IF q = p THEN {} ELSE Tracked(q)
    BY <1>1, ClosedIs DEF Tracked
  <2>2. count[q] >= Cardinality(Tracked(q))
    BY DEF IInv, CountsItsStreams
  <2> QED
    BY <1>2, <2>1, <2>2, FS_EmptySet
<1>5. Announced'
  BY <1>2, <1>a DEF IInv, Announced, Crash
<1>6. AloneWhenWritingOff' /\ StillOnline'
  BY <1>1, ClosedIs DEF IInv, AloneWhenWritingOff, StillOnline, Crash, At
<1> QED
  BY <1>3, <1>4, <1>5, <1>6 DEF IInv

-----------------------------------------------------------------------------
\* Every step keeps the invariant.
LEMMA NextInv == IInv /\ [Next]_vars => IInv'
<1> SUFFICES ASSUME IInv, [Next]_vars PROVE IInv'
  OBVIOUS
<1>1. ASSUME NEW s \in Streams, Serve(s) PROVE IInv'
  BY <1>1, ConnectInv, ReadFailsInv, TrackInv, TrackFailsInv, MarkOnlineInv, UntrackInv, UntrackFailsInv,
     UntrackedEndsInv DEF Serve
<1>2. ASSUME NEW s \in Streams, Timer(s) PROVE IInv'
  BY <1>2, CheckOnlineInv, MarkOfflineInv DEF Timer
<1>3. ASSUME NEW p \in Replicas, RedisTakes(p) \/ RedisDrops(p) \/ Resubscribe(p) \/ Crash(p)
      PROVE  IInv'
  BY <1>3, RedisTakesInv, RedisDropsInv, ResubscribeInv, CrashInv
<1>4. CASE UpdateRead \/ UpdateSave
  BY <1>4, UpdateInv
<1>5. CASE UNCHANGED vars
  BY <1>5 DEF vars, redis, IInv, TypeOK, CountsItsStreams, Tracked, Announced, Announces,
              AloneWhenWritingOff, StillOnline, At
<1> QED
  BY <1>1, <1>2, <1>3, <1>4, <1>5 DEF Next

\* The inductive invariant holds in every state of every behaviour.
THEOREM Invariance == Spec => []IInv
<1>1. Init => IInv
  BY InitInv
<1>2. IInv /\ [Next]_vars => IInv'
  BY NextInv
<1> QED
  BY <1>1, <1>2, PTL DEF Spec

\* Every variable has its type, and without a fault only replicas that count streams
\* of the agent announce it (online_tracker.go: connected, disconnected).
THEOREM TypeCorrect == Spec => []TypeOK
<1>1. IInv => TypeOK
  BY DEF IInv
<1> QED
  BY <1>1, Invariance, PTL

\* localAgents never counts fewer streams than the replica tracks, so disconnected
\* does not unsubscribe the replica of an agent it still serves.
THEOREM Counts == Spec => []CountsItsStreams
<1>1. IInv => CountsItsStreams
  BY DEF IInv
<1> QED
  BY <1>1, Invariance, PTL

\* With any streams on any replicas, any crashes, updates and delays of Redis, an agent
\* that is served is online, unless a call failed, a stream crossed the write-off of a
\* timer, or its row is as an update (device.go, site.go) put it back.
THEOREM OnlineWhile == Spec => []OnlineWhileServed
<1>1. IInv => OnlineWhileServed
  BY DEF IInv, StillOnline, OnlineWhileServed
<1> QED
  BY <1>1, Invariance, PTL
==============================================================================
