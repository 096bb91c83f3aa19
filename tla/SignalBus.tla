------------------------------ MODULE SignalBus ------------------------------
(***************************************************************************)
(* The in-memory signal bus of internal/signalbus/signalbus.go: HTTP       *)
(* handlers subscribe to named signals and close their subscriptions,      *)
(* while other goroutines notify a name, or all of them.                   *)
(*                                                                         *)
(* signals is a Go map from names to slices.  Subscribe appends to a slice *)
(* and close swaps and shrinks it IN PLACE, both under the bus's lock;     *)
(* Notify copies only the slice header under the lock and walks the shared *)
(* backing array after it has released it.  So the backing arrays and      *)
(* their capacities are part of the state.                                 *)
(***************************************************************************)
EXTENDS Naturals, Sequences, FiniteSets

CONSTANTS Subs,       \* the subscriptions, each created by one Subscribe call
          Names,      \* the names of the signals
          Goroutines, \* the callers of Notify and NotifyAll
          Nil         \* the content of a cell no append has written yet

ASSUME NilAssumption == Nil \notin Subs \cup Names

VARIABLES heap,    \* heap[a]: the backing array a, a sequence of cap cells
          signals, \* signals[n]: slice header [arr, len]; NilSlice: no key n
          sub,     \* sub[s]: its state and the name it is created with
          token,   \* token[s]: the cap-1 channel s.c holds a message
          call,    \* call[g]: the Notify or NotifyAll goroutine g is in
          owed,    \* history: the subscriptions open ever since g's last call
                   \* read the map, that this call has not tried to signal
          churn    \* history: whether a subscription of the name of g's
                   \* Notify was closed during the call, and then one created

vars == <<heap, signals, sub, token, call, owed, churn>>

NilSlice == [arr |-> 0, len |-> 0]
NoCall == [op |-> "none", name |-> Nil, arr |-> 0, len |-> 0, idx |-> 1, copy |-> {}]

Slice == [arr : Nat, len : Nat]
Subscription == [state : {"new", "open", "closed"}, name : Names]
Call == [op : {"none", "notify", "notifyAll"}, name : Names \cup {Nil},
         arr : Nat, len : Nat, idx : Nat \ {0}, copy : SUBSET Subs]

\* The subscriptions that are open, of name n or of any name.
OpenOn(n) == {s \in Subs : sub[s].state = "open" /\ sub[s].name = n}
Open == {s \in Subs : sub[s].state = "open"}

\* g is in the loop of a Notify(n).
Notifying(g, n) == call[g].op = "notify" /\ call[g].name = n

-----------------------------------------------------------------------------
Init ==
  /\ heap = <<>>
  /\ signals = [n \in Names |-> NilSlice]
  /\ sub \in [Subs -> [state : {"new"}, name : Names]]
  /\ token = [s \in Subs |-> FALSE]
  /\ call = [g \in Goroutines |-> NoCall]
  /\ owed = [g \in Goroutines |-> {}]
  /\ churn = [g \in Goroutines |-> "none"]

\* append(subs, sub) writes the cell after the last one when the backing array
\* has room: the goroutines that captured the slice share that array.
AppendInPlace(s, n) ==
  LET h == signals[n] IN
  /\ h # NilSlice /\ h.len < Len(heap[h.arr])
  /\ heap' = [heap EXCEPT ![h.arr] = [@ EXCEPT ![h.len + 1] = s]]
  /\ signals' = [signals EXCEPT ![n] = [arr |-> h.arr, len |-> h.len + 1]]

\* Otherwise it copies the slice to a new array of twice the capacity.
AppendGrow(s, n) ==
  LET h == signals[n]
      old == IF h = NilSlice THEN <<>> ELSE heap[h.arr]
      cap == IF h.len = 0 THEN 1 ELSE 2 * h.len
  IN
  /\ h.len = Len(old)
  /\ heap' = Append(heap, [i \in 1 .. cap |->
                             IF i <= h.len THEN old[i]
                             ELSE IF i = h.len + 1 THEN s ELSE Nil])
  /\ signals' = [signals EXCEPT ![n] = [arr |-> Len(heap) + 1, len |-> h.len + 1]]

\* Subscribe(name), under the lock.
Subscribe(s) ==
  LET n == sub[s].name IN
  /\ sub[s].state = "new"
  /\ AppendInPlace(s, n) \/ AppendGrow(s, n)
  /\ sub' = [sub EXCEPT ![s].state = "open"]
  /\ churn' = [g \in Goroutines |->
                 IF Notifying(g, n) /\ churn[g] = "closed" THEN "reused" ELSE churn[g]]
  /\ UNCHANGED <<token, call, owed>>

\* Variants of Remove a maintainer might write: keep an empty slice under the key...
RemoveKeepsKey(s, n) ==
  LET h == signals[n] IN
  \E i \in 1 .. h.len :
    /\ heap[h.arr][i] = s
    /\ heap' = [heap EXCEPT ![h.arr] = [@ EXCEPT ![i] = heap[h.arr][h.len]]]
    /\ signals' = [signals EXCEPT ![n] = [arr |-> h.arr, len |-> h.len - 1]]

\* ... shrink without the swap ...
RemoveNoSwap(s, n) ==
  LET h == signals[n] IN
  /\ heap' = heap
  /\ signals' = [signals EXCEPT ![n] =
                   IF h.len # 1 THEN [arr |-> h.arr, len |-> h.len - 1] ELSE NilSlice]

\* ... clear the vacated cell, for the garbage collector ...
RemoveClears(s, n) ==
  LET h == signals[n] IN
  \E i \in 1 .. h.len :
    /\ heap[h.arr][i] = s
    /\ heap' = [heap EXCEPT ![h.arr] = [@ EXCEPT ![i] = heap[h.arr][h.len], ![h.len] = Nil]]
    /\ signals' = [signals EXCEPT ![n] =
                     IF h.len # 1 THEN [arr |-> h.arr, len |-> h.len - 1] ELSE NilSlice]

\* ... or keep the order, shifting the elements after the closed one.
RemoveShifts(s, n) ==
  LET h == signals[n] IN
  \E i \in 1 .. h.len :
    /\ heap[h.arr][i] = s
    /\ heap' = [heap EXCEPT ![h.arr] = [j \in 1 .. Len(@) |->
                   IF j \in i .. h.len - 1 THEN @[j + 1] ELSE @[j]]]
    /\ signals' = [signals EXCEPT ![n] =
                     IF h.len # 1 THEN [arr |-> h.arr, len |-> h.len - 1] ELSE NilSlice]

\* signalBus.close(sub), under the lock: the last element takes the place of
\* the closed one and the slice shrinks; the key goes with the last element.
Remove(s, n) ==
  LET h == signals[n] IN
  \E i \in 1 .. h.len :
    /\ heap[h.arr][i] = s
    /\ IF h.len # 1
       THEN /\ heap' = [heap EXCEPT ![h.arr] = [@ EXCEPT ![i] = heap[h.arr][h.len]]]
            /\ signals' = [signals EXCEPT ![n] = [arr |-> h.arr, len |-> h.len - 1]]
       ELSE /\ heap' = heap
            /\ signals' = [signals EXCEPT ![n] = NilSlice]

\* Subscription.Close: closeOnce lets one call of close through.
Close(s) ==
  LET n == sub[s].name IN
  /\ sub[s].state = "open"
  /\ Remove(s, n)
  /\ sub' = [sub EXCEPT ![s].state = "closed"]
  /\ owed' = [g \in Goroutines |-> owed[g] \ {s}]
  /\ churn' = [g \in Goroutines |->
                 IF Notifying(g, n) /\ churn[g] = "none" THEN "closed" ELSE churn[g]]
  /\ UNCHANGED <<token, call>>

\* Subscription.IsSignaled, or a receive from Signal(): by the subscriber,
\* before it closes the subscription.
Receive(s) ==
  /\ sub[s].state = "open" /\ token[s]
  /\ token' = [token EXCEPT ![s] = FALSE]
  /\ UNCHANGED <<heap, signals, sub, call, owed, churn>>

-----------------------------------------------------------------------------
\* Notify(name) up to RUnlock: result is the header of the shared slice.
NotifyBegin(g, n) ==
  /\ call[g].op = "none"
  /\ call' = [call EXCEPT ![g] = [op |-> "notify", name |-> n, arr |-> signals[n].arr,
                                   len |-> signals[n].len, idx |-> 1, copy |-> {}]]
  /\ owed' = [owed EXCEPT ![g] = OpenOn(n)]
  /\ churn' = [churn EXCEPT ![g] = "none"]
  /\ UNCHANGED <<heap, signals, sub, token>>

\* The non-blocking send to s: a full channel keeps its message.
Send(g, s) ==
  /\ token' = [token EXCEPT ![s] = TRUE]
  /\ owed' = [owed EXCEPT ![g] = @ \ {s}]

\* One iteration of Notify's loop: the cell is read without the lock.
NotifySend(g) ==
  /\ call[g].op = "notify" /\ call[g].idx <= call[g].len
  /\ Send(g, heap[call[g].arr][call[g].idx])
  /\ call' = [call EXCEPT ![g].idx = @ + 1]
  /\ UNCHANGED <<heap, signals, sub, churn>>

\* NotifyAll() up to RUnlock: result is a copy of every slice.
NotifyAllBegin(g) ==
  /\ call[g].op = "none"
  /\ call' = [call EXCEPT ![g] =
       [op |-> "notifyAll", name |-> Nil, arr |-> 0, len |-> 0, idx |-> 1,
        copy |-> UNION {{heap[signals[n].arr][i] : i \in 1 .. signals[n].len} : n \in Names}]]
  /\ owed' = [owed EXCEPT ![g] = Open]
  /\ churn' = [churn EXCEPT ![g] = "none"]
  /\ UNCHANGED <<heap, signals, sub, token>>

\* One iteration of NotifyAll's loop.  The order of the copy is that of a Go
\* map's iteration: any.
NotifyAllSend(g) ==
  /\ call[g].op = "notifyAll"
  /\ \E s \in call[g].copy :
       /\ Send(g, s)
       /\ call' = [call EXCEPT ![g].copy = @ \ {s}]
  /\ UNCHANGED <<heap, signals, sub, churn>>

\* The loop has run out of elements and the call returns.
Return(g) ==
  /\ \/ call[g].op = "notify" /\ call[g].idx > call[g].len
     \/ call[g].op = "notifyAll" /\ call[g].copy = {}
  /\ call' = [call EXCEPT ![g] = NoCall]
  /\ UNCHANGED <<heap, signals, sub, token, owed, churn>>

Next ==
  \/ \E s \in Subs : Subscribe(s) \/ Close(s) \/ Receive(s)
  \/ \E g \in Goroutines :
       \/ \E n \in Names : NotifyBegin(g, n)
       \/ NotifyAllBegin(g)
       \/ NotifySend(g) \/ NotifyAllSend(g) \/ Return(g)

Spec == Init /\ [][Next]_vars

-----------------------------------------------------------------------------
(* Properties.                                                             *)

\* Every variable has its type, every slice lies within its backing array, and
\* the map has no key with an empty slice.
TypeOK ==
  /\ heap \in Seq(Seq(Subs \cup {Nil}))
  /\ signals \in [Names -> Slice]
  /\ \A n \in Names : signals[n] # NilSlice =>
       signals[n].arr \in 1 .. Len(heap) /\ signals[n].len \in 1 .. Len(heap[signals[n].arr])
  /\ sub \in [Subs -> Subscription]
  /\ token \in [Subs -> BOOLEAN]
  /\ call \in [Goroutines -> Call]
  /\ owed \in [Goroutines -> SUBSET Subs]
  /\ churn \in [Goroutines -> {"none", "closed", "reused"}]

\* The in-place appends, swaps and shrinks of Subscribe and close keep each
\* name's slice a list of exactly its open subscriptions, each once: none is
\* lost, none stays behind after its Close, and the last Close frees the key.
RegisteredOnce ==
  \A n \in Names :
    LET cell(i) == heap[signals[n].arr][i] IN
    /\ \A i \in 1 .. signals[n].len : cell(i) \in OpenOn(n)
    /\ \A i, j \in 1 .. signals[n].len : cell(i) = cell(j) => i = j
    /\ \A s \in OpenOn(n) : \E i \in 1 .. signals[n].len : cell(i) = s

\* A Notify that walks a captured slice while others mutate its array never
\* meets a nil pointer (a cell no append has written) nor a subscription of
\* another name.
WalksOwnName ==
  \A g \in Goroutines :
    call[g].op = "notify" =>
      \A i \in call[g].idx .. call[g].len :
        /\ heap[call[g].arr][i] \in Subs
        /\ sub[heap[call[g].arr][i]].name = call[g].name

\* A call that has returned has tried to signal every subscription that was
\* open from its start to its end - unless, for a Notify, one subscription of
\* the name was closed and then another one created while it ran.  (KeepsPromise
\* says so of the calls of SignalPromise.)
NotifyReachesUnlessReused ==
  \A g \in Goroutines :
    call[g].op = "none" /\ churn[g] # "reused" => owed[g] = {}

\* What the interface promises ("Notify will notify all the subscriptions
\* created for the given named signal", signalbus.go:9), whatever the others do
\* meanwhile.  The code does not keep it.
NotifyReachesAll ==
  \A g \in Goroutines : call[g].op = "none" => owed[g] = {}

\* To those who use it the bus is SignalPromise: the slices, and that a Notify
\* walks one while others change it in place, do not show but in what churn says.
Aim == [g \in Goroutines |-> [op |-> call[g].op, name |-> call[g].name,
                              copy |-> call[g].copy]]
Promise == INSTANCE SignalPromise WITH aim <- Aim
KeepsPromise == Promise!Spec
=============================================================================
