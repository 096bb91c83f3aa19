--------------------------- MODULE SignalBusProofs ---------------------------
(***************************************************************************)
(* For any subscriptions, names and goroutines: the slices of the signal   *)
(* bus always list exactly the open subscriptions, and Notify misses one   *)
(* of them only when its name's slice is shrunk and appended to during the *)
(* call.                                                                   *)
(***************************************************************************)
EXTENDS SignalBus, SequenceTheorems, TLAPS

\* Different names never share a backing array.
SlicesDisjoint ==
  \A m, n \in Names :
    signals[m] # NilSlice /\ signals[m].arr = signals[n].arr => m = n

\* The slice a Notify captured stays inside an array that no other name uses and
\* holds subscriptions created for the name only.  While no subscription of the name has
\* been closed, the name's slice is at least as long.
Captured(g) ==
  call[g].op = "notify" =>
    /\ call[g].name \in Names /\ call[g].copy = {}
    /\ call[g].len # 0 =>
         /\ call[g].arr \in 1 .. Len(heap)
         /\ call[g].len \in 1 .. Len(heap[call[g].arr])
         /\ \A m \in Names : signals[m].arr = call[g].arr => m = call[g].name
         /\ churn[g] = "none" /\ signals[call[g].name].arr = call[g].arr =>
              call[g].len <= signals[call[g].name].len
         /\ \A i \in 1 .. call[g].len :
              /\ heap[call[g].arr][i] \in Subs
              /\ sub[heap[call[g].arr][i]].name = call[g].name
              /\ sub[heap[call[g].arr][i]].state # "new"

\* Every subscription a running call still owes a signal is ahead of it.
Ahead(g) ==
  churn[g] # "reused" =>
    /\ call[g].op = "none" => owed[g] = {}
    /\ call[g].op = "notify" =>
         \A s \in owed[g] : \E i \in call[g].idx .. call[g].len : heap[call[g].arr][i] = s
    /\ call[g].op = "notifyAll" => owed[g] \subseteq call[g].copy

\* The inductive invariant.
IInv ==
  /\ TypeOK
  /\ SlicesDisjoint
  /\ RegisteredOnce
  /\ \A g \in Goroutines : Captured(g)
  /\ \A g \in Goroutines : Ahead(g)

-----------------------------------------------------------------------------
\* Writing one cell of one array of the heap.
LEMMA HeapWrite ==
  ASSUME NEW S, NEW h \in Seq(Seq(S)), NEW a \in 1 .. Len(h), NEW i \in 1 .. Len(h[a]), NEW x \in S,
         NEW k, k = [h EXCEPT ![a] = [@ EXCEPT ![i] = x]]
  PROVE  /\ k \in Seq(Seq(S))
         /\ Len(k) = Len(h)
         /\ \A b \in 1 .. Len(h) : Len(k[b]) = Len(h[b])
         /\ \A b \in 1 .. Len(h) : b # a => k[b] = h[b]
         /\ \A j \in 1 .. Len(h[a]) : k[a][j] = IF j = i THEN x ELSE h[a][j]
<1> DEFINE w == [h[a] EXCEPT ![i] = x]
<1>1. h[a] \in Seq(S)
  BY ElementOfSeq
<1>2. /\ w \in Seq(S)
      /\ Len(w) = Len(h[a])
      /\ \A j \in 1 .. Len(h[a]) : w[j] = IF j = i THEN x ELSE h[a][j]
  BY <1>1, ExceptSeq
<1>3. k = [h EXCEPT ![a] = w]
  OBVIOUS
<1> HIDE DEF w
<1>a. h \in Seq(Seq(S)) /\ a \in 1 .. Len(h) /\ w \in Seq(S)
  BY <1>2
<1>w. /\ [h EXCEPT ![a] = w] \in Seq(Seq(S))
      /\ Len([h EXCEPT ![a] = w]) = Len(h)
      /\ \A b \in 1 .. Len(h) : [h EXCEPT ![a] = w][b] = IF b = a THEN w ELSE h[b]
  <2> DEFINE T == Seq(S)
  <2>1. h \in Seq(T) /\ w \in T
    BY <1>a
  <2> HIDE DEF T
  <2>2. /\ [h EXCEPT ![a] = w] \in Seq(T)
        /\ Len([h EXCEPT ![a] = w]) = Len(h)
        /\ \A b \in 1 .. Len(h) : [h EXCEPT ![a] = w][b] = IF b = a THEN w ELSE h[b]
    BY <1>a, <2>1, ExceptSeq
  <2> QED
    BY <2>2 DEF T
<1>4. /\ k \in Seq(Seq(S))
      /\ Len(k) = Len(h)
      /\ \A b \in 1 .. Len(h) : k[b] = IF b = a THEN w ELSE h[b]
  BY <1>3, <1>w, Zenon
<1> QED
  BY <1>2, <1>4

\* Allocating an array: the others keep their address and content.
LEMMA HeapAlloc ==
  ASSUME NEW S, NEW h \in Seq(Seq(S)), NEW c \in Seq(S)
  PROVE  /\ Append(h, c) \in Seq(Seq(S))
         /\ Len(Append(h, c)) = Len(h) + 1
         /\ \A b \in 1 .. Len(h) : Append(h, c)[b] = h[b]
         /\ Append(h, c)[Len(h) + 1] = c
  OBVIOUS

\* The initial states.
LEMMA InitInv == Init => IInv
<1> SUFFICES ASSUME Init PROVE IInv
  OBVIOUS
<1> USE DEF Init
<1>1. TypeOK
  <2>1. heap \in Seq(Seq(Subs \cup {Nil}))
    OBVIOUS
  <2>2. signals \in [Names -> Slice] /\ \A n \in Names : signals[n] = NilSlice
    BY DEF Slice, NilSlice
  <2>3. sub \in [Subs -> Subscription] /\ token \in [Subs -> BOOLEAN]
    BY DEF Subscription
  <2>4. NoCall \in Call
    BY DEF NoCall, Call
  <2> QED
    BY <2>1, <2>2, <2>3, <2>4 DEF TypeOK
<1>2. SlicesDisjoint
  BY DEF SlicesDisjoint
<1>3. RegisteredOnce
  <2>1. \A n \in Names : OpenOn(n) = {} /\ 1 .. signals[n].len = {}
    BY DEF OpenOn, NilSlice
  <2> QED
    BY <2>1 DEF RegisteredOnce
<1>4. \A g \in Goroutines : Captured(g) /\ Ahead(g)
  BY DEF Captured, Ahead, NoCall
<1> QED
  BY <1>1, <1>2, <1>3, <1>4 DEF IInv

-----------------------------------------------------------------------------
\* Subscribe, whether the append happens in place or in a new array.
LEMMA SubscribeInv ==
  ASSUME IInv, NEW s \in Subs, Subscribe(s)
  PROVE  IInv'
<1>d. PICK n, h, A : n = sub[s].name /\ h = signals[n] /\ A = signals'[n].arr
  OBVIOUS
<1> DEFINE Cells == Subs \cup {Nil}
<1>n. n \in Names /\ h \in Slice /\ sub[s].state = "new"
  BY <1>d DEF IInv, TypeOK, Subscription, Subscribe
<1>t. TypeOK /\ SlicesDisjoint /\ RegisteredOnce
  BY DEF IInv
<1>u. /\ sub' = [sub EXCEPT ![s].state = "open"]
      /\ churn' = [g \in Goroutines |->
                     IF Notifying(g, n) /\ churn[g] = "closed" THEN "reused" ELSE churn[g]]
      /\ token' = token /\ call' = call /\ owed' = owed
  BY <1>d DEF Subscribe
\* What both cases have in common.
<1>a. /\ heap' \in Seq(Seq(Cells))
      /\ Len(heap) <= Len(heap')
      /\ \A b \in 1 .. Len(heap) : Len(heap'[b]) = Len(heap[b])
      /\ \A b \in 1 .. Len(heap) : b # A => heap'[b] = heap[b]
      /\ signals' = [signals EXCEPT ![n] = [arr |-> A, len |-> h.len + 1]]
      /\ A \in 1 .. Len(heap') /\ h.len + 1 <= Len(heap'[A])
      /\ \A i \in 1 .. h.len : heap'[A][i] = heap[h.arr][i]
      /\ heap'[A][h.len + 1] = s
      /\ \A m \in Names : signals[m].arr = A => m = n
      /\ A \in 1 .. Len(heap) =>
           A = h.arr /\ \A j \in 1 .. Len(heap[A]) : j # h.len + 1 => heap'[A][j] = heap[A][j]
  <2>1. CASE AppendInPlace(s, n)
    <3>1. /\ h # NilSlice /\ h.len < Len(heap[h.arr])
          /\ heap' = [heap EXCEPT ![h.arr] = [@ EXCEPT ![h.len + 1] = s]]
          /\ signals' = [signals EXCEPT ![n] = [arr |-> h.arr, len |-> h.len + 1]]
      BY <1>d, <2>1 DEF AppendInPlace
    <3>2. /\ heap \in Seq(Seq(Cells)) /\ h.arr \in 1 .. Len(heap)
          /\ h.len + 1 \in 1 .. Len(heap[h.arr]) /\ s \in Cells
          /\ A = h.arr
      BY <1>d, <3>1, <1>n, <1>t DEF TypeOK, Slice
    <3>3. /\ heap' \in Seq(Seq(Cells))
          /\ Len(heap') = Len(heap)
          /\ \A b \in 1 .. Len(heap) : Len(heap'[b]) = Len(heap[b])
          /\ \A b \in 1 .. Len(heap) : b # A => heap'[b] = heap[b]
          /\ \A j \in 1 .. Len(heap[A]) :
               heap'[A][j] = IF j = h.len + 1 THEN s ELSE heap[A][j]
      <4> HIDE DEF Cells
      <4> QED
        BY <3>1, <3>2, HeapWrite
    <3>4. \A m \in Names : signals[m].arr = A => m = n
      BY <1>d, <3>1, <3>2, <1>n, <1>t DEF SlicesDisjoint
    <3>5. h.len \in Nat /\ h.len < Len(heap[A]) /\ Len(heap) \in Nat /\ Len(heap[A]) \in Nat
      BY <3>1, <3>2, <1>n DEF Slice
    <3> HIDE DEF Cells
    <3>6. h.len + 1 \in 1 .. Len(heap[A]) /\ ~ (h.len + 1 <= h.len)
      BY <3>2, <3>5
    <3>7. \A i \in 1 .. h.len : i \in 1 .. Len(heap[A]) /\ i # h.len + 1
      BY <3>5
    <3>8. heap'[A][h.len + 1] = s /\ \A i \in 1 .. h.len : heap'[A][i] = heap[h.arr][i]
      BY <3>2, <3>3, <3>6, <3>7
    <3>9. Len(heap) <= Len(heap') /\ A \in 1 .. Len(heap') /\ h.len + 1 <= Len(heap'[A])
      BY <3>2, <3>3, <3>5
    <3> QED
      BY <3>1, <3>2, <3>3, <3>4, <3>8, <3>9
  <2>2. CASE AppendGrow(s, n)
    <3> DEFINE old == IF h = NilSlice THEN <<>> ELSE heap[h.arr]
               cap == IF h.len = 0 THEN 1 ELSE 2 * h.len
               arr == [i \in 1 .. cap |-> IF i <= h.len THEN old[i]
                                         ELSE IF i = h.len + 1 THEN s ELSE Nil]
    <3>1. /\ h.len = Len(old)
          /\ heap' = Append(heap, arr)
          /\ signals' = [signals EXCEPT ![n] = [arr |-> Len(heap) + 1, len |-> h.len + 1]]
      BY <1>d, <2>2 DEF AppendGrow
    <3>2. heap \in Seq(Seq(Cells)) /\ h.len \in Nat /\ A = Len(heap) + 1 /\ Len(heap) \in Nat
      <4>1. heap \in Seq(Seq(Cells)) /\ n \in DOMAIN signals
        BY <1>n, <1>t DEF TypeOK
      <4>2. h.len \in Nat
        BY <1>n DEF Slice
      <4>3. A = Len(heap) + 1
        BY <1>d, <3>1, <4>1
      <4> QED
        BY <4>1, <4>2, <4>3
    <3>3. old \in Seq(Cells)
      BY <1>d, <3>2, <1>n, <1>t, ElementOfSeq DEF TypeOK
    <3>4. \A i \in 1 .. h.len : old[i] = heap[h.arr][i] /\ old[i] \in Cells
      <4> SUFFICES ASSUME NEW i \in 1 .. h.len PROVE old[i] = heap[h.arr][i] /\ old[i] \in Cells
        OBVIOUS
      <4>1. h # NilSlice
        BY <3>2 DEF NilSlice
      <4> QED
        BY <4>1, <3>1, <3>2, <3>3, ElementOfSeq
    <3>5. cap \in Nat /\ h.len + 1 <= cap
      BY <3>2
    <3>6. arr \in Seq(Cells) /\ Len(arr) = cap
      <4>1. arr \in [1 .. cap -> Cells]
        BY <3>4, <3>5
      <4> HIDE DEF arr, cap, Cells
      <4> QED
        BY <4>1, <3>5
    <3>7. (\A i \in 1 .. h.len : arr[i] = heap[h.arr][i]) /\ arr[h.len + 1] = s
      <4>1. 1 .. h.len \subseteq 1 .. cap /\ h.len + 1 \in 1 .. cap /\ ~ (h.len + 1 <= h.len)
        BY <3>2, <3>5
      <4> HIDE DEF old, cap
      <4>2. \A i \in 1 .. h.len : i <= h.len /\ arr[i] = old[i]
        BY <4>1
      <4>3. arr[h.len + 1] = s
        BY <4>1
      <4> QED
        BY <4>2, <4>3, <3>4
    <3>8. \A m \in Names : signals[m].arr # A
      BY <3>2, <1>t DEF TypeOK, NilSlice
    <3> HIDE DEF Cells, old, cap, arr
    <3>9. /\ Append(heap, arr) \in Seq(Seq(Cells))
          /\ Len(Append(heap, arr)) = Len(heap) + 1
          /\ \A b \in 1 .. Len(heap) : Append(heap, arr)[b] = heap[b]
          /\ Append(heap, arr)[Len(heap) + 1] = arr
      BY <3>2, <3>6, HeapAlloc
    <3>10. A \notin 1 .. Len(heap) /\ A \in 1 .. Len(heap')
      BY <3>1, <3>2, <3>9
    <3> QED
      BY <3>1, <3>2, <3>5, <3>6, <3>7, <3>8, <3>9, <3>10
  <2> QED
    BY <1>d, <2>1, <2>2 DEF Subscribe
\* Arrays only get more, and keep their lengths.
<1>l. Len(heap) \in Nat /\ Len(heap') \in Nat /\ Len(heap) <= Len(heap')
  BY <1>a, <1>t DEF TypeOK
<1>e. \A b \in 1 .. Len(heap) : b \in 1 .. Len(heap') /\ Len(heap'[b]) = Len(heap[b])
  <2>1. \A b \in 1 .. Len(heap) : Len(heap'[b]) = Len(heap[b])
    BY <1>a
  <2> QED
    BY <2>1, <1>l
<1>o. /\ OpenOn(n)' = OpenOn(n) \cup {s} /\ s \notin OpenOn(n)
      /\ \A m \in Names : m # n => OpenOn(m)' = OpenOn(m)
      /\ sub' \in [Subs -> Subscription]
      /\ \A r \in Subs : sub'[r].name = sub[r].name
  BY <1>d, <1>u, <1>n, <1>t DEF OpenOn, TypeOK, Subscription
\* No subscription becomes new again.
<1>q. \A r \in Subs : sub[r].state # "new" \/ r = s => sub'[r].state # "new"
  BY <1>u, <1>t DEF TypeOK, Subscription
<1>1. TypeOK'
  <2>1. signals' \in [Names -> Slice]
    <3>1. signals \in [Names -> Slice] /\ [arr |-> A, len |-> h.len + 1] \in Slice
      <4>1. A \in Nat /\ h.len + 1 \in Nat
        BY <1>a, <1>l, <1>n DEF Slice
      <4> QED
        BY <4>1, <1>t DEF TypeOK, Slice
    <3>2. signals' = [signals EXCEPT ![n] = [arr |-> A, len |-> h.len + 1]]
      BY <1>a
    <3> QED
      BY <3>1, <3>2, <1>n
  <2>2. \A m \in Names : signals'[m] # NilSlice =>
          signals'[m].arr \in 1 .. Len(heap') /\ signals'[m].len \in 1 .. Len(heap'[signals'[m].arr])
    <3> SUFFICES ASSUME NEW m \in Names, signals'[m] # NilSlice
                 PROVE  signals'[m].arr \in 1 .. Len(heap')
                        /\ signals'[m].len \in 1 .. Len(heap'[signals'[m].arr])
      OBVIOUS
    <3>0. heap' \in Seq(Seq(Cells)) /\ heap \in Seq(Seq(Cells))
      BY <1>a, <1>t DEF TypeOK
    <3>1. CASE m = n
      <4>1. signals'[m].arr = A /\ signals'[m].len = h.len + 1 /\ h.len \in Nat
        BY <3>1, <1>a, <1>n, <1>t DEF TypeOK, Slice
      <4>2. Len(heap'[A]) \in Nat
        BY <1>a, <3>0, ElementOfSeq, LenProperties
      <4>3. A \in 1 .. Len(heap') /\ h.len + 1 <= Len(heap'[A])
        BY <1>a
      <4> HIDE DEF Cells
      <4> QED
        BY <4>1, <4>2, <4>3
    <3>2. CASE m # n
      <4>1. signals'[m] = signals[m]
        BY <3>2, <1>a, <1>t DEF TypeOK
      <4>2. signals[m].arr \in 1 .. Len(heap) /\ signals[m].len \in 1 .. Len(heap[signals[m].arr])
        BY <4>1, <1>t DEF TypeOK
      <4> HIDE DEF Cells
      <4> QED
        BY <4>1, <4>2, <1>e
    <3> QED
      BY <3>1, <3>2
  <2>3. churn' \in [Goroutines -> {"none", "closed", "reused"}]
    BY <1>u, <1>t DEF TypeOK
  <2> QED
    BY <2>1, <2>2, <2>3, <1>a, <1>o, <1>u, <1>t DEF TypeOK
<1>2. SlicesDisjoint'
  <2> SUFFICES ASSUME NEW m \in Names, NEW k \in Names,
                      signals'[m] # NilSlice, signals'[m].arr = signals'[k].arr
               PROVE  m = k
    BY DEF SlicesDisjoint
  <2>1. /\ \A i \in Names : i # n => signals'[i] = signals[i]
        /\ signals'[n].arr = A
    BY <1>a, <1>n, <1>t DEF TypeOK
  <2> QED
    BY <2>1, <1>a, <1>t DEF SlicesDisjoint
<1>3. RegisteredOnce'
  <2> SUFFICES ASSUME NEW m \in Names
               PROVE  /\ \A i \in 1 .. signals'[m].len : heap'[signals'[m].arr][i] \in OpenOn(m)'
                      /\ \A i, j \in 1 .. signals'[m].len :
                           heap'[signals'[m].arr][i] = heap'[signals'[m].arr][j] => i = j
                      /\ \A r \in OpenOn(m)' : \E i \in 1 .. signals'[m].len :
                           heap'[signals'[m].arr][i] = r
    BY DEF RegisteredOnce
  <2>0. /\ \A i \in 1 .. signals[m].len : heap[signals[m].arr][i] \in OpenOn(m)
        /\ \A i, j \in 1 .. signals[m].len :
             heap[signals[m].arr][i] = heap[signals[m].arr][j] => i = j
        /\ \A r \in OpenOn(m) : \E i \in 1 .. signals[m].len : heap[signals[m].arr][i] = r
    BY <1>t DEF RegisteredOnce
  <2>1. CASE m = n
    <3>1. signals'[m].arr = A /\ signals'[m].len = h.len + 1 /\ h.len \in Nat
      BY <2>1, <1>a, <1>n, <1>t DEF TypeOK, Slice
    <3>2. \A i \in 1 .. h.len + 1 : i = h.len + 1 \/ i \in 1 .. h.len
      BY <3>1
    <3>3. h.len + 1 \in 1 .. h.len + 1 /\ 1 .. h.len \subseteq 1 .. h.len + 1
      BY <3>1
    <3>4. h = signals[m]
      BY <1>d, <2>1
    <3>5. /\ \A i \in 1 .. h.len : heap'[A][i] = heap[h.arr][i]
          /\ heap'[A][h.len + 1] = s
          /\ OpenOn(m)' = OpenOn(m) \cup {s} /\ s \notin OpenOn(m)
      BY <2>1, <1>a, <1>o
    <3>6. \A i \in 1 .. h.len : heap'[A][i] \in OpenOn(m)
      BY <2>0, <3>4, <3>5
    <3>7. \A i \in 1 .. h.len + 1 : heap'[A][i] \in OpenOn(m)'
      BY <3>2, <3>5, <3>6
    <3>8. \A i, j \in 1 .. h.len + 1 : heap'[A][i] = heap'[A][j] => i = j
      <4> SUFFICES ASSUME NEW i \in 1 .. h.len + 1, NEW j \in 1 .. h.len + 1,
                          heap'[A][i] = heap'[A][j]
                   PROVE  i = j
        OBVIOUS
      <4>1. CASE i \in 1 .. h.len /\ j \in 1 .. h.len
        BY <4>1, <3>4, <3>5, <2>0
      <4>2. CASE i = h.len + 1 \/ j = h.len + 1
        BY <4>2, <3>2, <3>5, <3>6
      <4> QED
        BY <4>1, <4>2, <3>2
    <3>9. \A r \in OpenOn(m)' : \E i \in 1 .. h.len + 1 : heap'[A][i] = r
      BY <2>0, <3>3, <3>4, <3>5
    <3> QED
      BY <3>1, <3>7, <3>8, <3>9
  <2>2. CASE m # n
    <3>1. signals'[m] = signals[m] /\ OpenOn(m)' = OpenOn(m)
      BY <2>2, <1>a, <1>o, <1>t DEF TypeOK
    <3>2. CASE signals[m] = NilSlice
      <4>1. 1 .. signals[m].len = {}
        BY <3>2 DEF NilSlice
      <4> QED
        BY <4>1, <3>1, <2>0
    <3>3. CASE signals[m] # NilSlice
      <4>1. signals[m].arr \in 1 .. Len(heap) /\ signals[m].arr # A
        BY <3>3, <2>2, <1>a, <1>t DEF TypeOK
      <4>2. heap'[signals[m].arr] = heap[signals[m].arr]
        BY <4>1, <1>a
      <4> QED
        BY <4>2, <3>1, <2>0
    <3> QED
      BY <3>2, <3>3
  <2> QED
    BY <2>1, <2>2
<1>4. ASSUME NEW g \in Goroutines PROVE Captured(g)' /\ Ahead(g)'
  <2> DEFINE B == call[g].arr
             L == call[g].len
             N == call[g].name
  <2>0. /\ Captured(g) /\ Ahead(g)
        /\ call' = call /\ owed' = owed
        /\ call[g] \in Call
        /\ churn'[g] = IF Notifying(g, n) /\ churn[g] = "closed" THEN "reused" ELSE churn[g]
        /\ h.len \in Nat /\ signals[n] = h
        /\ signals'[n].arr = A /\ signals'[n].len = h.len + 1
        /\ \A m \in Names : m # n => signals'[m] = signals[m]
    <3>1. signals \in [Names -> Slice] /\ call[g] \in Call /\ h.len \in Nat
      BY <1>n, <1>t DEF TypeOK, Slice
    <3>2. signals' = [signals EXCEPT ![n] = [arr |-> A, len |-> h.len + 1]]
      BY <1>a
    <3>3. Captured(g) /\ Ahead(g)
      BY DEF IInv
    <3> QED
      BY <1>d, <1>u, <1>n, <3>1, <3>2, <3>3
  <2>1. ASSUME call[g].op = "notify", L # 0
        PROVE  /\ N \in Names /\ L \in Nat
               /\ B \in 1 .. Len(heap) /\ L \in 1 .. Len(heap[B])
               /\ B = A => n = N /\ h.arr = B
    BY <2>1, <2>0, <1>a, <1>n DEF Captured, Call
  <2>2. ASSUME call[g].op = "notify", L # 0, churn'[g] # "reused", NEW i \in 1 .. L
        PROVE  heap'[B][i] = heap[B][i]
    <3>1. CASE B # A
      BY <3>1, <2>1, <2>2, <1>a
    <3>2. CASE B = A
      <4>1. n = N /\ h.arr = B
        BY <3>2, <2>1, <2>2
      <4>2. churn[g] # "closed" /\ churn[g] # "reused"
        BY <4>1, <2>0, <2>2 DEF Notifying
      <4>3. churn[g] = "none"
        BY <4>2, <1>t DEF TypeOK
      <4>4. L <= h.len
        BY <4>1, <4>3, <2>0, <2>2 DEF Captured
      <4>5. i \in 1 .. Len(heap[B]) /\ i # h.len + 1
        <5>1. L \in Nat /\ Len(heap[B]) \in Nat /\ L <= Len(heap[B]) /\ h.len \in Nat
          BY <2>0, <2>1, <2>2
        <5> QED
          BY <5>1, <4>4
      <4> QED
        BY <3>2, <4>5, <2>1, <2>2, <1>a
    <3> QED
      BY <3>1, <3>2
  <2>3. Captured(g)'
    <3> SUFFICES ASSUME call[g].op = "notify"
                 PROVE  /\ N \in Names /\ call[g].copy = {}
                        /\ L # 0 =>
                             /\ B \in 1 .. Len(heap')
                             /\ L \in 1 .. Len(heap'[B])
                             /\ \A m \in Names : signals'[m].arr = B => m = N
                             /\ churn'[g] = "none" /\ signals'[N].arr = B => L <= signals'[N].len
                             /\ \A i \in 1 .. L :
                                  /\ heap'[B][i] \in Subs /\ sub'[heap'[B][i]].name = N
                                  /\ sub'[heap'[B][i]].state # "new"
      BY <2>0 DEF Captured
    <3>1. N \in Names /\ call[g].copy = {}
      BY <2>0 DEF Captured
    <3>2. ASSUME L # 0
          PROVE  B \in 1 .. Len(heap') /\ L \in 1 .. Len(heap'[B])
      <4>1. B \in 1 .. Len(heap) /\ L \in 1 .. Len(heap[B])
        BY <3>2, <2>1
      <4> HIDE DEF Cells, B, L, N
      <4> QED
        BY <4>1, <1>e
    <3>3. ASSUME L # 0, NEW m \in Names, signals'[m].arr = B
          PROVE  m = N
      BY <3>3, <2>0, <2>1 DEF Captured
    <3>4. ASSUME L # 0, churn'[g] = "none", signals'[N].arr = B
          PROVE  L <= signals'[N].len
      <4>1. churn[g] = "none"
        BY <3>4, <2>0
      <4>2. CASE N = n
        <5>1. h.arr = B /\ L <= h.len
          BY <4>1, <4>2, <3>4, <2>0, <2>1 DEF Captured
        <5> QED
          BY <5>1, <4>2, <3>4, <2>0, <2>1
      <4>3. CASE N # n
        BY <4>1, <4>3, <3>1, <3>4, <2>0 DEF Captured
      <4> QED
        BY <4>2, <4>3
    <3>5. ASSUME L # 0, NEW i \in 1 .. L
          PROVE  /\ heap'[B][i] \in Subs /\ sub'[heap'[B][i]].name = N
                 /\ sub'[heap'[B][i]].state # "new"
      <4>1. heap[B][i] \in Subs /\ sub[heap[B][i]].name = N /\ sub[heap[B][i]].state # "new"
        BY <3>5, <2>0 DEF Captured
      <4>2. heap'[B][i] = heap[B][i] \/ (heap'[B][i] = s /\ n = N)
        <5>1. CASE B # A
          BY <5>1, <3>5, <2>1, <1>a
        <5>2. CASE B = A
          <6>1. i \in 1 .. Len(heap[A])
            <7>1. L \in Nat /\ Len(heap[B]) \in Nat /\ L <= Len(heap[B])
              BY <3>5, <2>1
            <7> QED
              BY <5>2, <7>1
          <6>2. i # h.len + 1 => heap'[A][i] = heap[A][i]
            BY <5>2, <6>1, <3>5, <2>1, <1>a
          <6> QED
            BY <5>2, <6>2, <3>5, <2>1, <1>a
        <5> QED
          BY <5>1, <5>2
      <4>3. PICK c : c = heap'[B][i]
        OBVIOUS
      <4>4. c \in Subs /\ sub[c].name = N /\ (sub[c].state # "new" \/ c = s)
        BY <1>d, <4>1, <4>2, <4>3
      <4>5. sub'[c].name = N /\ sub'[c].state # "new"
        BY <4>4, <1>o, <1>q
      <4> QED
        BY <4>3, <4>4, <4>5
    <3> QED
      BY <3>1, <3>2, <3>3, <3>4, <3>5
  <2>4. Ahead(g)'
    <3> SUFFICES ASSUME churn'[g] # "reused", call[g].op = "notify", NEW r \in owed[g]
                 PROVE  \E i \in call[g].idx .. L : heap'[B][i] = r
      BY <2>0 DEF Ahead
    <3>1. PICK i \in call[g].idx .. L : heap[B][i] = r
      BY <2>0 DEF Ahead
    <3>2. i \in 1 .. L /\ L # 0
      BY <3>1, <2>0 DEF Call
    <3> QED
      BY <3>1, <3>2, <2>2
  <2> QED
    BY <2>3, <2>4
<1> QED
  BY <1>1, <1>2, <1>3, <1>4 DEF IInv

\* Close: the swap writes only the cell of the closed subscription.
LEMMA CloseInv ==
  ASSUME IInv, NEW s \in Subs, Close(s)
  PROVE  IInv'
<1>d. PICK n, h, A : n = sub[s].name /\ h = signals[n] /\ A = h.arr
  OBVIOUS
<1> DEFINE Cells == Subs \cup {Nil}
<1>t. TypeOK /\ SlicesDisjoint /\ RegisteredOnce
  BY DEF IInv
<1>u. /\ sub' = [sub EXCEPT ![s].state = "closed"]
      /\ owed' = [g \in Goroutines |-> owed[g] \ {s}]
      /\ churn' = [g \in Goroutines |->
                     IF Notifying(g, n) /\ churn[g] = "none" THEN "closed" ELSE churn[g]]
      /\ token' = token /\ call' = call
      /\ sub[s].state = "open"
  BY <1>d DEF Close
<1>n. n \in Names /\ h \in Slice /\ h.len \in Nat
  BY <1>d, <1>t DEF TypeOK, Subscription, Slice
<1>k. PICK k \in 1 .. h.len :
        /\ heap[A][k] = s
        /\ IF h.len # 1
           THEN /\ heap' = [heap EXCEPT ![A] = [@ EXCEPT ![k] = heap[A][h.len]]]
                /\ signals' = [signals EXCEPT ![n] = [arr |-> A, len |-> h.len - 1]]
           ELSE /\ heap' = heap
                /\ signals' = [signals EXCEPT ![n] = NilSlice]
  BY <1>d DEF Close, Remove
<1>h. /\ h # NilSlice /\ A \in 1 .. Len(heap) /\ h.len \in 1 .. Len(heap[A])
      /\ heap \in Seq(Seq(Cells)) /\ Len(heap[A]) \in Nat /\ k \in 1 .. Len(heap[A])
  <2>1. h # NilSlice
    BY <1>k DEF NilSlice
  <2>2. A \in 1 .. Len(heap) /\ h.len \in 1 .. Len(heap[A]) /\ heap \in Seq(Seq(Cells))
    BY <1>d, <2>1, <1>n, <1>t DEF TypeOK
  <2>3. Len(heap[A]) \in Nat
    BY <2>2, ElementOfSeq, LenProperties
  <2>4. k \in 1 .. h.len
    OBVIOUS
  <2> HIDE DEF Cells
  <2>5. k \in 1 .. Len(heap[A])
    BY <2>2, <2>3, <2>4
  <2> QED
    BY <2>1, <2>2, <2>3, <2>5
<1>a. /\ heap' \in Seq(Seq(Cells))
      /\ Len(heap') = Len(heap)
      /\ \A b \in 1 .. Len(heap) : Len(heap'[b]) = Len(heap[b])
      /\ \A b \in 1 .. Len(heap) : b # A => heap'[b] = heap[b]
      /\ \A j \in 1 .. Len(heap[A]) :
           heap'[A][j] = IF j = k /\ h.len # 1 THEN heap[A][h.len] ELSE heap[A][j]
  <2>1. CASE h.len # 1
    <3>1. heap[A][h.len] \in Cells
      BY <1>h, ElementOfSeq
    <3>2. heap' = [heap EXCEPT ![A] = [@ EXCEPT ![k] = heap[A][h.len]]]
      BY <2>1, <1>k
    <3> HIDE DEF Cells
    <3>3. /\ heap' \in Seq(Seq(Cells))
          /\ Len(heap') = Len(heap)
          /\ \A b \in 1 .. Len(heap) : Len(heap'[b]) = Len(heap[b])
          /\ \A b \in 1 .. Len(heap) : b # A => heap'[b] = heap[b]
          /\ \A j \in 1 .. Len(heap[A]) : heap'[A][j] = IF j = k THEN heap[A][h.len] ELSE heap[A][j]
      BY <3>1, <3>2, <1>h, HeapWrite
    <3> QED
      BY <3>3, <2>1
  <2>2. CASE h.len = 1
    BY <2>2, <1>k, <1>h
  <2> QED
    BY <2>1, <2>2
<1>s. /\ \A m \in Names : m # n => signals'[m] = signals[m]
      /\ signals'[n] = IF h.len # 1 THEN [arr |-> A, len |-> h.len - 1] ELSE NilSlice
      /\ signals' \in [Names -> Slice]
  <2>0. A \in Nat /\ h.len \in Nat /\ h.len # 0 /\ signals \in [Names -> Slice] /\ NilSlice \in Slice
    BY <1>h, <1>n, <1>t DEF TypeOK, Slice, NilSlice
  <2>1. CASE h.len # 1
    <3>1. signals' = [signals EXCEPT ![n] = [arr |-> A, len |-> h.len - 1]]
      BY <2>1, <1>k
    <3>2. [arr |-> A, len |-> h.len - 1] \in Slice
      <4>1. h.len - 1 \in Nat
        BY <2>0
      <4> QED
        BY <4>1, <2>0 DEF Slice
    <3> QED
      BY <3>1, <3>2, <2>0, <2>1, <1>n
  <2>2. CASE h.len = 1
    <3>1. signals' = [signals EXCEPT ![n] = NilSlice]
      BY <2>2, <1>k
    <3> QED
      BY <3>1, <2>0, <2>2, <1>n
  <2> QED
    BY <2>1, <2>2
<1>o. /\ OpenOn(n)' = OpenOn(n) \ {s}
      /\ \A m \in Names : m # n => OpenOn(m)' = OpenOn(m)
      /\ sub' \in [Subs -> Subscription]
      /\ \A r \in Subs : sub'[r].name = sub[r].name
  BY <1>d, <1>u, <1>n, <1>t DEF OpenOn, TypeOK, Subscription
\* No subscription becomes new again.
<1>q. \A r \in Subs : sub[r].state # "new" \/ r = s => sub'[r].state # "new"
  BY <1>u, <1>t DEF TypeOK, Subscription
<1>1. TypeOK'
  <2>2. \A m \in Names : signals'[m] # NilSlice =>
          signals'[m].arr \in 1 .. Len(heap') /\ signals'[m].len \in 1 .. Len(heap'[signals'[m].arr])
    <3> SUFFICES ASSUME NEW m \in Names, signals'[m] # NilSlice
                 PROVE  signals'[m].arr \in 1 .. Len(heap')
                        /\ signals'[m].len \in 1 .. Len(heap'[signals'[m].arr])
      OBVIOUS
    <3>1. CASE m = n
      <4>1. signals'[m].arr = A /\ signals'[m].len = h.len - 1 /\ h.len # 1
        BY <3>1, <1>s
      <4>2. Len(heap'[A]) = Len(heap[A]) /\ Len(heap') = Len(heap)
        BY <1>a, <1>h
      <4>3. A \in 1 .. Len(heap) /\ h.len \in 1 .. Len(heap[A])
            /\ h.len \in Nat /\ Len(heap[A]) \in Nat
        BY <1>h, <1>n
      <4> HIDE DEF Cells
      <4> QED
        BY <4>1, <4>2, <4>3
    <3>2. CASE m # n
      <4>1. signals'[m] = signals[m]
        BY <3>2, <1>s
      <4>2. signals[m].arr \in 1 .. Len(heap) /\ signals[m].len \in 1 .. Len(heap[signals[m].arr])
        BY <4>1, <1>t DEF TypeOK
      <4> QED
        BY <4>1, <4>2, <1>a
    <3> QED
      BY <3>1, <3>2
  <2>3. churn' \in [Goroutines -> {"none", "closed", "reused"}]
        /\ owed' \in [Goroutines -> SUBSET Subs]
    BY <1>u, <1>t DEF TypeOK
  <2> QED
    BY <2>2, <2>3, <1>a, <1>s, <1>o, <1>u, <1>t DEF TypeOK
<1>2. SlicesDisjoint'
  <2> SUFFICES ASSUME NEW m \in Names, NEW i \in Names,
                      signals'[m] # NilSlice, signals'[m].arr = signals'[i].arr
               PROVE  m = i
    BY DEF SlicesDisjoint
  <2>1. \A j \in Names : signals'[j].arr = signals[j].arr \/ signals'[j] = NilSlice
    BY <1>d, <1>s
  <2>2. signals'[m].arr # 0
    BY <1>1 DEF TypeOK
  <2>3. signals'[i] # NilSlice
    BY <2>2 DEF NilSlice
  <2>4. signals[m].arr = signals'[m].arr /\ signals[i].arr = signals'[i].arr
    BY <2>1, <2>3
  <2>5. signals[m] # NilSlice
    BY <2>2, <2>4 DEF NilSlice
  <2> QED
    BY <2>4, <2>5, <1>t DEF SlicesDisjoint
<1>3. RegisteredOnce'
  <2> SUFFICES ASSUME NEW m \in Names
               PROVE  /\ \A i \in 1 .. signals'[m].len : heap'[signals'[m].arr][i] \in OpenOn(m)'
                      /\ \A i, j \in 1 .. signals'[m].len :
                           heap'[signals'[m].arr][i] = heap'[signals'[m].arr][j] => i = j
                      /\ \A r \in OpenOn(m)' : \E i \in 1 .. signals'[m].len :
                           heap'[signals'[m].arr][i] = r
    BY DEF RegisteredOnce
  <2>0. /\ \A i \in 1 .. signals[m].len : heap[signals[m].arr][i] \in OpenOn(m)
        /\ \A i, j \in 1 .. signals[m].len :
             heap[signals[m].arr][i] = heap[signals[m].arr][j] => i = j
        /\ \A r \in OpenOn(m) : \E i \in 1 .. signals[m].len : heap[signals[m].arr][i] = r
    BY <1>t DEF RegisteredOnce
  <2>1. CASE m = n /\ h.len # 1
    <3> DEFINE L == h.len - 1
    <3>1. /\ signals'[m].arr = A /\ signals'[m].len = L /\ L \in Nat
          /\ 1 .. L \subseteq 1 .. h.len /\ 1 .. L \subseteq 1 .. Len(heap[A])
          /\ h.len \in 1 .. h.len /\ h.len \notin 1 .. L
          /\ \A i \in 1 .. h.len : i = h.len \/ i \in 1 .. L
      <4>1. signals'[m].arr = A /\ signals'[m].len = L
        BY <2>1, <1>s
      <4>2. h.len \in Nat /\ h.len # 0 /\ Len(heap[A]) \in Nat /\ h.len <= Len(heap[A])
        BY <1>h, <1>n
      <4>3. L \in Nat /\ L + 1 = h.len
        BY <4>2
      <4> HIDE DEF L
      <4> QED
        BY <4>1, <4>2, <4>3
    <3>2. /\ \A i \in 1 .. h.len : heap[A][i] \in OpenOn(m)
          /\ \A i, j \in 1 .. h.len : heap[A][i] = heap[A][j] => i = j
          /\ \A r \in OpenOn(m) : \E i \in 1 .. h.len : heap[A][i] = r
      BY <1>d, <2>0, <2>1
    <3>3. \A j \in 1 .. L : heap'[A][j] = IF j = k THEN heap[A][h.len] ELSE heap[A][j]
      BY <3>1, <1>a, <2>1
    <3>4. OpenOn(m)' = OpenOn(m) \ {s} /\ heap[A][k] = s /\ k \in 1 .. h.len
      BY <2>1, <1>o, <1>k
    <3> HIDE DEF L
    <3>5. \A i \in 1 .. L : i \in 1 .. h.len /\ i # h.len
      BY <3>1
    <3>6. ASSUME NEW i \in 1 .. L
          PROVE  heap'[A][i] \in OpenOn(m)'
      <4>1. CASE i = k
        BY <4>1, <3>1, <3>2, <3>3, <3>4, <3>5
      <4>2. CASE i # k
        BY <4>2, <3>2, <3>3, <3>4, <3>5
      <4> QED
        BY <4>1, <4>2
    <3>7. ASSUME NEW i \in 1 .. L, NEW j \in 1 .. L, heap'[A][i] = heap'[A][j]
          PROVE  i = j
      <4>1. CASE i # k /\ j # k
        BY <4>1, <3>7, <3>2, <3>3, <3>5
      <4>2. CASE i = k /\ j # k
        <5>1. heap[A][h.len] = heap[A][j]
          BY <4>2, <3>7, <3>3
        <5> QED
          BY <5>1, <3>1, <3>2, <3>5
      <4>3. CASE i # k /\ j = k
        <5>1. heap[A][i] = heap[A][h.len]
          BY <4>3, <3>7, <3>3
        <5> QED
          BY <5>1, <3>1, <3>2, <3>5
      <4> QED
        BY <4>1, <4>2, <4>3
    <3>8. \A r \in OpenOn(m)' : \E i \in 1 .. L : heap'[A][i] = r
      <4> SUFFICES ASSUME NEW r \in OpenOn(m)' PROVE \E i \in 1 .. L : heap'[A][i] = r
        OBVIOUS
      <4>1. PICK i \in 1 .. h.len : heap[A][i] = r
        BY <3>2, <3>4
      <4>2. i # k
        BY <4>1, <3>4
      <4>3. CASE i = h.len
        <5>1. k \in 1 .. L
          BY <4>2, <4>3, <3>1, <3>4
        <5> QED
          BY <5>1, <4>1, <4>3, <3>3
      <4>4. CASE i \in 1 .. L
        BY <4>1, <4>2, <4>4, <3>3
      <4> QED
        BY <4>3, <4>4, <3>1
    <3> QED
      BY <3>1, <3>6, <3>7, <3>8
  <2>2. CASE m = n /\ h.len = 1
    <3>1. 1 .. signals'[m].len = {}
      BY <2>2, <1>s DEF NilSlice
    <3>2. OpenOn(m)' = {}
      <4>1. \A r \in OpenOn(n) : r = s
        <5> SUFFICES ASSUME NEW r \in OpenOn(n) PROVE r = s
          OBVIOUS
        <5>1. PICK i \in 1 .. h.len : heap[A][i] = r
          BY <1>d, <2>0, <2>2
        <5> QED
          BY <5>1, <2>2, <1>k
      <4> QED
        BY <4>1, <2>2, <1>o
    <3> QED
      BY <3>1, <3>2
  <2>3. CASE m # n
    <3>1. signals'[m] = signals[m] /\ OpenOn(m)' = OpenOn(m)
      BY <2>3, <1>s, <1>o
    <3>2. CASE signals[m] = NilSlice
      <4>1. 1 .. signals[m].len = {}
        BY <3>2 DEF NilSlice
      <4> QED
        BY <4>1, <3>1, <2>0
    <3>3. CASE signals[m] # NilSlice
      <4>1. signals[m].arr \in 1 .. Len(heap) /\ signals[m].arr # A
        BY <1>d, <3>3, <2>3, <1>n, <1>t DEF TypeOK, SlicesDisjoint
      <4>2. heap'[signals[m].arr] = heap[signals[m].arr]
        BY <4>1, <1>a
      <4> QED
        BY <4>2, <3>1, <2>0
    <3> QED
      BY <3>2, <3>3
  <2> QED
    BY <2>1, <2>2, <2>3
<1>4. ASSUME NEW g \in Goroutines PROVE Captured(g)' /\ Ahead(g)'
  <2> DEFINE B == call[g].arr
             L == call[g].len
             N == call[g].name
  <2>0. /\ Captured(g) /\ Ahead(g)
        /\ call' = call /\ owed'[g] = owed[g] \ {s}
        /\ call[g] \in Call
        /\ churn'[g] = IF Notifying(g, n) /\ churn[g] = "none" THEN "closed" ELSE churn[g]
    BY <1>u, <1>t DEF IInv, TypeOK
  \* A cell of the captured slice keeps its subscription, unless it held s;
  \* then it gets another subscription of the same name.
  <2>1. ASSUME call[g].op = "notify", L # 0, NEW i \in 1 .. L
        PROVE  /\ heap[B][i] # s => heap'[B][i] = heap[B][i]
               /\ heap'[B][i] = heap[B][i] \/ (N = n /\ heap'[B][i] \in OpenOn(n))
    <3>0. /\ N \in Names /\ B \in 1 .. Len(heap) /\ L \in 1 .. Len(heap[B])
          /\ \A m \in Names : signals[m].arr = B => m = N
      BY <2>0, <2>1 DEF Captured
    <3>1. CASE B # A
      BY <3>0, <3>1, <1>a
    <3>2. CASE B = A
      <4>1. i \in 1 .. Len(heap[A]) /\ N = n
        <5>1. signals[n].arr = B /\ n \in Names
          BY <1>d, <3>2, <1>n
        <5>2. L \in 1 .. Len(heap[A]) /\ Len(heap[A]) \in Nat
          BY <3>0, <3>2, <1>h
        <5>3. i \in 1 .. L
          BY <2>1
        <5> HIDE DEF B, L, N
        <5> QED
          BY <5>1, <5>2, <5>3, <3>0
      <4>2. heap[A][h.len] \in OpenOn(n)
        <5>1. h.len \in 1 .. h.len
          BY <1>h
        <5> QED
          BY <1>d, <5>1, <1>n, <1>t DEF RegisteredOnce
      <4> QED
        BY <4>1, <4>2, <3>2, <1>a, <1>k
    <3> QED
      BY <3>1, <3>2
  <2>3. Captured(g)'
    <3> SUFFICES ASSUME call[g].op = "notify"
                 PROVE  /\ N \in Names /\ call[g].copy = {}
                        /\ L # 0 =>
                             /\ B \in 1 .. Len(heap')
                             /\ L \in 1 .. Len(heap'[B])
                             /\ \A m \in Names : signals'[m].arr = B => m = N
                             /\ churn'[g] = "none" /\ signals'[N].arr = B => L <= signals'[N].len
                             /\ \A i \in 1 .. L :
                                  /\ heap'[B][i] \in Subs /\ sub'[heap'[B][i]].name = N
                                  /\ sub'[heap'[B][i]].state # "new"
      BY <2>0 DEF Captured
    <3>1. N \in Names /\ call[g].copy = {}
      BY <2>0 DEF Captured
    <3>2. ASSUME L # 0
          PROVE  B \in 1 .. Len(heap) /\ B \in 1 .. Len(heap') /\ L \in 1 .. Len(heap'[B])
      BY <3>2, <2>0, <1>a DEF Captured
    <3>3. ASSUME L # 0, NEW m \in Names, signals'[m].arr = B
          PROVE  m = N
      <4>1. B # 0
        BY <3>2, <3>3
      <4>2. signals[m].arr = B
        BY <1>d, <4>1, <3>3, <1>s DEF NilSlice
      <4> QED
        BY <4>2, <3>3, <2>0 DEF Captured
    <3>4. ASSUME L # 0, churn'[g] = "none", signals'[N].arr = B
          PROVE  L <= signals'[N].len
      <4>1. churn[g] = "none" /\ N # n
        BY <3>4, <2>0 DEF Notifying
      <4> QED
        BY <4>1, <3>1, <3>4, <2>0, <1>s DEF Captured
    <3>5. ASSUME L # 0, NEW i \in 1 .. L
          PROVE  /\ heap'[B][i] \in Subs /\ sub'[heap'[B][i]].name = N
                 /\ sub'[heap'[B][i]].state # "new"
      <4>1. heap[B][i] \in Subs /\ sub[heap[B][i]].name = N /\ sub[heap[B][i]].state # "new"
        BY <3>5, <2>0 DEF Captured
      <4>2. heap'[B][i] \in Subs /\ sub[heap'[B][i]].name = N /\ sub[heap'[B][i]].state # "new"
        BY <4>1, <3>5, <2>1 DEF OpenOn
      <4>3. PICK c : c = heap'[B][i]
        OBVIOUS
      <4>4. sub'[c].name = N /\ sub'[c].state # "new"
        BY <4>2, <4>3, <1>o, <1>q
      <4> QED
        BY <4>2, <4>3, <4>4
    <3> QED
      BY <3>1, <3>2, <3>3, <3>4, <3>5
  <2>4. Ahead(g)'
    <3>0. churn'[g] # "reused" => churn[g] # "reused"
      BY <2>0
    <3>1. ASSUME churn'[g] # "reused", call[g].op = "notify", NEW r \in owed[g] \ {s}
          PROVE  \E i \in call[g].idx .. L : heap'[B][i] = r
      <4>1. PICK i \in call[g].idx .. L : heap[B][i] = r
        BY <3>0, <3>1, <2>0 DEF Ahead
      <4>2. i \in 1 .. L /\ L # 0 /\ heap[B][i] # s
        BY <4>1, <2>0 DEF Call
      <4> QED
        BY <4>1, <4>2, <3>1, <2>1
    <3> QED
      BY <3>0, <3>1, <2>0 DEF Ahead
  <2> QED
    BY <2>3, <2>4
<1> QED
  BY <1>1, <1>2, <1>3, <1>4 DEF IInv

-----------------------------------------------------------------------------
\* The steps that leave the slices and the subscriptions alone preserve what is
\* said of them.
LEMMA SliceFrame ==
  ASSUME SlicesDisjoint, RegisteredOnce, UNCHANGED <<heap, signals, sub>>
  PROVE  SlicesDisjoint' /\ RegisteredOnce'
<1>1. \A n \in Names : OpenOn(n)' = OpenOn(n)
  BY DEF OpenOn
<1> QED
  BY <1>1 DEF SlicesDisjoint, RegisteredOnce

\* Receive.
LEMMA ReceiveInv ==
  ASSUME IInv, NEW s \in Subs, Receive(s)
  PROVE  IInv'
<1>1. /\ UNCHANGED <<heap, signals, sub, call, owed, churn>>
      /\ token' = [token EXCEPT ![s] = FALSE]
  BY DEF Receive
<1>2. TypeOK'
  BY <1>1 DEF IInv, TypeOK
<1>3. SlicesDisjoint' /\ RegisteredOnce'
  BY <1>1, SliceFrame DEF IInv
<1>4. \A g \in Goroutines : Captured(g)' /\ Ahead(g)'
  BY <1>1 DEF IInv, Captured, Ahead
<1> QED
  BY <1>2, <1>3, <1>4 DEF IInv

\* Another goroutine's call and history are left alone.
LEMMA CallFrame ==
  ASSUME NEW g \in Goroutines, Captured(g), Ahead(g), UNCHANGED <<heap, signals, sub>>,
         call'[g] = call[g], owed'[g] = owed[g], churn'[g] = churn[g]
  PROVE  Captured(g)' /\ Ahead(g)'
BY DEF Captured, Ahead

\* Notify captures the header of the name's slice.
LEMMA NotifyBeginInv ==
  ASSUME IInv, NEW g \in Goroutines, NEW n \in Names, NotifyBegin(g, n)
  PROVE  IInv'
<1> DEFINE c == [op |-> "notify", name |-> n, arr |-> signals[n].arr,
                 len |-> signals[n].len, idx |-> 1, copy |-> {}]
<1>t. TypeOK /\ SlicesDisjoint /\ RegisteredOnce
  BY DEF IInv
<1>1. /\ UNCHANGED <<heap, signals, sub, token>>
      /\ call' = [call EXCEPT ![g] = c]
      /\ owed' = [owed EXCEPT ![g] = OpenOn(n)]
      /\ churn' = [churn EXCEPT ![g] = "none"]
  BY DEF NotifyBegin
<1>2. /\ c.op = "notify" /\ c.name = n /\ c.idx = 1
      /\ c.arr = signals[n].arr /\ c.len = signals[n].len
      /\ c \in Call /\ OpenOn(n) \subseteq Subs
  BY <1>t DEF Call, TypeOK, Slice, OpenOn
<1> HIDE DEF c
<1>3. TypeOK'
  BY <1>1, <1>2, <1>t DEF TypeOK
<1>4. SlicesDisjoint' /\ RegisteredOnce'
  BY <1>1, <1>t, SliceFrame
<1>5. ASSUME NEW f \in Goroutines PROVE Captured(f)' /\ Ahead(f)'
  <2>1. CASE f # g
    <3>1. call'[f] = call[f] /\ owed'[f] = owed[f] /\ churn'[f] = churn[f]
      BY <2>1, <1>1, <1>t DEF TypeOK
    <3> QED
      BY <3>1, <1>1, CallFrame DEF IInv
  <2>2. CASE f = g
    <3>1. call'[f] = c /\ owed'[f] = OpenOn(n) /\ churn'[f] = "none"
      BY <2>2, <1>1, <1>t DEF TypeOK
    <3>2. ASSUME c.len # 0
          PROVE  /\ c.arr \in 1 .. Len(heap) /\ c.len \in 1 .. Len(heap[c.arr])
                 /\ \A m \in Names : signals[m].arr = c.arr => m = n
                 /\ c.len <= signals[n].len
                 /\ \A i \in 1 .. c.len : heap[c.arr][i] \in OpenOn(n)
      <4>1. signals[n] # NilSlice /\ signals[n].len \in Nat
        BY <3>2, <1>2, <1>t DEF NilSlice, TypeOK, Slice
      <4>2. \A m \in Names : signals[m].arr = c.arr => m = n
        BY <4>1, <1>2, <1>t DEF SlicesDisjoint
      <4> QED
        BY <4>1, <4>2, <1>2, <1>t DEF TypeOK, RegisteredOnce
    <3>3. Captured(f)'
      <4>1. c.copy = {}
        BY DEF c
      <4>2. \A s \in OpenOn(n) : s \in Subs /\ sub[s].name = n /\ sub[s].state # "new"
        BY DEF OpenOn
      <4> QED
        BY <3>1, <3>2, <4>1, <4>2, <1>1, <1>2 DEF Captured
    <3>4. \A s \in OpenOn(n) : \E i \in c.idx .. c.len : heap[c.arr][i] = s
      BY <1>2, <1>t DEF RegisteredOnce
    <3>5. Ahead(f)'
      BY <3>1, <3>4, <1>1, <1>2 DEF Ahead
    <3> QED
      BY <3>3, <3>5
  <2> QED
    BY <2>1, <2>2
<1> QED
  BY <1>3, <1>4, <1>5 DEF IInv

\* One send of a Notify: the one subscription it stops owing is the one it reads.
LEMMA NotifySendInv ==
  ASSUME IInv, NEW g \in Goroutines, NotifySend(g)
  PROVE  IInv'
<1> DEFINE s == heap[call[g].arr][call[g].idx]
<1>t. TypeOK /\ SlicesDisjoint /\ RegisteredOnce
  BY DEF IInv
<1>1. /\ UNCHANGED <<heap, signals, sub, churn>>
      /\ call[g].op = "notify" /\ call[g].idx <= call[g].len
      /\ call' = [call EXCEPT ![g].idx = @ + 1]
      /\ owed' = [owed EXCEPT ![g] = @ \ {s}]
      /\ token' = [token EXCEPT ![s] = TRUE]
  BY DEF NotifySend, Send
<1>2. call[g] \in Call /\ call[g].idx \in Nat \ {0} /\ call[g].len \in Nat
  BY <1>t DEF TypeOK, Call
<1>3. /\ call'[g].op = "notify" /\ call'[g].name = call[g].name /\ call'[g].arr = call[g].arr
      /\ call'[g].len = call[g].len /\ call'[g].idx = call[g].idx + 1
      /\ call' \in [Goroutines -> Call]
  <2> DEFINE c == call[g]
             d == [c EXCEPT !.idx = @ + 1]
  <2>1. c = [op |-> c.op, name |-> c.name, arr |-> c.arr, len |-> c.len,
             idx |-> c.idx, copy |-> c.copy]
    BY <1>2 DEF Call
  <2>2. d = [op |-> c.op, name |-> c.name, arr |-> c.arr, len |-> c.len,
             idx |-> c.idx + 1, copy |-> c.copy]
    BY <2>1
  <2>3. d \in Call
    BY <1>2, <2>2 DEF Call
  <2>4. call' = [call EXCEPT ![g] = d]
    BY <1>1
  <2> HIDE DEF d
  <2>5. call'[g] = d /\ call' \in [Goroutines -> Call]
    BY <2>3, <2>4, <1>t DEF TypeOK
  <2> QED
    BY <2>2, <2>5, <1>1
<1>4. TypeOK'
  BY <1>1, <1>3, <1>t DEF TypeOK
<1>5. SlicesDisjoint' /\ RegisteredOnce'
  BY <1>1, <1>t, SliceFrame
<1>6. ASSUME NEW f \in Goroutines PROVE Captured(f)' /\ Ahead(f)'
  <2>1. CASE f # g
    <3>1. call'[f] = call[f] /\ owed'[f] = owed[f] /\ churn'[f] = churn[f]
      BY <2>1, <1>1, <1>t DEF TypeOK
    <3> QED
      BY <3>1, <1>1, CallFrame DEF IInv
  <2>2. CASE f = g
    <3>1. Captured(f)'
      BY <2>2, <1>1, <1>3 DEF IInv, Captured
    <3>2. owed'[g] = owed[g] \ {s}
      BY <1>1, <1>t DEF TypeOK
    <3>3. ASSUME churn[g] # "reused", NEW r \in owed[g] \ {s}
          PROVE  \E i \in call[g].idx + 1 .. call[g].len : heap[call[g].arr][i] = r
      <4>1. PICK i \in call[g].idx .. call[g].len : heap[call[g].arr][i] = r
        BY <3>3, <1>1 DEF IInv, Ahead
      <4>2. i # call[g].idx
        BY <4>1, <3>3
      <4>3. i \in call[g].idx + 1 .. call[g].len
        BY <4>2, <1>2
      <4> QED
        BY <4>1, <4>3
    <3>4. Ahead(f)'
      BY <2>2, <3>2, <3>3, <1>1, <1>3 DEF Ahead
    <3> QED
      BY <3>1, <3>4
  <2> QED
    BY <2>1, <2>2
<1> QED
  BY <1>4, <1>5, <1>6 DEF IInv

\* NotifyAll copies every slice: its copy is the set of open subscriptions.
LEMMA NotifyAllBeginInv ==
  ASSUME IInv, NEW g \in Goroutines, NotifyAllBegin(g)
  PROVE  IInv'
<1> DEFINE copy == UNION {{heap[signals[n].arr][i] : i \in 1 .. signals[n].len} : n \in Names}
           c == [op |-> "notifyAll", name |-> Nil, arr |-> 0, len |-> 0, idx |-> 1, copy |-> copy]
<1>t. TypeOK /\ SlicesDisjoint /\ RegisteredOnce
  BY DEF IInv
<1>1. /\ UNCHANGED <<heap, signals, sub, token>>
      /\ call' = [call EXCEPT ![g] = c]
      /\ owed' = [owed EXCEPT ![g] = Open]
      /\ churn' = [churn EXCEPT ![g] = "none"]
  BY DEF NotifyAllBegin
<1>2. copy \subseteq Subs
  <2> SUFFICES ASSUME NEW n \in Names, NEW i \in 1 .. signals[n].len
               PROVE  heap[signals[n].arr][i] \in Subs
    OBVIOUS
  <2>1. heap[signals[n].arr][i] \in OpenOn(n)
    BY <1>t DEF RegisteredOnce
  <2> QED
    BY <2>1 DEF OpenOn
<1>3. Open \subseteq copy
  <2> SUFFICES ASSUME NEW s \in Open PROVE s \in copy
    OBVIOUS
  <2>1. sub[s].name \in Names /\ s \in OpenOn(sub[s].name)
    BY <1>t DEF Open, OpenOn, TypeOK, Subscription
  <2>2. PICK i \in 1 .. signals[sub[s].name].len : heap[signals[sub[s].name].arr][i] = s
    BY <2>1, <1>t DEF RegisteredOnce
  <2> QED
    BY <2>1, <2>2
<1> HIDE DEF copy
<1>4. c \in Call /\ c.op = "notifyAll" /\ c.copy = copy
  BY <1>2 DEF Call
<1> HIDE DEF c
<1>5. TypeOK'
  BY <1>1, <1>4, <1>t DEF TypeOK, Open
<1>6. SlicesDisjoint' /\ RegisteredOnce'
  BY <1>1, <1>t, SliceFrame
<1>7. ASSUME NEW f \in Goroutines PROVE Captured(f)' /\ Ahead(f)'
  <2>1. CASE f # g
    <3>1. call'[f] = call[f] /\ owed'[f] = owed[f] /\ churn'[f] = churn[f]
      BY <2>1, <1>1, <1>t DEF TypeOK
    <3> QED
      BY <3>1, <1>1, CallFrame DEF IInv
  <2>2. CASE f = g
    <3>1. call'[f] = c /\ owed'[f] = Open
      BY <2>2, <1>1, <1>t DEF TypeOK
    <3> QED
      BY <3>1, <1>3, <1>4 DEF Captured, Ahead
  <2> QED
    BY <2>1, <2>2
<1> QED
  BY <1>5, <1>6, <1>7 DEF IInv

\* One send of a NotifyAll.
LEMMA NotifyAllSendInv ==
  ASSUME IInv, NEW g \in Goroutines, NotifyAllSend(g)
  PROVE  IInv'
<1>t. TypeOK /\ SlicesDisjoint /\ RegisteredOnce
  BY DEF IInv
<1>1. PICK s \in call[g].copy :
        /\ UNCHANGED <<heap, signals, sub, churn>>
        /\ call[g].op = "notifyAll"
        /\ call' = [call EXCEPT ![g].copy = @ \ {s}]
        /\ owed' = [owed EXCEPT ![g] = @ \ {s}]
        /\ token' = [token EXCEPT ![s] = TRUE]
  BY DEF NotifyAllSend, Send
<1>2. /\ call'[g].op = "notifyAll" /\ call'[g].copy = call[g].copy \ {s}
      /\ call' \in [Goroutines -> Call]
  <2> DEFINE c == call[g]
             d == [c EXCEPT !.copy = @ \ {s}]
  <2>1. c \in Call
    BY <1>t DEF TypeOK
  <2>2. c = [op |-> c.op, name |-> c.name, arr |-> c.arr, len |-> c.len,
             idx |-> c.idx, copy |-> c.copy]
    BY <2>1 DEF Call
  <2>3. d = [op |-> c.op, name |-> c.name, arr |-> c.arr, len |-> c.len,
             idx |-> c.idx, copy |-> c.copy \ {s}]
    BY <2>2
  <2>4. d \in Call
    BY <2>1, <2>3 DEF Call
  <2>5. call' = [call EXCEPT ![g] = d]
    BY <1>1
  <2> HIDE DEF d
  <2>6. call'[g] = d /\ call' \in [Goroutines -> Call]
    BY <2>4, <2>5, <1>t DEF TypeOK
  <2> QED
    BY <2>3, <2>6, <1>1
<1>3. TypeOK'
  BY <1>1, <1>2, <1>t DEF TypeOK
<1>4. SlicesDisjoint' /\ RegisteredOnce'
  BY <1>1, <1>t, SliceFrame
<1>5. ASSUME NEW f \in Goroutines PROVE Captured(f)' /\ Ahead(f)'
  <2>1. CASE f # g
    <3>1. call'[f] = call[f] /\ owed'[f] = owed[f] /\ churn'[f] = churn[f]
      BY <2>1, <1>1, <1>t DEF TypeOK
    <3> QED
      BY <3>1, <1>1, CallFrame DEF IInv
  <2>2. CASE f = g
    <3>1. owed'[g] = owed[g] \ {s}
      BY <1>1, <1>t DEF TypeOK
    <3> QED
      BY <2>2, <3>1, <1>1, <1>2 DEF IInv, Captured, Ahead
  <2> QED
    BY <2>1, <2>2
<1> QED
  BY <1>3, <1>4, <1>5 DEF IInv

\* The return: nothing is ahead any more, so nothing is owed.
LEMMA ReturnInv ==
  ASSUME IInv, NEW g \in Goroutines, Return(g)
  PROVE  IInv'
<1>t. TypeOK /\ SlicesDisjoint /\ RegisteredOnce
  BY DEF IInv
<1>1. /\ UNCHANGED <<heap, signals, sub, token, owed, churn>>
      /\ call' = [call EXCEPT ![g] = NoCall]
      /\ \/ call[g].op = "notify" /\ call[g].idx > call[g].len
         \/ call[g].op = "notifyAll" /\ call[g].copy = {}
  BY DEF Return
<1>2. NoCall \in Call /\ NoCall.op = "none"
  BY DEF NoCall, Call
<1>3. TypeOK'
  BY <1>1, <1>2, <1>t DEF TypeOK
<1>4. SlicesDisjoint' /\ RegisteredOnce'
  BY <1>1, <1>t, SliceFrame
<1>5. ASSUME NEW f \in Goroutines PROVE Captured(f)' /\ Ahead(f)'
  <2>1. CASE f # g
    <3>1. call'[f] = call[f] /\ owed'[f] = owed[f] /\ churn'[f] = churn[f]
      BY <2>1, <1>1, <1>t DEF TypeOK
    <3> QED
      BY <3>1, <1>1, CallFrame DEF IInv
  <2>2. CASE f = g
    <3>1. call'[f] = NoCall
      BY <2>2, <1>1, <1>t DEF TypeOK
    <3>2. churn[g] # "reused" => owed[g] = {}
      <4>1. call[g].idx \in Nat /\ call[g].len \in Nat
        BY <1>t DEF TypeOK, Call
      <4>2. call[g].idx > call[g].len => call[g].idx .. call[g].len = {}
        BY <4>1
      <4>3. owed[g] \subseteq Subs
        BY <1>t DEF TypeOK
      <4> QED
        BY <4>2, <4>3, <1>1 DEF IInv, Ahead
    <3> QED
      BY <2>2, <3>1, <3>2, <1>1, <1>2 DEF Captured, Ahead
  <2> QED
    BY <2>1, <2>2
<1> QED
  BY <1>3, <1>4, <1>5 DEF IInv

\* Every step preserves the invariant.
LEMMA NextInv == IInv /\ [Next]_vars => IInv'
<1> SUFFICES ASSUME IInv, [Next]_vars PROVE IInv'
  OBVIOUS
<1>1. ASSUME NEW s \in Subs, Subscribe(s) \/ Close(s) \/ Receive(s) PROVE IInv'
  BY <1>1, SubscribeInv, CloseInv, ReceiveInv
<1>2. ASSUME NEW g \in Goroutines, NEW n \in Names, NotifyBegin(g, n) PROVE IInv'
  BY <1>2, NotifyBeginInv
<1>3. ASSUME NEW g \in Goroutines,
             NotifyAllBegin(g) \/ NotifySend(g) \/ NotifyAllSend(g) \/ Return(g)
      PROVE  IInv'
  BY <1>3, NotifyAllBeginInv, NotifySendInv, NotifyAllSendInv, ReturnInv
<1>4. CASE UNCHANGED vars
  <2>1. UNCHANGED <<heap, signals, sub, token, call, owed, churn>>
    BY <1>4 DEF vars
  <2>2. TypeOK'
    BY <2>1 DEF IInv, TypeOK
  <2>3. SlicesDisjoint' /\ RegisteredOnce'
    BY <2>1, SliceFrame DEF IInv
  <2>4. \A g \in Goroutines : Captured(g)' /\ Ahead(g)'
    BY <2>1 DEF IInv, Captured, Ahead
  <2> QED
    BY <2>2, <2>3, <2>4 DEF IInv
<1> QED
  BY <1>1, <1>2, <1>3, <1>4 DEF Next

-----------------------------------------------------------------------------
\* The invariant holds in every reachable state.
THEOREM Invariance == Spec => []IInv
<1>1. Init => IInv
  BY InitInv
<1>2. IInv /\ [Next]_vars => IInv'
  BY NextInv
<1> QED
  BY <1>1, <1>2, PTL DEF Spec

\* Type correctness, with every slice inside its backing array.
THEOREM TypeCorrect == Spec => []TypeOK
<1>1. IInv => TypeOK
  BY DEF IInv
<1> QED
  BY <1>1, Invariance, PTL

\* Subscribe and close keep each name's slice a duplicate-free list of exactly its
\* open subscriptions (signalbus.go:62-94).
THEOREM SlicesListOpenSubscriptions == Spec => []RegisteredOnce
<1>1. IInv => RegisteredOnce
  BY DEF IInv
<1> QED
  BY <1>1, Invariance, PTL

\* A Notify never meets a nil pointer or another name's subscription in the shared
\* array it walks without the lock (signalbus.go:38-43).
THEOREM NotifyStaysInItsName == Spec => []WalksOwnName
<1>1. IInv => WalksOwnName
  <2> SUFFICES ASSUME IInv, NEW g \in Goroutines, call[g].op = "notify",
                      NEW i \in call[g].idx .. call[g].len
               PROVE  /\ heap[call[g].arr][i] \in Subs
                      /\ sub[heap[call[g].arr][i]].name = call[g].name
    BY DEF WalksOwnName
  <2>1. call[g].idx \in Nat \ {0} /\ call[g].len \in Nat
    BY DEF IInv, TypeOK, Call
  <2>2. call[g].len # 0 /\ i \in 1 .. call[g].len
    BY <2>1
  <2> QED
    BY <2>2 DEF IInv, Captured
<1> QED
  BY <1>1, Invariance, PTL

\* A returned Notify or NotifyAll owes no signal, unless the name's slice was
\* shrunk by a close and appended to during a Notify (signalbus.go:32-59).
THEOREM NotifyReaches == Spec => []NotifyReachesUnlessReused
<1>1. IInv => NotifyReachesUnlessReused
  BY DEF IInv, NotifyReachesUnlessReused, Ahead
<1> QED
  BY <1>1, Invariance, PTL

-----------------------------------------------------------------------------
\* Every step of the bus is a step of SignalPromise, or leaves it alone.
PromiseStep == [Promise!Next]_(Promise!vars)

\* What the promise sees of a goroutine's call.
LEMMA AimOf ==
  ASSUME NEW g \in Goroutines
  PROVE  /\ Aim[g].op = call[g].op /\ Aim[g].name = call[g].name /\ Aim[g].copy = call[g].copy
         /\ \A n : Promise!Notifying(g, n) <=> Notifying(g, n)
BY DEF Aim, Promise!Notifying, Notifying

\* When one goroutine's call changes, so does its aim, and no other.
LEMMA AimMoves ==
  ASSUME TypeOK, NEW g \in Goroutines, NEW c, call' = [call EXCEPT ![g] = c]
  PROVE  Aim' = [Aim EXCEPT ![g] = [op |-> c.op, name |-> c.name, copy |-> c.copy]]
<1>1. call' = [h \in Goroutines |-> IF h = g THEN c ELSE call[h]]
  BY DEF TypeOK
<1> QED
  BY <1>1 DEF Aim

\* The subscriber's steps: the promise makes the same ones.
LEMMA SubscriberSteps ==
  ASSUME NEW s \in Subs, Subscribe(s) \/ Close(s) \/ Receive(s)
  PROVE  PromiseStep
<1>1. call' = call /\ Aim' = Aim
  BY DEF Subscribe, Close, Receive, Aim
<1>2. ASSUME Subscribe(s) PROVE Promise!Subscribe(s)
  <2>1. churn' = [g \in Goroutines |->
                   IF Notifying(g, sub[s].name) /\ churn[g] = "closed" THEN "reused" ELSE churn[g]]
    BY <1>2 DEF Subscribe
  <2>2. churn' = [g \in Goroutines |->
                   IF Promise!Notifying(g, sub[s].name) /\ churn[g] = "closed"
                   THEN "reused" ELSE churn[g]]
    BY <2>1, AimOf, Zenon
  <2> QED
    BY <2>2, <1>1, <1>2 DEF Subscribe, Promise!Subscribe
<1>3. ASSUME Close(s) PROVE Promise!Close(s)
  <2>1. churn' = [g \in Goroutines |->
                   IF Notifying(g, sub[s].name) /\ churn[g] = "none" THEN "closed" ELSE churn[g]]
    BY <1>3 DEF Close
  <2>2. churn' = [g \in Goroutines |->
                   IF Promise!Notifying(g, sub[s].name) /\ churn[g] = "none"
                   THEN "closed" ELSE churn[g]]
    BY <2>1, AimOf, Zenon
  <2> QED
    BY <2>2, <1>1, <1>3 DEF Close, Promise!Close
<1>4. ASSUME Receive(s) PROVE Promise!Receive(s)
  BY <1>1, <1>4 DEF Receive, Promise!Receive
<1> QED
  BY <1>2, <1>3, <1>4 DEF PromiseStep, Promise!Next

\* A Notify begins: it owes a signal to every subscription open on its name.
LEMMA NotifyBeginStep ==
  ASSUME IInv, NEW g \in Goroutines, NEW n \in Names, NotifyBegin(g, n)
  PROVE  PromiseStep
<1> DEFINE c == [op |-> "notify", name |-> n, arr |-> signals[n].arr,
                 len |-> signals[n].len, idx |-> 1, copy |-> {}]
<1>1. call' = [call EXCEPT ![g] = c] /\ TypeOK
  BY DEF NotifyBegin, IInv
<1>2. c.op = "notify" /\ c.name = n /\ c.copy = {}
  OBVIOUS
<1> HIDE DEF c
<1>3. Aim' = [Aim EXCEPT ![g] = [op |-> c.op, name |-> c.name, copy |-> c.copy]]
  BY <1>1, AimMoves
<1>4. Promise!Notify(g, n)
  BY <1>2, <1>3, AimOf DEF NotifyBegin, Promise!Notify, Promise!Begin, Promise!OpenOn, OpenOn
<1> QED
  BY <1>4 DEF PromiseStep, Promise!Next

\* A NotifyAll begins: the slices it copies list the open subscriptions.
LEMMA NotifyAllBeginStep ==
  ASSUME IInv, NEW g \in Goroutines, NotifyAllBegin(g)
  PROVE  PromiseStep
<1> DEFINE copy == UNION {{heap[signals[n].arr][i] : i \in 1 .. signals[n].len} : n \in Names}
           c == [op |-> "notifyAll", name |-> Nil, arr |-> 0, len |-> 0, idx |-> 1, copy |-> copy]
<1>t. TypeOK /\ RegisteredOnce
  BY DEF IInv
<1>1. call' = [call EXCEPT ![g] = c]
  BY DEF NotifyAllBegin
<1>2. copy \subseteq Open
  <2> SUFFICES ASSUME NEW n \in Names, NEW i \in 1 .. signals[n].len
               PROVE  heap[signals[n].arr][i] \in Open
    OBVIOUS
  <2>1. heap[signals[n].arr][i] \in OpenOn(n)
    BY <1>t DEF RegisteredOnce
  <2> QED
    BY <2>1 DEF OpenOn, Open
<1>3. Open \subseteq copy
  <2> SUFFICES ASSUME NEW s \in Open PROVE s \in copy
    OBVIOUS
  <2>1. sub[s].name \in Names /\ s \in OpenOn(sub[s].name)
    BY <1>t DEF Open, OpenOn, TypeOK, Subscription
  <2>2. PICK i \in 1 .. signals[sub[s].name].len : heap[signals[sub[s].name].arr][i] = s
    BY <2>1, <1>t DEF RegisteredOnce
  <2> QED
    BY <2>1, <2>2
<1>4. c.op = "notifyAll" /\ c.name = Nil /\ c.copy = copy
  OBVIOUS
<1> HIDE DEF copy, c
<1>5. Aim' = [Aim EXCEPT ![g] = [op |-> c.op, name |-> c.name, copy |-> c.copy]]
  BY <1>1, <1>t, AimMoves
<1>6. Promise!NotifyAll(g)
  BY <1>2, <1>3, <1>4, <1>5, AimOf
     DEF NotifyAllBegin, Promise!NotifyAll, Promise!Begin, Promise!Open, Open
<1> QED
  BY <1>6 DEF PromiseStep, Promise!Next

\* One send of a Notify: whatever was swapped into or appended to the cell it
\* reads, it is a subscription created for its name.
LEMMA NotifySendStep ==
  ASSUME IInv, NEW g \in Goroutines, NotifySend(g)
  PROVE  PromiseStep
<1>d. PICK s : s = heap[call[g].arr][call[g].idx]
  OBVIOUS
<1>1. /\ UNCHANGED <<sub, churn>>
      /\ call[g].op = "notify" /\ call[g].idx <= call[g].len
      /\ call' = [call EXCEPT ![g].idx = @ + 1]
      /\ owed' = [owed EXCEPT ![g] = @ \ {s}]
      /\ token' = [token EXCEPT ![s] = TRUE]
  BY <1>d DEF NotifySend, Send
<1>2. TypeOK /\ Captured(g) /\ call[g] \in Call
  BY DEF IInv, TypeOK
<1>3. s \in Subs /\ sub[s].name = call[g].name /\ sub[s].state # "new"
  <2>1. call[g].len # 0 /\ call[g].idx \in 1 .. call[g].len
    BY <1>1, <1>2 DEF Call
  <2> QED
    BY <1>d, <1>1, <1>2, <2>1 DEF Captured
<1>4. Aim' = Aim
  <2>1. call' = [h \in Goroutines |-> IF h = g THEN [call[g] EXCEPT !.idx = @ + 1] ELSE call[h]]
    BY <1>1, <1>2 DEF TypeOK
  <2>2. \A h \in Goroutines : /\ call'[h].op = call[h].op /\ call'[h].name = call[h].name
                              /\ call'[h].copy = call[h].copy
    BY <1>2, <2>1 DEF Call
  <2> QED
    BY <2>2 DEF Aim
<1>5. Promise!Signal(g, s)
  BY <1>1, <1>3, <1>4, AimOf DEF Promise!Signal, Notifying
<1> QED
  BY <1>3, <1>5 DEF PromiseStep, Promise!Next

\* One send of a NotifyAll.
LEMMA NotifyAllSendStep ==
  ASSUME IInv, NEW g \in Goroutines, NotifyAllSend(g)
  PROVE  PromiseStep
<1>1. PICK s \in call[g].copy :
        /\ UNCHANGED <<sub, churn>>
        /\ call' = [call EXCEPT ![g].copy = @ \ {s}]
        /\ owed' = [owed EXCEPT ![g] = @ \ {s}]
        /\ token' = [token EXCEPT ![s] = TRUE]
  BY DEF NotifyAllSend, Send
<1>2. TypeOK /\ call[g] \in Call
  BY DEF IInv, TypeOK
<1>3. s \in Subs
  BY <1>2 DEF Call
<1>4. Aim' = [Aim EXCEPT ![g].copy = @ \ {s}]
  <2> DEFINE c == [call[g] EXCEPT !.copy = @ \ {s}]
  <2>1. c.op = call[g].op /\ c.name = call[g].name /\ c.copy = call[g].copy \ {s}
    BY <1>2 DEF Call
  <2>2. call' = [call EXCEPT ![g] = c]
    BY <1>1
  <2> HIDE DEF c
  <2>3. Aim' = [Aim EXCEPT ![g] = [op |-> c.op, name |-> c.name, copy |-> c.copy]]
    BY <1>2, <2>2, AimMoves
  <2>4. [Aim[g] EXCEPT !.copy = @ \ {s}]
          = [op |-> c.op, name |-> c.name, copy |-> c.copy]
    <3>1. Aim[g] = [op |-> call[g].op, name |-> call[g].name, copy |-> call[g].copy]
      BY DEF Aim
    <3>2. [Aim[g] EXCEPT !.copy = @ \ {s}]
            = [op |-> call[g].op, name |-> call[g].name, copy |-> call[g].copy \ {s}]
      BY <3>1
    <3> QED
      BY <3>2, <2>1
  <2> QED
    BY <2>3, <2>4
<1>5. Promise!Signal(g, s)
  BY <1>1, <1>4, AimOf DEF Promise!Signal
<1> QED
  BY <1>3, <1>5 DEF PromiseStep, Promise!Next

\* A call returns when nothing is ahead of it, so nothing is owed but to what the
\* close and the append of others moved out of its way.
LEMMA ReturnStep ==
  ASSUME IInv, NEW g \in Goroutines, Return(g)
  PROVE  PromiseStep
<1>1. /\ UNCHANGED <<sub, token, owed, churn>>
      /\ call' = [call EXCEPT ![g] = NoCall]
      /\ \/ call[g].op = "notify" /\ call[g].idx > call[g].len
         \/ call[g].op = "notifyAll" /\ call[g].copy = {}
  BY DEF Return
<1>2. TypeOK /\ Captured(g) /\ Ahead(g)
  BY DEF IInv
<1>3. call[g].op # "none" /\ call[g].copy = {}
  BY <1>1, <1>2 DEF Captured
<1>4. owed[g] = {} \/ churn[g] = "reused"
  <2>1. call[g].idx > call[g].len => call[g].idx .. call[g].len = {}
    BY <1>2 DEF TypeOK, Call
  <2>2. owed[g] \subseteq Subs
    BY <1>2 DEF TypeOK
  <2> QED
    BY <2>1, <2>2, <1>1, <1>2 DEF Ahead
<1>5. Aim' = [Aim EXCEPT ![g] = Promise!Idle]
  <2>1. Aim' = [Aim EXCEPT ![g] = [op |-> NoCall.op, name |-> NoCall.name, copy |-> NoCall.copy]]
    BY <1>1, <1>2, AimMoves
  <2> QED
    BY <2>1 DEF NoCall, Promise!Idle
<1>6. Promise!Return(g)
  BY <1>1, <1>3, <1>4, <1>5, AimOf DEF Promise!Return
<1> QED
  BY <1>6 DEF PromiseStep, Promise!Next

LEMMA EveryStep == IInv /\ [Next]_vars => PromiseStep
<1> SUFFICES ASSUME IInv, [Next]_vars PROVE PromiseStep
  OBVIOUS
<1>1. ASSUME NEW s \in Subs, Subscribe(s) \/ Close(s) \/ Receive(s) PROVE PromiseStep
  BY <1>1, SubscriberSteps
<1>2. ASSUME NEW g \in Goroutines, NEW n \in Names, NotifyBegin(g, n) PROVE PromiseStep
  BY <1>2, NotifyBeginStep
<1>3. ASSUME NEW g \in Goroutines,
             NotifyAllBegin(g) \/ NotifySend(g) \/ NotifyAllSend(g) \/ Return(g)
      PROVE  PromiseStep
  BY <1>3, NotifyAllBeginStep, NotifySendStep, NotifyAllSendStep, ReturnStep
<1>4. CASE UNCHANGED vars
  BY <1>4 DEF PromiseStep, vars, Promise!vars, Aim
<1> QED
  BY <1>1, <1>2, <1>3, <1>4 DEF Next

\* The bus of slices implements the promise of its interface: a Notify signals
\* subscriptions of its name only, and returns owing nothing, whatever Subscribe
\* and close do to the slices meanwhile (signalbus.go:8-94), but for the slot
\* that a close freed and a Subscribe took.
THEOREM ImplementsPromise == Spec => KeepsPromise
<1>1. Init => Promise!Init
  <2>1. ASSUME Init PROVE Aim = [g \in Goroutines |-> Promise!Idle]
    BY <2>1 DEF Init, NoCall, Aim, Promise!Idle
  <2> QED
    BY <2>1 DEF Init, Promise!Init
<1>2. IInv /\ [Next]_vars => [Promise!Next]_(Promise!vars)
  BY EveryStep DEF PromiseStep
<1> QED
  BY <1>1, <1>2, Invariance, PTL DEF Spec, KeepsPromise, Promise!Spec
==============================================================================
