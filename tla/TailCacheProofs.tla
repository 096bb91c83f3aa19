-------------------------- MODULE TailCacheProofs --------------------------
(***************************************************************************)
(* For any fetchers, rows, cache size, rows per query, revisions and       *)
(* faults: whatever the fetchers put in the cache, each of them is a       *)
(* reader of an OrderedFeed, and is given every row at or below its cursor *)
(* that was not committed late.                                            *)
(***************************************************************************)
EXTENDS TailCache, FiniteSetTheorems, SequenceTheorems, WellFoundedInduction, TLAPS

Fetcher == [at : {"closed", "cache", "fill", "query", "add", "db"}, tail : BOOLEAN,
            readPos : Nat, expected : Nat, batch : Seq(Item)]

\* A revision is that of one row, and is in use; a cursor is one of them.
Rows ==
  /\ \A id \in Ids : rows[id] # 0 => rows[id] \in used
  /\ \A id, j \in Ids : rows[id] = rows[j] /\ rows[id] # 0 => id = j
  /\ \A f \in Fetchers : cursor[f] \in used \cup {0}

\* x is a version of its row that was committed, if not the last one, and no other
\* row has its revision.
Version(x) ==
  /\ x \in Item /\ x.rev \in used /\ x.rev <= rows[x.id]
  /\ \A id \in Ids : rows[id] = x.rev => id = x.id

CacheTyped ==
  /\ ring \in [0 .. CacheSize - 1 -> Item] /\ writePos \in Nat
  /\ Len(stream) <= CacheSize
  /\ \A i \in 1 .. Len(stream) - 1 : stream[i].rev < stream[i + 1].rev

\* What is cached are versions; a cell nobody wrote holds revision 0.
Caches ==
  /\ stream \in Seq(Item)
  /\ \A i \in 1 .. Len(stream) : Version(stream[i])
  /\ \A i \in 0 .. CacheSize - 1 : ring[i].rev = 0 \/ Version(ring[i])

\* items answer a reader with cursor gt: in the order of their revisions, and with
\* every row that has its revision up to the last of them, but for late ones.
Answers(items, gt) ==
  /\ items \in Seq(Item)
  /\ \A i \in 1 .. Len(items) : Version(items[i]) /\ items[i].rev > gt
  /\ \A i, j \in 1 .. Len(items) : i < j => items[i].rev < items[j].rev
  /\ items # <<>> =>
       \A id \in Ids : rows[id] \in (gt + 1 .. items[Len(items)].rev) \ late =>
         \E i \in 1 .. Len(items) : items[i].id = id /\ items[i].rev = rows[id]

\* What a fetcher has in hand, and what it owes its watch.
Fetches ==
  /\ fetcher \in [Fetchers -> Fetcher]
  /\ \A f \in Fetchers :
       /\ fetcher[f].at = "closed" => fetcher[f] = NoFetcher
       /\ due[f] => Above(cursor[f]) # {}
       /\ fetcher[f].at = "add" => /\ Answers(fetcher[f].batch, cursor[f])
                                   /\ due[f] => fetcher[f].batch # <<>>

\* The inductive invariant.
IInv == TypeOK /\ Rows /\ Caches /\ Fetches

-----------------------------------------------------------------------------
\* A set of natural numbers that is not empty has a least member.
LEMMA LeastOne == ASSUME NEW T, T \subseteq Nat, T # {} PROVE \E x \in T : \A y \in T : x <= y
<1>1. \E x \in T : \A y \in T : ~ (<<y, x>> \in OpToRel(<, Nat))
  BY NatLessThanWellFounded, WFMin
<1>2. PICK x \in T : \A y \in T : ~ (<<y, x>> \in OpToRel(<, Nat))
  BY <1>1
<1>3. \A y \in T : ~ (y < x)
  BY <1>2 DEF OpToRel
<1> QED
  BY <1>3

\* One that has a bound has a greatest.
LEMMA GreatestOne ==
  ASSUME NEW T, T \subseteq Nat, T # {}, NEW n \in Nat, \A x \in T : x <= n
  PROVE  \E x \in T : \A y \in T : y <= x
<1> DEFINE B == {b \in Nat : \A x \in T : x <= b}
<1>1. PICK b \in B : \A c \in B : b <= c
  <2>1. n \in B
    OBVIOUS
  <2> HIDE DEF B
  <2>2. B \subseteq Nat
    BY DEF B
  <2> QED
    BY <2>1, <2>2, LeastOne
<1>2. b \in T
  <2> SUFFICES ASSUME b \notin T PROVE FALSE
    OBVIOUS
  <2>1. PICK t \in T : TRUE
    OBVIOUS
  <2>2. \A x \in T : x \in Nat /\ x <= b - 1
    BY <1>1
  <2>3. b - 1 \in B
    BY <2>1, <2>2, <1>1
  <2> QED
    BY <1>1, <2>3
<1> QED
  BY <1>1, <1>2

\* InOrder lists a finite set of numbers, each once, in their order.
LEMMA Ordered ==
  ASSUME NEW T, T \subseteq Nat, IsFiniteSet(T)
  PROVE  /\ Cardinality(T) \in Nat
         /\ InOrder(T) \in [1 .. Cardinality(T) -> T]
         /\ \A k, l \in 1 .. Cardinality(T) : k < l => InOrder(T)[k] < InOrder(T)[l]
         /\ \A t \in T : \E k \in 1 .. Cardinality(T) : InOrder(T)[k] = t
<1> DEFINE n == Cardinality(T)
           below(i) == {j \in T : j < i}
           rank == [i \in T |-> Cardinality(below(i))]
           O == InOrder(T)
<1>1. n \in Nat
  BY FS_CardinalityType
<1>2. ASSUME NEW i \in T, NEW j \in T, i < j
      PROVE  Cardinality(below(i)) < Cardinality(below(j))
  <2>1. IsFiniteSet(below(j)) /\ IsFiniteSet(below(i))
    BY FS_Subset
  <2>2. below(i) \subseteq below(j) /\ i \in below(j) /\ i \notin below(i)
    <3>1. \A m \in T : m < i => m < j
      BY <1>2
    <3>2. i < j /\ ~ (i < i)
      BY <1>2
    <3> QED
      BY <3>1, <3>2
  <2> HIDE DEF below
  <2>3. Cardinality(below(i)) \in Nat /\ Cardinality(below(j)) \in Nat
    BY <2>1, FS_CardinalityType
  <2>4. below(i) # below(j) /\ below(i) \in SUBSET below(j)
    BY <2>2
  <2>5. Cardinality(below(i)) <= Cardinality(below(j)) /\ Cardinality(below(i)) # Cardinality(below(j))
    BY <2>1, <2>4, FS_Subset
  <2> QED
    BY <2>3, <2>5
<1>3. \A i \in T : Cardinality(below(i)) \in 0 .. n - 1
  <2> SUFFICES ASSUME NEW i \in T PROVE Cardinality(below(i)) \in 0 .. n - 1
    OBVIOUS
  <2>1. below(i) \in SUBSET T /\ i \notin below(i) /\ below(i) # T
    OBVIOUS
  <2> HIDE DEF below
  <2>2. IsFiniteSet(below(i)) /\ Cardinality(below(i)) <= n /\ Cardinality(below(i)) # n
    BY <2>1, FS_Subset
  <2>3. Cardinality(below(i)) \in Nat
    BY <2>2, FS_CardinalityType
  <2> QED
    BY <1>1, <2>2, <2>3
<1> HIDE DEF below
<1>4. \A i, j \in T : rank[i] = rank[j] => i = j
  <2> SUFFICES ASSUME NEW i \in T, NEW j \in T, rank[i] = rank[j], i # j PROVE FALSE
    OBVIOUS
  <2>1. i < j \/ j < i
    OBVIOUS
  <2>2. Cardinality(below(i)) # Cardinality(below(j))
    BY <1>2, <1>3, <2>1
  <2> QED
    BY <2>2
<1>5. \A m \in 0 .. n - 1 : \E i \in T : rank[i] = m
  <2>1. rank \in [T -> 0 .. n - 1]
    BY <1>3
  <2>2. rank \in Injection(T, 0 .. n - 1)
    <3> HIDE DEF rank
    <3> QED
      BY <1>4, <2>1 DEF Injection, IsInjective
  <2>3. IsFiniteSet(0 .. n - 1) /\ Cardinality(0 .. n - 1) = n
    <3>1. PICK b : b = n - 1
      OBVIOUS
    <3>2. b \in Int /\ b - 0 + 1 = n /\ (0 > b => n = 0)
      BY <1>1, <3>1
    <3> HIDE DEF n
    <3>3. IsFiniteSet(0 .. b) /\ Cardinality(0 .. b) = IF 0 > b THEN 0 ELSE b - 0 + 1
      BY <3>2, FS_Interval
    <3> QED
      BY <3>1, <3>2, <3>3
  <2>4. rank \in Surjection(T, 0 .. n - 1)
    <3> HIDE DEF rank
    <3> QED
      BY <2>2, <2>3, FS_Injection
  <2> HIDE DEF rank
  <2> QED
    BY <2>4 DEF Surjection
<1>6. \A k \in 1 .. n : O[k] = CHOOSE i \in T : Cardinality(below(i)) = k - 1
  BY DEF InOrder, below
<1>7. \A k \in 1 .. n : O[k] \in T /\ rank[O[k]] = k - 1
  <2> SUFFICES ASSUME NEW k \in 1 .. n PROVE O[k] \in T /\ rank[O[k]] = k - 1
    OBVIOUS
  <2>1. k - 1 \in 0 .. n - 1
    BY <1>1
  <2>2. \E i \in T : Cardinality(below(i)) = k - 1
    BY <1>5, <2>1
  <2> HIDE DEF O
  <2>3. O[k] \in T /\ Cardinality(below(O[k])) = k - 1
    BY <1>6, <2>2
  <2> QED
    BY <2>3
<1>8. O \in [1 .. n -> T]
  <2>1. \A k \in 1 .. n : (CHOOSE i \in T : Cardinality({j \in T : j < i}) = k - 1) \in T
    BY <1>6, <1>7 DEF below
  <2> QED
    BY <2>1 DEF InOrder
<1>9. \A k, l \in 1 .. n : k < l => O[k] < O[l]
  <2> SUFFICES ASSUME NEW k \in 1 .. n, NEW l \in 1 .. n, k < l PROVE O[k] < O[l]
    OBVIOUS
  <2> HIDE DEF O, n
  <2>1. /\ O[k] \in T /\ O[l] \in T /\ Cardinality(below(O[k])) = k - 1
        /\ Cardinality(below(O[l])) = l - 1
    BY <1>7
  <2>2. PICK a \in T, b \in T : a = O[k] /\ b = O[l]
    BY <2>1
  <2>3. Cardinality(below(a)) = k - 1 /\ Cardinality(below(b)) = l - 1 /\ k \in Int /\ l \in Int
    BY <1>1, <2>1, <2>2
  <2>4. a # b /\ ~ (b < a)
    BY <1>2, <2>3
  <2>5. a \in Nat /\ b \in Nat
    OBVIOUS
  <2> QED
    BY <2>2, <2>4, <2>5
<1>10. \A t \in T : \E k \in 1 .. n : O[k] = t
  <2> SUFFICES ASSUME NEW t \in T PROVE \E k \in 1 .. n : O[k] = t
    OBVIOUS
  <2>1. rank[t] \in 0 .. n - 1
    BY <1>3
  <2>2. PICK k \in 1 .. n : rank[t] = k - 1
    <3>1. rank[t] + 1 \in 1 .. n /\ rank[t] = (rank[t] + 1) - 1
      BY <1>1, <2>1
    <3> QED
      BY <3>1
  <2>3. rank[O[k]] = rank[t] /\ O[k] \in T
    BY <1>7, <2>2
  <2> QED
    BY <1>4, <2>2, <2>3
<1> QED
  BY <1>1, <1>8, <1>9, <1>10

\* Numbers with a bound are finitely many.
LEMMA Bounded == ASSUME NEW n \in Nat, NEW T \in SUBSET (1 .. n) PROVE IsFiniteSet(T)
<1>1. IsFiniteSet(1 .. n)
  BY FS_Interval
<1> QED
  BY <1>1, FS_Subset

\* Those(s, is) are the items of s at is, in the order in which s has them.
LEMMA ThoseAre ==
  ASSUME NEW S, NEW s \in Seq(S), NEW is \in SUBSET (1 .. Len(s))
  PROVE  /\ Those(s, is) \in Seq(S)
         /\ \A k \in 1 .. Len(Those(s, is)) : \E i \in is : Those(s, is)[k] = s[i]
         /\ \A k, l \in 1 .. Len(Those(s, is)) : k < l =>
              \E i, j \in is : i < j /\ Those(s, is)[k] = s[i] /\ Those(s, is)[l] = s[j]
         /\ \A i \in is : \E k \in 1 .. Len(Those(s, is)) : Those(s, is)[k] = s[i]
<1>1. Len(s) \in Nat /\ \A i \in is : s[i] \in S
  BY LenProperties, ElementOfSeq
<1>2. is \subseteq Nat /\ IsFiniteSet(is)
  <2>1. IsFiniteSet(is)
    BY <1>1, Bounded
  <2> QED
    BY <1>1, <2>1
<1>3. PICK n, at : n = Cardinality(is) /\ at = InOrder(is)
  OBVIOUS
<1>4. /\ n \in Nat /\ at \in [1 .. n -> is]
      /\ \A k, l \in 1 .. n : k < l => at[k] < at[l]
      /\ \A i \in is : \E k \in 1 .. n : at[k] = i
  BY <1>2, <1>3, Ordered
<1>5. Those(s, is) = [k \in 1 .. n |-> s[at[k]]]
  BY <1>3, <1>4 DEF Those
<1>6. Those(s, is) \in Seq(S) /\ Len(Those(s, is)) = n
  <2>1. \A k \in 1 .. n : s[at[k]] \in S
    BY <1>1, <1>4
  <2> QED
    BY <1>4, <1>5, <2>1
<1>7. \A k \in 1 .. n : at[k] \in is /\ Those(s, is)[k] = s[at[k]]
  BY <1>4, <1>5
<1> HIDE DEF Those
<1>8. \A k \in 1 .. n : \E i \in is : Those(s, is)[k] = s[i]
  BY <1>7
<1>9. \A k, l \in 1 .. n : k < l => \E i, j \in is : i < j /\ Those(s, is)[k] = s[i] /\ Those(s, is)[l] = s[j]
  BY <1>4, <1>7
<1>10. \A i \in is : \E k \in 1 .. n : Those(s, is)[k] = s[i]
  BY <1>4, <1>7
<1> QED
  BY <1>6, <1>8, <1>9, <1>10

\* The least of two numbers.
LEMMA LeastOfTwo ==
  ASSUME NEW a \in Nat, NEW b \in Nat
  PROVE  Least(a, b) \in Nat /\ Least(a, b) <= a /\ Least(a, b) <= b /\ Least(a, b) \in {a, b}
BY DEF Least

\* A query answers its fetcher, with nothing only if nothing is above the cursor.
LEMMA Queried ==
  ASSUME TypeOK, Rows, NEW f \in Fetchers
  PROVE  /\ Answers(FetchFn(cursor[f]), cursor[f])
         /\ FetchFn(cursor[f]) = <<>> <=> Above(cursor[f]) = {}
<1> DEFINE gt == cursor[f]
           A == Above(gt)
           items == FetchFn(gt)
<1>0. /\ gt \in Nat /\ MaxRev \in Nat /\ Limit \in Nat /\ Limit # 0
      /\ \A id \in Ids : rows[id] \in 0 .. MaxRev
  BY ConstantsAssumption DEF TypeOK
<1>1. A \subseteq 1 .. MaxRev /\ A \subseteq Nat /\ \A rev \in A : rev > gt /\ \E id \in Ids : rows[id] = rev
  BY <1>0 DEF Above
<1>2. IsFiniteSet(A)
  <2> HIDE DEF A
  <2> QED
    BY <1>0, <1>1, Bounded
<1>3. PICK n, revs : n = Cardinality(A) /\ revs = InOrder(A)
  OBVIOUS
<1>4. /\ n \in Nat /\ revs \in [1 .. n -> A]
      /\ \A k, l \in 1 .. n : k < l => revs[k] < revs[l]
      /\ \A t \in A : \E k \in 1 .. n : revs[k] = t
  <2> HIDE DEF A
  <2> QED
    BY <1>1, <1>2, <1>3, Ordered
<1>5. PICK m \in Nat : m = Least(Limit, n)
  BY <1>0, <1>4, LeastOfTwo
<1>6. m <= n /\ (m = 0 => n = 0)
  BY <1>0, <1>4, <1>5, LeastOfTwo
<1>7. items = [k \in 1 .. m |-> Row(revs[k])]
  BY <1>3, <1>5 DEF FetchFn
<1>8. ASSUME NEW rev \in A
      PROVE  /\ Version(Row(rev)) /\ Row(rev).rev = rev
             /\ \A id \in Ids : rows[id] = rev => Row(rev).id = id
  <2>1. PICK id \in Ids : id = CHOOSE i \in Ids : rows[i] = rev
    BY <1>1, <1>8
  <2>2. rows[id] = rev /\ Row(rev) = [id |-> id, rev |-> rev]
    BY <1>1, <1>8, <2>1 DEF Row
  <2>3. rev # 0 /\ rev \in Nat
    BY <1>1, <1>8
  <2> QED
    BY <2>2, <2>3 DEF Version, Rows, Item
<1>9. \A k \in 1 .. m : k \in 1 .. n /\ revs[k] \in A
  BY <1>4, <1>6
<1>10. items \in Seq(Item) /\ Len(items) = m /\ \A k \in 1 .. m : items[k] = Row(revs[k])
  <2>1. \A k \in 1 .. m : Row(revs[k]) \in Item
    BY <1>8, <1>9 DEF Version
  <2> QED
    BY <1>7, <2>1
<1> HIDE DEF items
<1>11. \A k \in 1 .. m : /\ Version(items[k]) /\ items[k].rev = revs[k] /\ items[k].rev > gt
                         /\ \A id \in Ids : rows[id] = revs[k] => items[k].id = id
  BY <1>1, <1>8, <1>9, <1>10
<1>12. \A i, j \in 1 .. m : i < j => items[i].rev < items[j].rev
  BY <1>4, <1>9, <1>11
<1>13. ASSUME items # <<>>, NEW id \in Ids, rows[id] \in gt + 1 .. items[m].rev
       PROVE  \E i \in 1 .. m : items[i].id = id /\ items[i].rev = rows[id]
  <2>1. m \in 1 .. m
    BY <1>10, <1>13, EmptySeq
  <2>2. rows[id] \in A
    BY <1>0, <1>13 DEF Above
  <2>3. PICK k \in 1 .. n : revs[k] = rows[id]
    BY <1>4, <2>2
  <2>4. revs[k] <= revs[m] /\ revs[k] \in Nat /\ revs[m] \in Nat
    BY <1>1, <1>9, <1>11, <1>13, <2>1, <2>3, <2>2
  <2>5. k \in 1 .. m
    <3> SUFFICES ASSUME k > m PROVE FALSE
      BY <1>4
    <3>1. revs[m] < revs[k]
      BY <1>4, <1>9, <2>1
    <3> QED
      BY <2>4, <3>1
  <2> QED
    BY <1>11, <2>3, <2>5
<1>14. items = <<>> <=> A = {}
  <2>1. items = <<>> <=> m = 0
    BY <1>10
  <2>2. n = 0 <=> A = {}
    BY <1>2, <1>3, FS_EmptySet
  <2> QED
    BY <1>6, <1>4, <2>1, <2>2
<1> QED
  BY <1>10, <1>11, <1>12, <1>13, <1>14 DEF Answers, items

\* After items, a client has of a row the last revision among them, or what it had.
LEMMA LastIs ==
  ASSUME NEW items \in Seq(Item), NEW id, NEW rev
  PROVE  \/ LastOf(items, id, rev) = rev /\ \A i \in 1 .. Len(items) : items[i].id # id
         \/ \E i \in 1 .. Len(items) :
              /\ items[i].id = id /\ LastOf(items, id, rev) = items[i].rev
              /\ \A j \in 1 .. Len(items) : items[j].id = id => j <= i
<1> DEFINE mine == {i \in 1 .. Len(items) : items[i].id = id}
<1>1. CASE mine = {}
  BY <1>1 DEF LastOf
<1>2. CASE mine # {}
  <2>1. Len(items) \in Nat /\ mine \subseteq Nat /\ \A i \in mine : i <= Len(items)
    BY LenProperties
  <2>2. \E i \in mine : \A j \in mine : j <= i
    <3> HIDE DEF mine
    <3> QED
      BY <1>2, <2>1, GreatestOne
  <2>3. PICK i \in mine : i = CHOOSE k \in mine : \A j \in mine : j <= k
    BY <2>2
  <2>4. \A j \in mine : j <= i
    BY <2>2, <2>3
  <2>5. LastOf(items, id, rev) = items[i].rev
    BY <1>2, <2>3 DEF LastOf
  <2> QED
    BY <2>4, <2>5
<1> QED
  BY <1>1, <1>2

-----------------------------------------------------------------------------
\* A commit takes no version from a row, and gives none a second time.
LEMMA VersionKept ==
  ASSUME IInv, NEW id \in Ids, NEW rev \in 1 .. MaxRev, Commit(id, rev), NEW x, Version(x)
  PROVE  Version(x)'
<1>1. /\ rows' = [rows EXCEPT ![id] = rev] /\ used' = used \cup {rev} /\ rev \notin used /\ rev > rows[id]
      /\ rows \in [Ids -> 0 .. MaxRev] /\ MaxRev \in Nat
  BY ConstantsAssumption DEF Commit, IInv, TypeOK
<1>2. x \in Item /\ x.rev \in used /\ x.rev <= rows[x.id] /\ x.id \in Ids /\ x.rev \in Nat
      /\ \A j \in Ids : rows[j] = x.rev => j = x.id
  BY DEF Version, Item
<1>3. x.rev <= rows'[x.id]
  BY <1>1, <1>2
<1>4. \A j \in Ids : rows'[j] = x.rev => j = x.id
  BY <1>1, <1>2
<1> QED
  BY <1>1, <1>2, <1>3, <1>4 DEF Version

\* What answers a fetcher still does after a commit: a row that is written since, below
\* the last revision in hand, is late.
LEMMA AnswersKept ==
  ASSUME IInv, NEW id \in Ids, NEW rev \in 1 .. MaxRev, Commit(id, rev),
         NEW items, NEW gt \in Nat, Answers(items, gt)
  PROVE  Answers(items, gt)'
<1>1. /\ rows' = [rows EXCEPT ![id] = rev] /\ used' = used \cup {rev} /\ rev \notin used
      /\ late' = IF \E r \in used : r > rev THEN late \cup {rev} ELSE late
      /\ rows \in [Ids -> 0 .. MaxRev] /\ used \subseteq 1 .. MaxRev
  BY DEF Commit, IInv, TypeOK
<1>2. \A i \in 1 .. Len(items) : Version(items[i])'
  BY VersionKept DEF Answers
<1>3. ASSUME items # <<>>, NEW j \in Ids, rows'[j] \in (gt + 1 .. items[Len(items)].rev) \ late'
      PROVE  \E i \in 1 .. Len(items) : items[i].id = j /\ items[i].rev = rows'[j]
  <2>1. j # id
    <3> SUFFICES ASSUME j = id PROVE FALSE
      OBVIOUS
    <3>1. Len(items) \in 1 .. Len(items)
      BY <1>3, EmptySeq DEF Answers
    <3>2. items[Len(items)].rev \in used
      BY <3>1 DEF Answers, Version
    <3>3. rows'[j] = rev /\ rev <= items[Len(items)].rev /\ rev \notin late'
      BY <1>1, <1>3
    <3>4. rev < items[Len(items)].rev
      <4>1. PICK to : to = items[Len(items)].rev
        OBVIOUS
      <4>2. to \in used /\ rev <= to /\ rev # to
        BY <1>1, <3>2, <3>3, <4>1
      <4>3. to \in 1 .. MaxRev /\ MaxRev \in Nat
        BY <1>1, <4>2, ConstantsAssumption
      <4> QED
        BY <4>1, <4>2, <4>3
    <3> QED
      BY <1>1, <3>2, <3>3, <3>4
  <2>2. rows'[j] = rows[j] /\ late \subseteq late'
    BY <1>1, <2>1
  <2> QED
    BY <1>3, <2>2 DEF Answers
<1> QED
  BY <1>2, <1>3 DEF Answers

\* A transaction commits.
LEMMA CommitInv ==
  ASSUME IInv, NEW id \in Ids, NEW rev \in 1 .. MaxRev, Commit(id, rev)
  PROVE  IInv'
<1>0. /\ rows' = [rows EXCEPT ![id] = rev] /\ used' = used \cup {rev} /\ rev \notin used /\ rev > rows[id]
      /\ late' = IF \E r \in used : r > rev THEN late \cup {rev} ELSE late
      /\ UNCHANGED <<backend, fetcher, faults, ring, writePos, stream, cursor, view, due>>
      /\ rows \in [Ids -> 0 .. MaxRev] /\ used \subseteq 1 .. MaxRev /\ late \subseteq used
      /\ MaxRev \in Nat
  BY ConstantsAssumption DEF Commit, IInv, TypeOK, cacheVars, replyVars
<1>1. TypeOK'
  <2>1. rows' \in [Ids -> 0 .. MaxRev] /\ used' \subseteq 1 .. MaxRev /\ late' \subseteq used'
    BY <1>0
  <2> QED
    BY <1>0, <2>1 DEF IInv, TypeOK
<1>2. Rows'
  BY <1>0 DEF IInv, Rows
<1>3. Caches'
  BY <1>0, VersionKept DEF IInv, Caches
<1>4. Fetches'
  <2> SUFFICES ASSUME NEW f \in Fetchers
               PROVE  /\ due[f] => Above(cursor[f])' # {}
                      /\ fetcher[f].at = "add" => Answers(fetcher[f].batch, cursor[f])'
    BY <1>0 DEF IInv, Fetches
  <2>1. PICK gt \in Nat, items \in {fetcher[f].batch} : gt = cursor[f] /\ items = fetcher[f].batch
    <3>1. cursor[f] \in Nat
      BY ConstantsAssumption DEF IInv, TypeOK
    <3> QED
      BY <3>1
  <2>2. ASSUME Above(gt) # {} PROVE Above(gt)' # {}
    <3>1. PICK j \in Ids : rows[j] > gt
      BY <2>2 DEF Above
    <3>2. rows'[j] > gt
      BY <1>0, <3>1
    <3> QED
      BY <3>2 DEF Above
  <2>3. Answers(items, gt) => Answers(items, gt)'
    BY AnswersKept
  <2>4. cursor'[f] = gt /\ fetcher'[f].batch = items
    BY <1>0, <2>1
  <2>5. Above(cursor[f])' = Above(gt)'
    BY <2>4 DEF Above
  <2>6. Answers(items, gt)' => Answers(fetcher[f].batch, cursor[f])'
    BY <2>4 DEF Answers
  <2> QED
    BY <2>1, <2>2, <2>3, <2>5, <2>6 DEF IInv, Fetches
<1> QED
  BY <1>1, <1>2, <1>3, <1>4 DEF IInv

\* A fetcher that stays open, at the same cursor.
LEMMA MovedInv ==
  ASSUME IInv, NEW f \in Fetchers, NEW fr \in Fetcher, NEW d \in BOOLEAN,
         fetcher' = [fetcher EXCEPT ![f] = fr], fr.at # "closed",
         fr.readPos <= writePos', fr.expected <= writePos',
         UNCHANGED <<dbVars, backend, cursor, view>>,
         due' = [due EXCEPT ![f] = d], d => Above(cursor[f]) # {},
         fr.at = "add" => Answers(fr.batch, cursor[f]) /\ (d => fr.batch # <<>>),
         faults' \in 0 .. MaxFaults, CacheTyped', Caches', writePos <= writePos'
  PROVE  IInv'
<1>0. /\ UNCHANGED <<rows, used, late, backend, cursor, view>>
      /\ TypeOK /\ Rows /\ Fetches
  BY DEF dbVars, IInv
<1>1. /\ \A g \in Fetchers : fetcher'[g] = IF g = f THEN fr ELSE fetcher[g]
      /\ \A g \in Fetchers : due'[g] = IF g = f THEN d ELSE due[g]
      /\ fetcher' \in [Fetchers -> Fetcher] /\ due' \in [Fetchers -> BOOLEAN]
  BY <1>0 DEF TypeOK, Fetches
<1>2. TypeOK'
  <2>1. \A g \in Fetchers :
          /\ fetcher'[g].at \in {"closed", "cache", "fill", "query", "add", "db"}
          /\ fetcher'[g].tail \in BOOLEAN
    BY <1>1 DEF Fetcher
  <2>2. ASSUME NEW g \in Fetchers
        PROVE  fetcher'[g].readPos <= writePos' /\ fetcher'[g].expected <= writePos'
    <3>1. CASE g = f
      BY <1>1, <3>1
    <3>2. CASE g # f
      <4>1. fetcher[g].readPos \in Nat /\ fetcher[g].expected \in Nat
        BY <1>0 DEF Fetches, Fetcher
      <4> QED
        BY <1>0, <1>1, <3>2, <4>1 DEF TypeOK, CacheTyped
    <3> QED
      BY <3>1, <3>2
  <2>3. \A i \in 1 .. Len(stream') : stream'[i] \in Item
    BY ElementOfSeq DEF Caches
  <2> QED
    BY <1>0, <1>1, <2>1, <2>2, <2>3 DEF TypeOK, CacheTyped
<1>3. Rows'
  BY <1>0 DEF Rows
<1>4. \A g : Above(cursor[g])' = Above(cursor[g])
  BY <1>0 DEF Above
<1>5. \A items, gt : Answers(items, gt)' <=> Answers(items, gt)
  BY <1>0 DEF Answers, Version
<1>6. Fetches'
  <2> SUFFICES ASSUME NEW g \in Fetchers
               PROVE  /\ fetcher'[g].at = "closed" => fetcher'[g] = NoFetcher
                      /\ due'[g] => Above(cursor[g])' # {}
                      /\ fetcher'[g].at = "add" => /\ Answers(fetcher[g].batch, cursor[g])'
                                                   /\ due'[g] => fetcher'[g].batch # <<>>
    BY <1>1 DEF Fetches
  <2>1. PICK b, gt : b = fetcher'[g].batch /\ gt = cursor[g]
    OBVIOUS
  <2>2. Answers(b, gt) => Answers(fetcher[g].batch, cursor[g])'
    BY <1>0, <2>1 DEF Answers, Version
  <2> QED
    BY <1>0, <1>1, <1>4, <2>1, <2>2 DEF Fetches
<1> QED
  BY <1>2, <1>3, <1>6 DEF IInv

\* A fetcher that closes; the last one takes the ring with it.
LEMMA ReleaseInv ==
  ASSUME IInv, NEW f \in Fetchers, Release(f), faults' \in 0 .. MaxFaults
  PROVE  IInv'
<1>0. /\ UNCHANGED <<rows, used, late, backend, stream, cursor, view>>
      /\ fetcher' = [fetcher EXCEPT ![f] = NoFetcher] /\ due' = [due EXCEPT ![f] = FALSE]
      /\ IF \A g \in Fetchers \ {f} : fetcher[g].at = "closed"
         THEN ring' = EmptyRing /\ writePos' = 0
         ELSE UNCHANGED <<ring, writePos>>
      /\ TypeOK /\ Rows /\ Caches /\ Fetches
  BY DEF Release, dbVars, IInv
<1>1. NoFetcher \in Fetcher /\ NoFetcher.readPos = 0 /\ NoFetcher.expected = 0 /\ NoFetcher.at = "closed"
  BY EmptySeq DEF NoFetcher, Fetcher
<1>2. /\ \A g \in Fetchers : fetcher'[g] = IF g = f THEN NoFetcher ELSE fetcher[g]
      /\ \A g \in Fetchers : due'[g] = IF g = f THEN FALSE ELSE due[g]
      /\ fetcher' \in [Fetchers -> Fetcher] /\ due' \in [Fetchers -> BOOLEAN]
  BY <1>0, <1>1 DEF TypeOK, Fetches
<1>3. /\ ring' \in [0 .. CacheSize - 1 -> Item] /\ writePos' \in Nat
      /\ \A i \in 0 .. CacheSize - 1 : ring'[i] = ring[i] \/ ring'[i].rev = 0
  <2>1. CASE UNCHANGED <<ring, writePos>>
    BY <1>0, <2>1 DEF TypeOK
  <2>2. CASE ring' = EmptyRing /\ writePos' = 0
    <3>1. PICK id \in Ids : id = CHOOSE i \in Ids : TRUE
      BY ConstantsAssumption
    <3>2. EmptyRing = [i \in 0 .. CacheSize - 1 |-> [id |-> id, rev |-> 0]]
      BY <3>1 DEF EmptyRing
    <3>3. [id |-> id, rev |-> 0] \in Item
      BY DEF Item
    <3> QED
      BY <2>2, <3>2, <3>3
  <2> QED
    BY <1>0, <2>1, <2>2
<1>4. \A g \in Fetchers : fetcher'[g].readPos <= writePos' /\ fetcher'[g].expected <= writePos'
  <2>1. CASE \A g \in Fetchers \ {f} : fetcher[g].at = "closed"
    <3>1. \A g \in Fetchers : fetcher'[g] = NoFetcher
      BY <1>0, <1>2, <2>1 DEF Fetches
    <3> QED
      BY <1>0, <1>1, <2>1, <3>1
  <2>2. CASE UNCHANGED <<ring, writePos>>
    BY <1>0, <1>1, <1>2, <1>3, <2>2 DEF TypeOK
  <2> QED
    BY <1>0, <2>1, <2>2
<1>5. TypeOK'
  <2>1. \A g \in Fetchers :
          /\ fetcher'[g].at \in {"closed", "cache", "fill", "query", "add", "db"}
          /\ fetcher'[g].tail \in BOOLEAN
    BY <1>2 DEF Fetcher
  <2> QED
    BY <1>0, <1>2, <1>3, <1>4, <2>1 DEF TypeOK
<1>6. Rows'
  BY <1>0 DEF Rows
<1>7. Caches'
  BY <1>0, <1>3 DEF Caches, Version
<1>8. Fetches'
  <2> SUFFICES ASSUME NEW g \in Fetchers
               PROVE  /\ fetcher'[g].at = "closed" => fetcher'[g] = NoFetcher
                      /\ due'[g] => Above(cursor[g])' # {}
                      /\ fetcher'[g].at = "add" => /\ Answers(fetcher[g].batch, cursor[g])'
                                                   /\ due'[g] => fetcher'[g].batch # <<>>
    BY <1>2 DEF Fetches
  <2>1. Above(cursor[g])' = Above(cursor[g])
    BY <1>0 DEF Above
  <2>2. fetcher'[g] = fetcher[g] /\ Answers(fetcher[g].batch, cursor[g]) => Answers(fetcher[g].batch, cursor[g])'
    BY <1>0 DEF Answers, Version
  <2> QED
    BY <1>0, <1>1, <1>2, <2>1, <2>2 DEF Fetches
<1> QED
  BY <1>5, <1>6, <1>7, <1>8 DEF IInv

\* What Feed!Answer gives.
Given(f, to) ==
  \E v \in [Ids -> 0 .. MaxRev] :
    /\ view' = [view EXCEPT ![f] = v]
    /\ \A id \in Ids : \/ v[id] = view[f][id]
                       \/ v[id] \in (cursor[f] + 1 .. to) \cap used /\ v[id] <= rows[id]
    /\ \A id \in Ids : rows[id] \in (cursor[f] + 1 .. to) \ late => v[id] = rows[id]
    /\ \E id \in Ids : v[id] = to

\* A fetcher that gives its watch what answers it.
LEMMA AnsweredInv ==
  ASSUME IInv, NEW f \in Fetchers, NEW fr \in Fetcher, NEW items, items # <<>>,
         Answers(items, cursor[f]), NEW to, to = items[Len(items)].rev,
         fetcher' = [fetcher EXCEPT ![f] = fr], fr.at \in {"cache", "db"},
         fr.readPos <= writePos', fr.expected <= writePos',
         UNCHANGED <<dbVars, backend>>,
         cursor' = [cursor EXCEPT ![f] = to],
         view' = [view EXCEPT ![f] = [id \in Ids |-> LastOf(items, id, view[f][id])]],
         due' = [due EXCEPT ![f] = FALSE],
         faults' \in 0 .. MaxFaults, CacheTyped', Caches', writePos <= writePos'
  PROVE  IInv' /\ to \in used /\ to > cursor[f] /\ Given(f, to)
<1>0. /\ UNCHANGED <<rows, used, late, backend>>
      /\ TypeOK /\ Rows /\ Fetches /\ MaxRev \in Nat
  BY ConstantsAssumption DEF dbVars, IInv
<1>1. PICK n, gt : n = Len(items) /\ to = items[n].rev /\ gt = cursor[f]
  OBVIOUS
<1>2. /\ items \in Seq(Item) /\ n \in Nat /\ n \in 1 .. n
      /\ \A i \in 1 .. n : Version(items[i]) /\ items[i].rev \in Nat /\ items[i].rev > gt /\ items[i].id \in Ids
      /\ \A i, j \in 1 .. n : i < j => items[i].rev < items[j].rev
      /\ gt \in 0 .. MaxRev
  BY <1>0, <1>1, EmptySeq DEF Answers, Version, Item, TypeOK
<1>3. \A i \in 1 .. n : items[i].rev <= to /\ items[i].rev \in used /\ items[i].rev \in gt + 1 .. to
  <2> SUFFICES ASSUME NEW i \in 1 .. n
               PROVE  items[i].rev <= to /\ items[i].rev \in used /\ items[i].rev \in gt + 1 .. to
    OBVIOUS
  <2>1. i = n \/ i < n
    BY <1>2
  <2>2. items[i].rev <= to /\ to \in Nat
    BY <1>1, <1>2, <2>1
  <2> QED
    BY <1>0, <1>2, <2>2 DEF Version
<1>4. to \in used /\ to > gt /\ to \in 1 .. MaxRev
  BY <1>0, <1>1, <1>2, <1>3 DEF TypeOK
<1>5. PICK v : v = [id \in Ids |-> LastOf(items, id, view[f][id])]
  OBVIOUS
<1>6. \A id \in Ids :
        \/ v[id] = view[f][id] /\ \A i \in 1 .. n : items[i].id # id
        \/ \E i \in 1 .. n : /\ items[i].id = id /\ v[id] = items[i].rev
                             /\ \A j \in 1 .. n : items[j].id = id => j <= i
  <2> SUFFICES ASSUME NEW id \in Ids
               PROVE  \/ v[id] = view[f][id] /\ \A i \in 1 .. n : items[i].id # id
                      \/ \E i \in 1 .. n : /\ items[i].id = id /\ v[id] = items[i].rev
                                           /\ \A j \in 1 .. n : items[j].id = id => j <= i
    OBVIOUS
  <2>1. PICK rev : rev = view[f][id]
    OBVIOUS
  <2>2. v[id] = LastOf(items, id, rev)
    BY <1>5, <2>1
  <2>3. \/ LastOf(items, id, rev) = rev /\ \A i \in 1 .. Len(items) : items[i].id # id
        \/ \E i \in 1 .. Len(items) :
             /\ items[i].id = id /\ LastOf(items, id, rev) = items[i].rev
             /\ \A j \in 1 .. Len(items) : items[j].id = id => j <= i
    BY <1>2, LastIs
  <2> QED
    BY <1>1, <2>1, <2>2, <2>3
<1>7. \A id \in Ids : \/ v[id] = view[f][id]
                      \/ v[id] \in (gt + 1 .. to) \cap used /\ v[id] <= rows[id]
  BY <1>2, <1>3, <1>6 DEF Version
<1>8. ASSUME NEW id \in Ids, rows[id] \in (gt + 1 .. to) \ late PROVE v[id] = rows[id]
  <2>1. PICK i \in 1 .. n : items[i].id = id /\ items[i].rev = rows[id]
    BY <1>1, <1>8 DEF Answers
  <2>2. PICK k \in 1 .. n : /\ items[k].id = id /\ v[id] = items[k].rev
                            /\ \A j \in 1 .. n : items[j].id = id => j <= k
    BY <1>6, <2>1
  <2>3. i <= k /\ items[k].rev <= rows[id]
    BY <1>2, <2>1, <2>2 DEF Version
  <2>4. i = k
    <3> SUFFICES ASSUME i < k PROVE FALSE
      BY <1>2, <2>3
    <3>1. rows[id] < items[k].rev /\ rows[id] \in Nat /\ items[k].rev \in Nat
      BY <1>2, <2>1
    <3> QED
      BY <2>3, <3>1
  <2> QED
    BY <2>1, <2>2, <2>4
<1>9. \E id \in Ids : v[id] = to
  <2>1. PICK id \in Ids : id = items[n].id
    BY <1>2
  <2>2. PICK i \in 1 .. n : /\ v[id] = items[i].rev /\ \A j \in 1 .. n : items[j].id = id => j <= i
    BY <1>2, <1>6, <2>1
  <2>3. i = n
    BY <1>2, <2>1, <2>2
  <2> QED
    BY <1>1, <2>2, <2>3
<1>10. v \in [Ids -> 0 .. MaxRev]
  <2>1. \A id \in Ids : view[f][id] \in 0 .. MaxRev /\ rows[id] \in 0 .. MaxRev
    BY <1>0 DEF TypeOK
  <2>2. \A id \in Ids : v[id] \in 0 .. MaxRev
    BY <1>0, <1>7, <2>1 DEF TypeOK
  <2> QED
    BY <1>5, <2>2
<1>11. /\ \A g \in Fetchers : fetcher'[g] = IF g = f THEN fr ELSE fetcher[g]
       /\ \A g \in Fetchers : due'[g] = IF g = f THEN FALSE ELSE due[g]
       /\ \A g \in Fetchers : cursor'[g] = IF g = f THEN to ELSE cursor[g]
       /\ fetcher' \in [Fetchers -> Fetcher] /\ due' \in [Fetchers -> BOOLEAN]
       /\ cursor' \in [Fetchers -> 0 .. MaxRev] /\ view' \in [Fetchers -> [Ids -> 0 .. MaxRev]]
       /\ cursor' = [cursor EXCEPT ![f] = to] /\ view' = [view EXCEPT ![f] = v]
  BY <1>0, <1>1, <1>4, <1>5, <1>10 DEF TypeOK, Fetches
<1>12. TypeOK'
  <2>1. \A g \in Fetchers :
          /\ fetcher'[g].at \in {"closed", "cache", "fill", "query", "add", "db"}
          /\ fetcher'[g].tail \in BOOLEAN
    BY <1>11 DEF Fetcher
  <2>2. ASSUME NEW g \in Fetchers
        PROVE  fetcher'[g].readPos <= writePos' /\ fetcher'[g].expected <= writePos'
    <3>1. CASE g = f
      BY <1>11, <3>1
    <3>2. CASE g # f
      <4>1. fetcher[g].readPos \in Nat /\ fetcher[g].expected \in Nat
        BY <1>0 DEF Fetches, Fetcher
      <4> QED
        BY <1>0, <1>11, <3>2, <4>1 DEF TypeOK, CacheTyped
    <3> QED
      BY <3>1, <3>2
  <2>3. \A i \in 1 .. Len(stream') : stream'[i] \in Item
    BY ElementOfSeq DEF Caches
  <2> QED
    BY <1>0, <1>11, <2>1, <2>2, <2>3 DEF TypeOK, CacheTyped
<1>13. Rows'
  BY <1>0, <1>4, <1>11 DEF Rows
<1>14. Fetches'
  <2> SUFFICES ASSUME NEW g \in Fetchers
               PROVE  /\ fetcher'[g].at = "closed" => fetcher'[g] = NoFetcher
                      /\ due'[g] => Above(cursor[g])' # {}
                      /\ fetcher'[g].at = "add" => /\ Answers(fetcher[g].batch, cursor[g])'
                                                   /\ due'[g] => fetcher'[g].batch # <<>>
    BY <1>11 DEF Fetches
  <2>1. CASE g = f
    BY <1>11, <2>1
  <2>2. CASE g # f
    <3>1. Above(cursor[g])' = Above(cursor[g])
      BY <1>0, <1>11, <2>2 DEF Above
    <3>2. Answers(fetcher[g].batch, cursor[g]) => Answers(fetcher[g].batch, cursor[g])'
      BY <1>0, <1>11, <2>2 DEF Answers, Version
    <3> QED
      BY <1>0, <1>11, <2>2, <3>1, <3>2 DEF Fetches
  <2> QED
    BY <2>1, <2>2
<1>15. IInv'
  BY <1>12, <1>13, <1>14 DEF IInv
<1>16. Given(f, to)
  BY <1>1, <1>7, <1>8, <1>9, <1>10, <1>11 DEF Given
<1> QED
  BY <1>1, <1>4, <1>15, <1>16

-----------------------------------------------------------------------------
\* What a step is to the feed: one of its steps, or none.
FeedStep == [Feed!Next]_(Feed!vars)
IsOpen == [f \in Fetchers |-> fetcher[f].at # "closed"]

\* To the feed, a fetcher that stays open at its cursor asks, or does nothing.
LEMMA MovedFeed ==
  ASSUME IInv, NEW f \in Fetchers, NEW fr, NEW d \in BOOLEAN,
         fetcher' = [fetcher EXCEPT ![f] = fr], fr.at # "closed", fetcher[f].at # "closed",
         UNCHANGED <<dbVars, cursor, view>>,
         due' = [due EXCEPT ![f] = d], d = due[f] \/ (d = TRUE /\ Above(cursor[f]) # {})
  PROVE  FeedStep
<1>0. /\ UNCHANGED <<rows, used, late, cursor, view>> /\ fetcher \in [Fetchers -> Fetcher]
      /\ due \in [Fetchers -> BOOLEAN]
  BY DEF IInv, Fetches, TypeOK, dbVars
<1>1. IsOpen' = IsOpen
  BY <1>0 DEF IsOpen
<1>2. CASE d = due[f]
  <2>1. due' = due
    BY <1>0, <1>2
  <2> QED
    BY <1>0, <1>1, <2>1 DEF FeedStep, Feed!vars, Feed!readers, IsOpen
<1>3. CASE d = TRUE /\ Above(cursor[f]) # {}
  <2>1. \E id \in Ids : rows[id] > cursor[f]
    BY <1>3 DEF Above
  <2>2. IsOpen[f]
    BY DEF IsOpen
  <2>3. Feed!Ask(f)
    BY <1>0, <1>1, <1>3, <2>1, <2>2 DEF Feed!Ask, IsOpen
  <2> QED
    BY <2>3 DEF FeedStep, Feed!Next
<1> QED
  BY <1>2, <1>3

\* A Fetch that returns: its items answer the watch, or its transaction is retried.
LEMMA Replied ==
  ASSUME IInv, NEW f \in Fetchers, NEW fr \in Fetcher, NEW items, Reply(f, fr, items),
         fetcher[f].at # "closed", Answers(items, cursor[f]), items = <<>> => ~ due[f],
         fr.readPos <= writePos', UNCHANGED <<dbVars, backend>>,
         CacheTyped', Caches', writePos <= writePos'
  PROVE  IInv' /\ FeedStep
<1> DEFINE nf == [fr EXCEPT !.at = IF fr.tail THEN "cache" ELSE "db", !.expected = 0, !.batch = <<>>]
<1>0. /\ UNCHANGED <<rows, used, late, backend>>
      /\ TypeOK /\ Rows /\ Fetches /\ writePos' \in Nat
  BY DEF dbVars, IInv, CacheTyped
<1>1. /\ nf \in Fetcher /\ nf.at \in {"cache", "db"} /\ nf.at # "closed" /\ nf.at # "add"
      /\ nf.readPos = fr.readPos /\ nf.expected = 0
  BY EmptySeq DEF Fetcher
<1>2. nf.readPos <= writePos' /\ nf.expected <= writePos'
  BY <1>0, <1>1
<1>3. fetcher' = [fetcher EXCEPT ![f] = nf]
  BY DEF Reply
<1>r. \/ /\ cursor' = [cursor EXCEPT ![f] = IF items = <<>> THEN cursor[f] ELSE items[Len(items)].rev]
         /\ view' = [view EXCEPT ![f] = [id \in Ids |-> LastOf(items, id, view[f][id])]]
         /\ due' = [due EXCEPT ![f] = FALSE] /\ faults' = faults
      \/ Fault /\ UNCHANGED replyVars
  BY DEF Reply
<1>s. items \in Seq(Item)
  BY DEF Answers
<1> HIDE DEF nf
<1>4. CASE Fault /\ UNCHANGED replyVars
  <2>1. /\ faults' \in 0 .. MaxFaults /\ UNCHANGED <<cursor, view>>
        /\ due' = [due EXCEPT ![f] = due[f]] /\ due[f] \in BOOLEAN
        /\ due[f] => Above(cursor[f]) # {}
    BY <1>0, <1>4, ConstantsAssumption DEF Fault, TypeOK, Fetches, replyVars
  <2>2. IInv'
    BY <1>1, <1>2, <1>3, <2>1, MovedInv
  <2>3. FeedStep
    BY <1>1, <1>3, <2>1, MovedFeed
  <2> QED
    BY <2>2, <2>3
<1>5. CASE items = <<>> /\ ~ (Fault /\ UNCHANGED replyVars)
  <2>1. cursor' = [cursor EXCEPT ![f] = cursor[f]] /\ due' = [due EXCEPT ![f] = FALSE] /\ faults' = faults
        /\ view' = [view EXCEPT ![f] = [id \in Ids |-> LastOf(items, id, view[f][id])]]
    BY <1>r, <1>5
  <2>2. \A id \in Ids : LastOf(items, id, view[f][id]) = view[f][id]
    <3> SUFFICES ASSUME NEW id \in Ids PROVE LastOf(items, id, view[f][id]) = view[f][id]
      OBVIOUS
    <3>1. PICK rev : rev = view[f][id]
      OBVIOUS
    <3>2. items \in Seq(Item) /\ Len(items) = 0
      BY <1>5, EmptySeq
    <3>3. ~ \E i \in 1 .. Len(items) : TRUE
      BY <3>2
    <3>4. LastOf(items, id, rev) = rev
      <4>1. \/ LastOf(items, id, rev) = rev /\ \A i \in 1 .. Len(items) : items[i].id # id
            \/ \E i \in 1 .. Len(items) :
                 /\ items[i].id = id /\ LastOf(items, id, rev) = items[i].rev
                 /\ \A j \in 1 .. Len(items) : items[j].id = id => j <= i
        BY <1>s, LastIs
      <4> QED
        BY <3>3, <4>1
    <3> QED
      BY <3>1, <3>4
  <2>3. view' = view /\ cursor' = cursor /\ faults' \in 0 .. MaxFaults
    <3>1. view[f] = [id \in Ids |-> LastOf(items, id, view[f][id])]
      BY <1>0, <2>2 DEF TypeOK
    <3> QED
      BY <1>0, <2>1, <3>1 DEF TypeOK
  <2>4. due[f] = FALSE
    BY <1>0, <1>5 DEF TypeOK
  <2>5. IInv'
    BY <1>1, <1>2, <1>3, <2>1, <2>3, MovedInv
  <2>6. FeedStep
    BY <1>1, <1>3, <2>1, <2>3, <2>4, MovedFeed
  <2> QED
    BY <2>5, <2>6
<1>6. CASE items # <<>> /\ ~ (Fault /\ UNCHANGED replyVars)
  <2>p. PICK to : to = items[Len(items)].rev
    OBVIOUS
  <2>1. /\ cursor' = [cursor EXCEPT ![f] = to] /\ due' = [due EXCEPT ![f] = FALSE]
        /\ view' = [view EXCEPT ![f] = [id \in Ids |-> LastOf(items, id, view[f][id])]]
        /\ faults' \in 0 .. MaxFaults
    BY <1>0, <1>r, <1>6, <2>p DEF TypeOK
  <2>2. IInv' /\ to \in used /\ to > cursor[f] /\ Given(f, to)
    BY <1>1, <1>2, <1>3, <1>6, <2>p, <2>1, AnsweredInv
  <2>3. IsOpen' = IsOpen /\ IsOpen[f]
    BY <1>0, <1>1, <1>3 DEF IsOpen, Fetches
  <2>4. Feed!Answer(f, to)
    BY <1>0, <2>1, <2>2, <2>3 DEF Feed!Answer, IsOpen, Given
  <2>5. to \in 1 .. MaxRev
    BY <1>0, <2>2 DEF TypeOK
  <2> QED
    BY <2>2, <2>4, <2>5 DEF FeedStep, Feed!Next
<1> QED
  BY <1>r, <1>4, <1>5, <1>6

-----------------------------------------------------------------------------
\* A cache that a step leaves alone.
LEMMA CacheKept ==
  ASSUME IInv, UNCHANGED <<dbVars, cacheVars>>
  PROVE  CacheTyped' /\ Caches' /\ writePos' = writePos /\ writePos \in Nat
BY DEF IInv, TypeOK, CacheTyped, Caches, Version, dbVars, cacheVars

\* The fields of a fetcher that is open.
LEMMA InHand ==
  ASSUME IInv, NEW f \in Fetchers
  PROVE  /\ fetcher[f] \in Fetcher /\ fetcher[f].readPos \in Nat /\ fetcher[f].expected \in Nat
         /\ fetcher[f].readPos <= writePos /\ fetcher[f].expected <= writePos /\ writePos \in Nat
         /\ faults \in 0 .. MaxFaults /\ due[f] \in BOOLEAN /\ due = [due EXCEPT ![f] = due[f]]
         /\ due[f] => Above(cursor[f]) # {}
BY DEF IInv, Fetches, TypeOK, Fetcher

\* Open.
LEMMA OpenInv ==
  ASSUME IInv, NEW f \in Fetchers, Open(f)
  PROVE  IInv' /\ FeedStep
<1> DEFINE fr == [fetcher[f] EXCEPT !.at = "db"]
<1>1. /\ fetcher[f].at = "closed" /\ fetcher' = [fetcher EXCEPT ![f].at = "db"]
      /\ UNCHANGED <<rows, used, late, backend, cursor, view, due, faults>>
      /\ UNCHANGED <<dbVars, cacheVars>>
  BY DEF Open, dbVars, cacheVars, replyVars
<1>2. /\ fr \in Fetcher /\ fr.at = "db" /\ fr.readPos = fetcher[f].readPos
      /\ fr.expected = fetcher[f].expected
      /\ fetcher' = [fetcher EXCEPT ![f] = fr]
  BY <1>1, InHand DEF Fetcher, IInv, Fetches
<1> HIDE DEF fr
<1>3. CacheTyped' /\ Caches' /\ writePos' = writePos /\ writePos <= writePos'
  BY <1>1, CacheKept
<1>4. IInv'
  <2>1. /\ due' = [due EXCEPT ![f] = due[f]] /\ due[f] \in BOOLEAN /\ (due[f] => Above(cursor[f]) # {})
        /\ faults' \in 0 .. MaxFaults /\ fr.at # "closed" /\ fr.at # "add"
    BY <1>1, <1>2, InHand
  <2>2. fr.readPos <= writePos' /\ fr.expected <= writePos'
    BY <1>2, <1>3, InHand
  <2> QED
    BY <1>1, <1>2, <1>3, <2>1, <2>2, MovedInv
<1>5. FeedStep
  <2>1. ~ IsOpen[f] /\ IsOpen' = [IsOpen EXCEPT ![f] = TRUE]
    BY <1>1, <1>2 DEF IsOpen, IInv, Fetches
  <2>2. Feed!Open(f)
    BY <1>1, <2>1 DEF Feed!Open, IsOpen
  <2> QED
    BY <2>2 DEF FeedStep, Feed!Next
<1> QED
  BY <1>4, <1>5

\* Close, and a query that fails and ends the watch.
LEMMA ReleasedInv ==
  ASSUME IInv, NEW f \in Fetchers, Close(f) \/ QueryFails(f)
  PROVE  IInv' /\ FeedStep
<1>1. /\ fetcher[f].at # "closed" /\ Release(f) /\ faults' \in 0 .. MaxFaults
  BY InHand, ConstantsAssumption DEF Close, QueryFails, Fault
<1>2. IInv'
  BY <1>1, ReleaseInv
<1>3. /\ UNCHANGED <<rows, used, late, cursor, view>>
      /\ fetcher' = [fetcher EXCEPT ![f] = NoFetcher] /\ due' = [due EXCEPT ![f] = FALSE]
  BY <1>1 DEF Release, dbVars
<1>4. IsOpen[f] /\ IsOpen' = [IsOpen EXCEPT ![f] = FALSE]
  BY <1>1, <1>3 DEF IsOpen, NoFetcher, IInv, Fetches
<1>5. Feed!Close(f)
  BY <1>3, <1>4 DEF Feed!Close, IsOpen
<1> QED
  BY <1>2, <1>5 DEF FeedStep, Feed!Next

\* A transaction commits: the feed sees the same.
LEMMA CommitFeed ==
  ASSUME IInv, NEW id \in Ids, NEW rev \in 1 .. MaxRev, Commit(id, rev)
  PROVE  FeedStep
<1>1. IsOpen' = IsOpen
  BY DEF Commit, IsOpen
<1>2. late' = late \cup {r \in {rev} : \E q \in used : q > r}
  BY DEF Commit
<1>3. Feed!Commit(id, rev)
  BY <1>1, <1>2 DEF Commit, Feed!Commit, Feed!readers, IsOpen, replyVars
<1> QED
  BY <1>3 DEF FeedStep, Feed!Next

\* Steps that move a fetcher on and give nothing.
LEMMA WentOnInv ==
  ASSUME IInv, NEW f \in Fetchers, NEW fr \in Fetcher,
         fetcher[f].at # "closed", fr.at \notin {"closed", "add"},
         fr.readPos = fetcher[f].readPos, fr.expected = fetcher[f].expected,
         fetcher' = [fetcher EXCEPT ![f] = fr],
         UNCHANGED <<dbVars, backend>>, UNCHANGED replyVars, faults' = faults \/ Fault,
         CacheTyped', Caches', writePos <= writePos'
  PROVE  IInv' /\ FeedStep
<1>1. /\ UNCHANGED <<cursor, view>> /\ due' = [due EXCEPT ![f] = due[f]] /\ due[f] \in BOOLEAN
      /\ due[f] => Above(cursor[f]) # {}
  BY InHand DEF replyVars
<1>2. faults' \in 0 .. MaxFaults
  BY InHand, ConstantsAssumption DEF Fault
<1>3. fr.readPos <= writePos' /\ fr.expected <= writePos' /\ fr.at # "closed" /\ fr.at # "add"
  BY InHand DEF CacheTyped
<1>4. IInv'
  BY <1>1, <1>2, <1>3, MovedInv
<1>5. FeedStep
  BY <1>1, <1>3, MovedFeed
<1> QED
  BY <1>4, <1>5

\* A fetcher that is not at the tail queries.
LEMMA DbFetchInv ==
  ASSUME IInv, NEW f \in Fetchers, DbFetch(f)
  PROVE  IInv' /\ FeedStep
<1> DEFINE batch == FetchFn(cursor[f])
           fr == [fetcher[f] EXCEPT !.tail = @ \/ batch = <<>>]
<1>1. /\ fetcher[f].at = "db" /\ Reply(f, fr, batch)
      /\ UNCHANGED <<dbVars, backend>> /\ UNCHANGED <<dbVars, cacheVars>>
  BY DEF DbFetch
<1>2. Answers(batch, cursor[f]) /\ (batch = <<>> => ~ due[f])
  BY Queried, InHand DEF IInv
<1>3. fr \in Fetcher /\ fr.readPos = fetcher[f].readPos
  BY InHand DEF Fetcher
<1> HIDE DEF batch, fr
<1>4. CacheTyped' /\ Caches' /\ writePos <= writePos' /\ fr.readPos <= writePos'
  BY <1>1, <1>3, CacheKept, InHand
<1> QED
  BY <1>1, <1>2, <1>3, <1>4, Replied

\* redisfm: XRANGE, then the query, or XREAD fails.
LEMMA RedisStepsInv ==
  ASSUME IInv, NEW f \in Fetchers, XReadFails(f) \/ RedisCheck(f)
  PROVE  IInv' /\ FeedStep
<1>1. /\ UNCHANGED <<dbVars, backend>> /\ UNCHANGED <<dbVars, cacheVars>> /\ UNCHANGED replyVars
      /\ fetcher[f].at # "closed" /\ (faults' = faults \/ Fault)
  BY DEF XReadFails, RedisCheck, Goto
<1>2. PICK fr \in Fetcher :
        /\ fr.at \notin {"closed", "add"}
        /\ fr.readPos = fetcher[f].readPos /\ fr.expected = fetcher[f].expected
        /\ fetcher' = [fetcher EXCEPT ![f] = fr]
  <2>1. fetcher[f] \in Fetcher /\ fetcher \in [Fetchers -> Fetcher]
    BY InHand DEF IInv, Fetches
  <2>2. CASE XReadFails(f)
    <3> DEFINE fr == [fetcher[f] EXCEPT !.tail = FALSE, !.at = "db"]
    <3>1. fr \in Fetcher /\ fr.at = "db" /\ fr.readPos = fetcher[f].readPos /\ fr.expected = fetcher[f].expected
      BY <2>1 DEF Fetcher
    <3>2. fetcher' = [fetcher EXCEPT ![f] = fr]
      BY <2>1, <2>2 DEF XReadFails
    <3> QED
      BY <3>1, <3>2
  <2>3. ASSUME NEW to \in {"cache", "query"}, fetcher' = [fetcher EXCEPT ![f].at = to]
        PROVE  \E fr \in Fetcher :
                 /\ fr.at \notin {"closed", "add"}
                 /\ fr.readPos = fetcher[f].readPos /\ fr.expected = fetcher[f].expected
                 /\ fetcher' = [fetcher EXCEPT ![f] = fr]
    <3> DEFINE fr == [fetcher[f] EXCEPT !.at = to]
    <3>1. fr \in Fetcher /\ fr.at = to /\ fr.readPos = fetcher[f].readPos /\ fr.expected = fetcher[f].expected
      BY <2>1 DEF Fetcher
    <3>2. fetcher' = [fetcher EXCEPT ![f] = fr]
      BY <2>1, <2>3
    <3> QED
      BY <3>1, <3>2
  <2>4. RedisCheck(f) => \E to \in {"cache", "query"} : fetcher' = [fetcher EXCEPT ![f].at = to]
    BY DEF RedisCheck, Goto
  <2> QED
    BY <2>2, <2>3, <2>4
<1>3. CacheTyped' /\ Caches' /\ writePos <= writePos'
  BY <1>1, CacheKept
<1> QED
  BY <1>1, <1>2, <1>3, WentOnInv

\* redisfm: the query of a Fill.
LEMMA RedisQueryInv ==
  ASSUME IInv, NEW f \in Fetchers, RedisQuery(f)
  PROVE  IInv' /\ FeedStep
<1> DEFINE batch == FetchFn(cursor[f])
           fr == [fetcher[f] EXCEPT !.at = "add", !.batch = batch]
<1>1. /\ fetcher[f].at = "query" /\ fetcher' = [fetcher EXCEPT ![f].at = "add", ![f].batch = batch]
      /\ UNCHANGED <<dbVars, backend>> /\ UNCHANGED <<dbVars, cacheVars>> /\ UNCHANGED <<cursor, view, due>>
      /\ faults' = faults
  BY DEF RedisQuery, replyVars
<1>2. Answers(batch, cursor[f]) /\ (due[f] => batch # <<>>)
  BY Queried, InHand DEF IInv
<1>3. /\ fr \in Fetcher /\ fr.readPos = fetcher[f].readPos /\ fr.expected = fetcher[f].expected
      /\ fr.at = "add" /\ fr.batch = batch
      /\ fetcher' = [fetcher EXCEPT ![f] = fr]
  <2>1. batch \in Seq(Item)
    BY <1>2 DEF Answers
  <2> HIDE DEF batch
  <2>2. fetcher[f] \in Fetcher /\ fetcher \in [Fetchers -> Fetcher]
    BY InHand DEF IInv, Fetches
  <2>3. /\ fr \in Fetcher /\ fr.readPos = fetcher[f].readPos /\ fr.expected = fetcher[f].expected
        /\ fr.at = "add" /\ fr.batch = batch
    BY <2>1, <2>2 DEF Fetcher
  <2>4. fetcher' = [fetcher EXCEPT ![f] = fr]
    BY <1>1, <2>2
  <2> QED
    BY <2>3, <2>4
<1> HIDE DEF batch, fr
<1>4. CacheTyped' /\ Caches' /\ writePos <= writePos' /\ fr.readPos <= writePos' /\ fr.expected <= writePos'
  BY <1>1, <1>3, CacheKept, InHand
<1>5. /\ due' = [due EXCEPT ![f] = due[f]] /\ due[f] \in BOOLEAN /\ (due[f] => Above(cursor[f]) # {})
      /\ faults' \in 0 .. MaxFaults
  BY <1>1, InHand
<1>6. IInv'
  BY <1>1, <1>2, <1>3, <1>4, <1>5, MovedInv
<1>7. FeedStep
  BY <1>1, <1>3, <1>5, MovedFeed
<1> QED
  BY <1>6, <1>7

-----------------------------------------------------------------------------
\* Cells that can be read: versions, or revision 0.
Cells(u) ==
  /\ u \in Seq(Item)
  /\ \A i \in 1 .. Len(u) : u[i].rev \in 0 .. MaxRev /\ (u[i].rev # 0 => Version(u[i]))

\* The mark is the greatest of the cursor and what comes before i.
LEMMA MarkIs ==
  ASSUME NEW gt \in 0 .. MaxRev, NEW u, Cells(u), NEW i \in 1 .. Len(u)
  PROVE  /\ Mark(gt, u, i) \in Nat /\ Mark(gt, u, i) >= gt
         /\ \A j \in 1 .. i - 1 : u[j].rev <= Mark(gt, u, i)
         /\ Mark(gt, u, i) = gt \/ \E j \in 1 .. i - 1 : Mark(gt, u, i) = u[j].rev
<1> DEFINE revs == {gt} \cup {u[j].rev : j \in 1 .. i - 1}
<1>1. Len(u) \in Nat /\ MaxRev \in Nat /\ \A j \in 1 .. i - 1 : j \in 1 .. Len(u)
  BY ConstantsAssumption, LenProperties DEF Cells
<1>2. revs \subseteq Nat /\ revs # {} /\ \A r \in revs : r <= MaxRev
  BY <1>1 DEF Cells
<1>3. \E r \in revs : \A q \in revs : q <= r
  <2> HIDE DEF revs
  <2> QED
    BY <1>1, <1>2, GreatestOne
<1>4. PICK m \in revs : m = Mark(gt, u, i) /\ \A q \in revs : q <= m
  BY <1>3 DEF Mark
<1> QED
  BY <1>2, <1>4

\* What the scan takes before the first gap answers the fetcher.
LEMMA Scanned ==
  ASSUME TypeOK, NEW gt \in 0 .. MaxRev, NEW u, Cells(u), NEW stop \in 1 .. Len(u) + 1,
         \A i \in 1 .. stop - 1 : ~ Gap(gt, u, i)
  PROVE  Answers(Those(u, {i \in 1 .. stop - 1 : Fresh(gt, u, i)}), gt)
<1> DEFINE taken == {i \in 1 .. stop - 1 : Fresh(gt, u, i)}
<1>1. /\ u \in Seq(Item) /\ Len(u) \in Nat /\ MaxRev \in Nat
      /\ \A i \in 1 .. stop - 1 : i \in 1 .. Len(u)
      /\ \A i \in 1 .. Len(u) : u[i].rev \in Nat
  BY ConstantsAssumption, LenProperties DEF Cells
<1>2. \A i \in 1 .. stop - 1 :
        /\ Mark(gt, u, i) \in Nat /\ Mark(gt, u, i) >= gt
        /\ \A j \in 1 .. i - 1 : u[j].rev <= Mark(gt, u, i)
        /\ Mark(gt, u, i) = gt \/ \E j \in 1 .. i - 1 : Mark(gt, u, i) = u[j].rev
  BY <1>1, MarkIs
<1>3. \A i \in taken : Version(u[i]) /\ u[i].rev > gt
  <2> SUFFICES ASSUME NEW i \in 1 .. stop - 1, Fresh(gt, u, i) PROVE Version(u[i]) /\ u[i].rev > gt
    OBVIOUS
  <2>1. u[i].rev > gt
    BY <1>1, <1>2 DEF Fresh
  <2>2. u[i].rev # 0
    BY <1>1, <2>1
  <2> QED
    BY <1>1, <2>1, <2>2 DEF Cells
<1>4. \A i, j \in taken : i < j => u[i].rev < u[j].rev
  <2> SUFFICES ASSUME NEW i \in taken, NEW j \in taken, i < j PROVE u[i].rev < u[j].rev
    OBVIOUS
  <2>1. i \in 1 .. j - 1 /\ i \in Nat /\ j \in 1 .. stop - 1 /\ i \in 1 .. stop - 1
    OBVIOUS
  <2>2. u[i].rev <= Mark(gt, u, j) /\ Mark(gt, u, j) \in Nat /\ u[j].rev > Mark(gt, u, j)
    BY <1>2, <2>1 DEF Fresh
  <2> QED
    BY <1>1, <2>1, <2>2
<1>5. ASSUME NEW L \in taken, NEW r \in gt + 1 .. u[L].rev
      PROVE  \E i \in taken : u[i].rev = r
  <2> DEFINE T == {i \in 1 .. L : u[i].rev >= r}
  <2>1. PICK i \in T : \A j \in T : i <= j
    <3>1. T \subseteq Nat /\ L \in T
      BY <1>1
    <3> HIDE DEF T
    <3> QED
      BY <3>1, LeastOne
  <2>2. i \in 1 .. stop - 1 /\ u[i].rev >= r /\ u[i].rev \in Nat /\ r \in Nat
    BY <1>1
  <2>3. \A j \in 1 .. i - 1 : u[j].rev < r
    <3> SUFFICES ASSUME NEW j \in 1 .. i - 1, u[j].rev >= r PROVE FALSE
      BY <1>1, <2>2
    <3>1. j \in T /\ j < i
      OBVIOUS
    <3> QED
      BY <2>1, <3>1
  <2>4. Mark(gt, u, i) < r /\ Mark(gt, u, i) \in Nat
    BY <1>2, <2>2, <2>3
  <2>5. u[i].rev <= Mark(gt, u, i) + 1
    BY <2>2, <2>4 DEF Gap
  <2>6. u[i].rev = r /\ u[i].rev > Mark(gt, u, i)
    BY <2>2, <2>4, <2>5
  <2> QED
    BY <2>2, <2>6 DEF Fresh
<1>6. taken \in SUBSET (1 .. Len(u))
  BY <1>1
<1> DEFINE items == Those(u, taken)
<1> HIDE DEF taken
<1>8. /\ items \in Seq(Item)
      /\ \A k \in 1 .. Len(items) : \E i \in taken : items[k] = u[i]
      /\ \A k, l \in 1 .. Len(items) : k < l =>
           \E i, j \in taken : i < j /\ items[k] = u[i] /\ items[l] = u[j]
      /\ \A i \in taken : \E k \in 1 .. Len(items) : items[k] = u[i]
  <2>1. u \in Seq(Item)
    BY <1>1
  <2> QED
    BY <1>6, <2>1, ThoseAre
<1> HIDE DEF items
<1>9. \A i \in 1 .. Len(items) : Version(items[i]) /\ items[i].rev > gt
  BY <1>3, <1>8
<1>10. \A i, j \in 1 .. Len(items) : i < j => items[i].rev < items[j].rev
  <2> SUFFICES ASSUME NEW k \in 1 .. Len(items), NEW l \in 1 .. Len(items), k < l
               PROVE  items[k].rev < items[l].rev
    OBVIOUS
  <2>1. PICK i \in taken, j \in taken : i < j /\ items[k] = u[i] /\ items[l] = u[j]
    BY <1>8
  <2>2. u[i].rev < u[j].rev
    BY <1>4, <2>1
  <2> QED
    BY <2>1, <2>2
<1>11. ASSUME items # <<>>, NEW id \in Ids, rows[id] \in gt + 1 .. items[Len(items)].rev
       PROVE  \E i \in 1 .. Len(items) : items[i].id = id /\ items[i].rev = rows[id]
  <2>1. Len(items) \in 1 .. Len(items)
    BY <1>8, <1>11, EmptySeq
  <2>2. PICK L \in taken : items[Len(items)] = u[L]
    BY <1>8, <2>1
  <2>3. PICK i \in taken : u[i].rev = rows[id]
    BY <1>5, <1>11, <2>2
  <2>4. PICK k \in 1 .. Len(items) : items[k] = u[i]
    BY <1>8
  <2>5. items[k].id = id
    BY <1>9, <2>3, <2>4 DEF Version
  <2> QED
    BY <2>3, <2>4, <2>5
<1>12. Answers(items, gt)
  BY <1>8, <1>9, <1>10, <1>11 DEF Answers
<1> QED
  BY <1>12 DEF items, taken

\* What a fetcher reads of the cache.
LEMMA UnreadAre ==
  ASSUME IInv, NEW f \in Fetchers
  PROVE  /\ Cells(Unread(f))
         /\ backend = "memfm" => Len(Unread(f)) = writePos - fetcher[f].readPos
<1>1. /\ CacheSize \in Nat \ {0} /\ MaxRev \in Nat /\ used \subseteq 1 .. MaxRev
      /\ ring \in [0 .. CacheSize - 1 -> Item] /\ backend \in {"memfm", "redis"}
  BY ConstantsAssumption DEF IInv, TypeOK
<1>2. \A x \in Item : x.rev = 0 \/ Version(x) => x.rev \in 0 .. MaxRev /\ (x.rev # 0 => Version(x))
  BY <1>1 DEF Version, Item
<1>3. CASE backend = "memfm"
  <2>1. PICK n \in Nat, from \in Nat : from = fetcher[f].readPos /\ n = writePos - from
    BY InHand
  <2>2. Unread(f) = [k \in 1 .. n |-> ring[(from + k - 1) % CacheSize]]
    BY <1>3, <2>1 DEF Unread
  <2>3. ASSUME NEW k \in 1 .. n
        PROVE  /\ ring[(from + k - 1) % CacheSize] \in Item
               /\ ring[(from + k - 1) % CacheSize].rev = 0 \/ Version(ring[(from + k - 1) % CacheSize])
    <3>1. from + k - 1 \in Nat
      BY <2>3
    <3>2. (from + k - 1) % CacheSize \in 0 .. CacheSize - 1
      BY <1>1, <3>1
    <3> QED
      BY <1>1, <3>2 DEF IInv, Caches
  <2>4. PICK u : u = Unread(f)
    OBVIOUS
  <2>5. u \in Seq(Item) /\ Len(u) = n
    <3> DEFINE cell(k) == ring[(from + k - 1) % CacheSize]
    <3>1. \A k \in 1 .. n : cell(k) \in Item
      BY <2>3
    <3>2. u = [k \in 1 .. n |-> cell(k)]
      BY <2>2, <2>4
    <3> HIDE DEF cell
    <3> QED
      BY <3>1, <3>2
  <2>6. \A k \in 1 .. n : u[k].rev = 0 \/ Version(u[k])
    <3> SUFFICES ASSUME NEW k \in 1 .. n PROVE u[k].rev = 0 \/ Version(u[k])
      OBVIOUS
    <3>1. u[k] = ring[(from + k - 1) % CacheSize]
      BY <2>2, <2>4
    <3> QED
      BY <2>3, <3>1
  <2>7. \A k \in 1 .. n : u[k] \in Item
    BY <2>5, ElementOfSeq
  <2>8. Cells(u)
    BY <1>2, <2>5, <2>6, <2>7 DEF Cells
  <2> QED
    BY <2>1, <2>4, <2>5, <2>8
<1>4. CASE backend = "redis"
  <2> DEFINE above == {i \in 1 .. Len(stream) : stream[i].rev > cursor[f]}
  <2>1. stream \in Seq(Item) /\ above \in SUBSET (1 .. Len(stream))
    BY DEF IInv, Caches
  <2>2. PICK u : u = Unread(f)
    OBVIOUS
  <2>3. u = Those(stream, above)
    BY <1>4, <2>2 DEF Unread
  <2>4. \A i \in above : Version(stream[i])
    BY DEF IInv, Caches
  <2> HIDE DEF above
  <2>5. /\ Those(stream, above) \in Seq(Item)
        /\ \A k \in 1 .. Len(Those(stream, above)) : \E i \in above : Those(stream, above)[k] = stream[i]
    BY <2>1, ThoseAre
  <2>6. u \in Seq(Item) /\ \A k \in 1 .. Len(u) : Version(u[k])
    BY <2>3, <2>4, <2>5
  <2>7. \A k \in 1 .. Len(u) : u[k].rev \in 0 .. MaxRev
    BY <1>2, <2>6 DEF Version
  <2> QED
    BY <1>4, <2>2, <2>6, <2>7 DEF Cells
<1> QED
  BY <1>1, <1>3, <1>4

\* cache.Fetch.
LEMMA CacheFetchInv ==
  ASSUME IInv, NEW f \in Fetchers, CacheFetch(f)
  PROVE  IInv' /\ FeedStep
<1> DEFINE u == Unread(f)
           gaps == {i \in 1 .. Len(u) : Gap(cursor[f], u, i)}
           stop == IF gaps = {} THEN Len(u) + 1 ELSE CHOOSE i \in gaps : \A j \in gaps : i <= j
           taken == {i \in 1 .. stop - 1 : Fresh(cursor[f], u, i)}
           items == Those(u, taken)
           fr == [fetcher[f] EXCEPT !.tail = gaps = {}, !.expected = writePos,
                    !.readPos = IF backend = "redis" THEN @ ELSE @ + (IF gaps = {} THEN Len(u) ELSE stop)]
           at == IF fr.tail THEN "fill" ELSE "db"
           moved == [fr EXCEPT !.at = at]
           d == due[f] \/ Above(cursor[f]) # {}
<1>1. /\ fetcher[f].at = "cache"
      /\ IF items # <<>> THEN Reply(f, fr, items)
         ELSE /\ fetcher' = [fetcher EXCEPT ![f] = moved]
              /\ due' = [due EXCEPT ![f] = @ \/ Above(cursor[f]) # {}]
              /\ UNCHANGED <<cursor, view, faults>>
      /\ UNCHANGED <<dbVars, backend>> /\ UNCHANGED <<dbVars, cacheVars>>
  BY DEF CacheFetch
<1>2. Cells(u) /\ (backend = "memfm" => Len(u) = writePos - fetcher[f].readPos)
  BY UnreadAre
<1>3. Len(u) \in Nat /\ cursor[f] \in 0 .. MaxRev /\ backend \in {"memfm", "redis"} /\ TypeOK
  BY <1>2, LenProperties DEF Cells, IInv, TypeOK
<1> HIDE DEF u
<1>4. stop \in 1 .. Len(u) + 1 /\ (gaps # {} => stop \in 1 .. Len(u))
      /\ \A i \in 1 .. stop - 1 : ~ Gap(cursor[f], u, i)
  <2>1. CASE gaps = {}
    BY <1>3, <2>1
  <2>2. CASE gaps # {}
    <3>1. gaps \subseteq Nat
      BY <1>3
    <3>2. \E i \in gaps : \A j \in gaps : i <= j
      <4> HIDE DEF gaps
      <4> QED
        BY <2>2, <3>1, LeastOne
    <3>3. stop \in gaps /\ \A j \in gaps : stop <= j
      <4> HIDE DEF gaps
      <4> QED
        BY <2>2, <3>2
    <3> HIDE DEF stop
    <3>4. stop \in 1 .. Len(u)
      BY <3>3
    <3>5. \A i \in 1 .. stop - 1 : i \in 1 .. Len(u) /\ i \notin gaps
      BY <1>3, <3>3, <3>4
    <3> QED
      BY <1>3, <3>4, <3>5
  <2> QED
    BY <2>1, <2>2
<1> HIDE DEF stop
<1>5. Answers(items, cursor[f])
  BY <1>2, <1>3, <1>4, Scanned
<1>6. /\ fr \in Fetcher /\ fr.expected = writePos /\ fr.readPos <= writePos
      /\ fr.tail \in BOOLEAN
  <2>1. fetcher[f] \in Fetcher /\ fetcher[f].readPos \in Nat /\ fetcher[f].readPos <= writePos /\ writePos \in Nat
    BY InHand
  <2>2. PICK pos \in Nat : /\ pos = IF backend = "redis" THEN fetcher[f].readPos
                                    ELSE fetcher[f].readPos + (IF gaps = {} THEN Len(u) ELSE stop)
                           /\ pos <= writePos
    BY <1>2, <1>3, <1>4, <2>1
  <2>3. PICK tail \in BOOLEAN : tail = (gaps = {})
    OBVIOUS
  <2>4. fr = [fetcher[f] EXCEPT !.tail = tail, !.expected = writePos, !.readPos = pos]
    BY <2>2, <2>3
  <2> HIDE DEF fr
  <2> QED
    BY <2>1, <2>2, <2>4 DEF Fetcher
<1> HIDE DEF items, fr
<1>7. CacheTyped' /\ Caches' /\ writePos' = writePos /\ writePos <= writePos' /\ fr.readPos <= writePos'
  BY <1>1, <1>6, CacheKept
<1>8. CASE items # <<>>
  <2>1. Reply(f, fr, items) /\ fetcher[f].at # "closed" /\ (items = <<>> => ~ due[f])
    BY <1>1, <1>8
  <2> QED
    BY <1>1, <1>5, <1>6, <1>7, <2>1, Replied
<1>9. CASE items = <<>>
  <2>1. /\ moved \in Fetcher /\ moved.at \in {"fill", "db"} /\ moved.expected = writePos
        /\ moved.readPos = fr.readPos
    BY <1>6 DEF Fetcher
  <2> HIDE DEF moved
  <2>2. d \in BOOLEAN /\ (d => Above(cursor[f]) # {}) /\ (d = due[f] \/ (d = TRUE /\ Above(cursor[f]) # {}))
    BY InHand
  <2>3. /\ fetcher' = [fetcher EXCEPT ![f] = moved] /\ UNCHANGED <<cursor, view>> /\ faults' \in 0 .. MaxFaults
        /\ due' = [due EXCEPT ![f] = d] /\ moved.at # "closed" /\ moved.at # "add"
        /\ moved.readPos <= writePos' /\ moved.expected <= writePos'
    BY <1>1, <1>7, <1>9, <2>1, InHand
  <2> HIDE DEF d
  <2>4. IInv'
    BY <1>1, <1>7, <2>1, <2>2, <2>3, MovedInv
  <2>5. FeedStep
    BY <1>1, <2>2, <2>3, MovedFeed
  <2> QED
    BY <2>4, <2>5
<1> QED
  BY <1>8, <1>9

\* What of a batch is cached: its first items.
LEMMA FirstOfIs ==
  ASSUME NEW batch \in Seq(Item)
  PROVE  /\ FirstOf(batch) \in Seq(Item) /\ Len(FirstOf(batch)) <= Len(batch)
         /\ \A i \in 1 .. Len(FirstOf(batch)) : FirstOf(batch)[i] = batch[i]
<1>1. Len(batch) \in Nat /\ CacheSize \in Nat
  BY ConstantsAssumption, LenProperties
<1>2. PICK n \in 0 .. Len(batch) : n = Least(CacheSize, Len(batch))
  BY <1>1, LeastOfTwo
<1>3. FirstOf(batch) = SubSeq(batch, 1, n)
  BY <1>2 DEF FirstOf
<1>4. SubSeq(batch, 1, n) = [i \in 1 .. n |-> batch[i]] /\ \A i \in 1 .. n : batch[i] \in Item
  <2>1. \A i \in 1 .. n : batch[i] \in Item
    BY <1>1, ElementOfSeq
  <2>2. SubSeq(batch, 1, n) = [i \in 1 .. n |-> batch[i]]
    BY <1>1
  <2> QED
    BY <2>1, <2>2
<1> QED
  BY <1>1, <1>3, <1>4

\* Versions that are in order, the newest after the top of the stream: the stream
\* stays in order and within its size.
LEMMA Added ==
  ASSUME IInv, NEW batch, NEW gt, Answers(batch, gt)
  PROVE  LET s == XAdd(stream, batch)
         IN /\ s \in Seq(Item) /\ Len(s) <= CacheSize /\ \A i \in 1 .. Len(s) : Version(s[i])
            /\ \A i \in 1 .. Len(s) - 1 : s[i].rev < s[i + 1].rev
<1>1. /\ stream \in Seq(Item) /\ Len(stream) \in Nat /\ CacheSize \in Nat
      /\ \A i \in 1 .. Len(stream) : Version(stream[i])
      /\ \A i \in 1 .. Len(stream) - 1 : stream[i].rev < stream[i + 1].rev
      /\ batch \in Seq(Item)
  BY ConstantsAssumption, LenProperties DEF IInv, Caches, TypeOK, Answers
<1>2. PICK top : top = IF stream = <<>> THEN 0 ELSE stream[Len(stream)].rev
  OBVIOUS
<1>3. PICK new : new = FirstOf(batch)
  OBVIOUS
<1>4. /\ new \in Seq(Item) /\ Len(new) \in Nat /\ \A i \in 1 .. Len(new) : Version(new[i])
      /\ \A i, j \in 1 .. Len(new) : i < j => new[i].rev < new[j].rev
  <2>1. /\ new \in Seq(Item) /\ Len(new) <= Len(batch) /\ \A i \in 1 .. Len(new) : new[i] = batch[i]
    BY <1>1, <1>3, FirstOfIs
  <2>2. Len(new) \in Nat /\ Len(batch) \in Nat /\ \A i \in 1 .. Len(new) : i \in 1 .. Len(batch)
    BY <1>1, <2>1, LenProperties
  <2> QED
    BY <2>1, <2>2 DEF Answers
<1> DEFINE over == {i \in 1 .. Len(new) : new[i].rev > top}
<1>5. PICK t : t = Those(new, over)
  OBVIOUS
<1>6. /\ t \in Seq(Item) /\ Len(t) \in Nat
      /\ \A k \in 1 .. Len(t) : Version(t[k]) /\ t[k].rev > top
      /\ \A k, l \in 1 .. Len(t) : k < l => t[k].rev < t[l].rev
  <2>1. over \in SUBSET (1 .. Len(new)) /\ \A i \in over : new[i].rev > top /\ Version(new[i])
    BY <1>4
  <2>2. \A i, j \in over : i < j => new[i].rev < new[j].rev
    BY <1>4
  <2> HIDE DEF over
  <2>3. new \in Seq(Item)
    BY <1>4
  <2>4. /\ Those(new, over) \in Seq(Item)
        /\ \A k \in 1 .. Len(Those(new, over)) : \E i \in over : Those(new, over)[k] = new[i]
        /\ \A k, l \in 1 .. Len(Those(new, over)) : k < l =>
             \E i, j \in over : i < j /\ Those(new, over)[k] = new[i] /\ Those(new, over)[l] = new[j]
    BY <2>1, <2>3, ThoseAre
  <2>5. \A k \in 1 .. Len(t) : Version(t[k]) /\ t[k].rev > top
    BY <1>5, <2>1, <2>4
  <2>6. ASSUME NEW k \in 1 .. Len(t), NEW l \in 1 .. Len(t), k < l PROVE t[k].rev < t[l].rev
    <3>1. PICK i \in over, j \in over : i < j /\ t[k] = new[i] /\ t[l] = new[j]
      BY <1>5, <2>4, <2>6
    <3>2. new[i].rev < new[j].rev
      BY <2>2, <3>1
    <3> QED
      BY <3>1, <3>2
  <2>7. t \in Seq(Item) /\ Len(t) \in Nat
    BY <1>5, <2>4, LenProperties
  <2> QED
    BY <2>5, <2>6, <2>7
<1>7. PICK grown : grown = stream \o t
  OBVIOUS
<1> HIDE DEF over
<1>8. /\ grown \in Seq(Item) /\ Len(grown) = Len(stream) + Len(t)
      /\ \A i \in 1 .. Len(stream) : grown[i] = stream[i]
      /\ \A i \in 1 .. Len(t) : grown[Len(stream) + i] = t[i]
  <2>1. grown \in Seq(Item) /\ Len(grown) = Len(stream) + Len(t)
    BY <1>1, <1>6, <1>7
  <2>2. \A i \in 1 .. Len(stream) : grown[i] = stream[i]
    BY <1>1, <1>6, <1>7
  <2>3. \A i \in 1 .. Len(t) : grown[Len(stream) + i] = t[i]
    BY <1>1, <1>6, <1>7
  <2> QED
    BY <2>1, <2>2, <2>3
<1>n. PICK p \in Nat, q \in Nat : p = Len(stream) /\ q = Len(t) /\ Len(grown) = p + q
  BY <1>1, <1>6, <1>8
<1>9. \A i \in 1 .. Len(grown) : Version(grown[i])
  <2> SUFFICES ASSUME NEW i \in 1 .. Len(grown) PROVE Version(grown[i])
    OBVIOUS
  <2>1. CASE i <= Len(stream)
    BY <1>1, <1>8, <2>1
  <2>2. CASE i > Len(stream)
    <3>1. i - Len(stream) \in 1 .. Len(t) /\ Len(stream) + (i - Len(stream)) = i
      BY <1>1, <1>6, <1>8, <2>2
    <3> QED
      BY <1>6, <1>8, <3>1
  <2> QED
    BY <1>1, <2>1, <2>2
<1>10. \A i \in 1 .. Len(grown) - 1 : grown[i].rev < grown[i + 1].rev
  <2> SUFFICES ASSUME NEW i \in 1 .. Len(grown) - 1 PROVE grown[i].rev < grown[i + 1].rev
    OBVIOUS
  <2>1. CASE i < Len(stream)
    <3>1. i \in 1 .. Len(stream) - 1 /\ i \in 1 .. Len(stream) /\ i + 1 \in 1 .. Len(stream)
      BY <1>1, <2>1
    <3>2. grown[i] = stream[i] /\ grown[i + 1] = stream[i + 1]
      BY <1>8, <3>1
    <3> QED
      BY <1>1, <3>1, <3>2
  <2>2. CASE i = Len(stream)
    <3>1. i \in 1 .. Len(stream) /\ 1 \in 1 .. Len(t) /\ stream # <<>>
      BY <1>1, <1>6, <1>8, <2>2
    <3>2. grown[i] = stream[i] /\ grown[i + 1] = t[1] /\ top = stream[i].rev
      BY <1>2, <1>8, <2>2, <3>1
    <3> QED
      BY <1>6, <3>1, <3>2
  <2>3. CASE i > Len(stream)
    <3>1. PICK k \in 1 .. Len(t) : k = i - Len(stream) /\ k + 1 \in 1 .. Len(t)
      <4>1. i - p \in 1 .. q /\ (i - p) + 1 \in 1 .. q
        BY <1>n, <2>3
      <4> QED
        BY <1>n, <4>1
    <3>2. i = Len(stream) + k /\ i + 1 = Len(stream) + (k + 1) /\ k < k + 1
      BY <1>1, <3>1
    <3>3. grown[i] = t[k] /\ grown[i + 1] = t[k + 1]
      BY <1>8, <3>1, <3>2
    <3> QED
      BY <1>6, <3>1, <3>2, <3>3
  <2> QED
    BY <1>1, <2>1, <2>2, <2>3
<1>11. PICK from \in Nat : /\ from = 1 + (IF Len(grown) > CacheSize THEN Len(grown) - CacheSize ELSE 0)
                           /\ from \in 1 .. Len(grown) + 1 /\ Len(grown) - from + 1 <= CacheSize
  <2>1. PICK n \in Nat : n = Len(grown)
    BY <1>n
  <2>2. CASE n > CacheSize
    <3>1. 1 + (n - CacheSize) \in Nat /\ 1 + (n - CacheSize) \in 1 .. n + 1 /\ n - (1 + (n - CacheSize)) + 1 <= CacheSize
      BY <1>1, <2>2, ConstantsAssumption
    <3> QED
      BY <2>1, <2>2, <3>1
  <2>3. CASE ~ (n > CacheSize)
    <3>1. 1 \in 1 .. n + 1 /\ n - 1 + 1 <= CacheSize
      BY <1>1, <2>3
    <3> QED
      BY <2>1, <2>3, <3>1
  <2> QED
    BY <2>2, <2>3
<1>12. PICK s : s = XAdd(stream, batch)
  OBVIOUS
<1>13. s = SubSeq(grown, from, Len(grown))
  BY <1>2, <1>3, <1>5, <1>7, <1>11, <1>12 DEF XAdd, over
<1>14. PICK m \in Nat : m = Len(grown) - from + 1
  BY <1>1, <1>6, <1>8, <1>11
<1>15. \A i \in 1 .. m : from + i - 1 \in 1 .. Len(grown)
  BY <1>1, <1>6, <1>8, <1>11, <1>14
<1>17. s \in Seq(Item) /\ Len(s) = m /\ \A i \in 1 .. m : s[i] = grown[from + i - 1]
  <2>1. PICK n \in Nat : n = Len(grown)
    BY <1>n
  <2>2. from \in Int /\ n \in Int /\ \A i \in from .. n : grown[i] \in Item
    <3>1. \A i \in from .. n : i \in 1 .. n
      BY <1>11, <2>1
    <3> QED
      BY <1>8, <2>1, <3>1, ElementOfSeq
  <2>3. /\ SubSeq(grown, from, n) \in Seq(Item)
        /\ Len(SubSeq(grown, from, n)) = IF from <= n THEN n - from + 1 ELSE 0
        /\ \A i \in 1 .. n - from + 1 : SubSeq(grown, from, n)[i] = grown[from + i - 1]
    BY <2>2, SubSeqProperties
  <2>4. (IF from <= n THEN n - from + 1 ELSE 0) = m
    BY <1>11, <1>14, <2>1
  <2> QED
    BY <1>13, <1>14, <2>1, <2>3, <2>4
<1>18. \A i \in 1 .. m : Version(s[i])
  BY <1>9, <1>15, <1>17
<1>19. \A i \in 1 .. m - 1 : s[i].rev < s[i + 1].rev
  <2> SUFFICES ASSUME NEW i \in 1 .. m - 1 PROVE s[i].rev < s[i + 1].rev
    OBVIOUS
  <2>1. PICK k \in 1 .. Len(grown) - 1 : k = from + i - 1 /\ k + 1 = from + (i + 1) - 1
    <3>1. PICK n \in Nat : n = Len(grown)
      BY <1>n
    <3>2. from + i - 1 \in 1 .. n - 1 /\ (from + i - 1) + 1 = from + (i + 1) - 1
      BY <1>11, <1>14, <3>1
    <3> QED
      BY <3>1, <3>2
  <2>2. s[i] = grown[k] /\ s[i + 1] = grown[k + 1]
    <3>1. i \in 1 .. m /\ i + 1 \in 1 .. m
      BY <1>14
    <3> QED
      BY <1>17, <2>1, <3>1
  <2> QED
    BY <1>10, <2>2
<1> QED
  BY <1>11, <1>12, <1>14, <1>17, <1>18, <1>19

\* memfm's Fill.
LEMMA MemFillInv ==
  ASSUME IInv, NEW f \in Fetchers, MemFill(f)
  PROVE  IInv' /\ FeedStep
<1> DEFINE batch == FetchFn(cursor[f])
           new == FirstOf(batch)
           mine(i) == {k \in 1 .. Len(new) : (writePos + k - 1) % CacheSize = i}
           back == [fetcher[f] EXCEPT !.at = "cache"]
<1>0. /\ fetcher[f].at = "fill" /\ UNCHANGED <<dbVars, backend>> /\ UNCHANGED dbVars /\ stream' = stream
      /\ IF fetcher[f].expected # writePos
         THEN Goto(f, "cache") /\ UNCHANGED <<ring, writePos, faults>>
         ELSE /\ ring' = [i \in DOMAIN ring |->
                            IF mine(i) = {} THEN ring[i] ELSE new[CHOOSE k \in mine(i) : TRUE]]
              /\ writePos' = writePos + Len(new)
              /\ Reply(f, fetcher[f], batch)
  BY DEF MemFill, dbVars
<1>1. /\ fetcher[f] \in Fetcher /\ fetcher[f].readPos <= writePos /\ writePos \in Nat
      /\ fetcher[f].readPos \in Nat
  BY InHand
<1>2. CASE fetcher[f].expected # writePos
  <2>1. /\ fetcher' = [fetcher EXCEPT ![f] = back] /\ UNCHANGED replyVars /\ faults' = faults
        /\ UNCHANGED <<dbVars, cacheVars>>
    BY <1>0, <1>2 DEF Goto, cacheVars, IInv, Fetches
  <2>2. /\ back \in Fetcher /\ back.at = "cache" /\ back.readPos = fetcher[f].readPos
        /\ back.expected = fetcher[f].expected
    BY <1>1 DEF Fetcher
  <2> HIDE DEF back
  <2>3. CacheTyped' /\ Caches' /\ writePos <= writePos'
    BY <2>1, CacheKept
  <2>4. fetcher[f].at # "closed" /\ back.at \notin {"closed", "add"} /\ (faults' = faults \/ Fault)
    BY <1>0, <2>1, <2>2
  <2> QED
    BY <1>0, <2>1, <2>2, <2>3, <2>4, WentOnInv
<1>3. CASE fetcher[f].expected = writePos
  <2>1. Answers(batch, cursor[f]) /\ (batch = <<>> => ~ due[f])
    BY Queried, InHand DEF IInv
  <2> HIDE DEF batch
  <2>2. /\ new \in Seq(Item) /\ Len(new) \in Nat
        /\ \A k \in 1 .. Len(new) : new[k] \in Item /\ Version(new[k])
    <3>1. new \in Seq(Item) /\ Len(new) <= Len(batch) /\ \A i \in 1 .. Len(new) : new[i] = batch[i]
      BY <2>1, FirstOfIs DEF Answers
    <3>2. Len(new) \in Nat /\ Len(batch) \in Nat
      BY <2>1, <3>1, LenProperties DEF Answers
    <3>3. \A k \in 1 .. Len(new) : Version(new[k])
      BY <2>1, <3>1, <3>2 DEF Answers
    <3> QED
      BY <3>1, <3>2, <3>3, ElementOfSeq
  <2> HIDE DEF new
  <2>3. /\ ring' = [i \in 0 .. CacheSize - 1 |->
                      IF mine(i) = {} THEN ring[i] ELSE new[CHOOSE k \in mine(i) : TRUE]]
        /\ writePos' = writePos + Len(new) /\ ring \in [0 .. CacheSize - 1 -> Item]
    BY <1>0, <1>3 DEF IInv, TypeOK
  <2>4. \A i \in 0 .. CacheSize - 1 : ring'[i] = ring[i] \/ \E k \in 1 .. Len(new) : ring'[i] = new[k]
    <3> SUFFICES ASSUME NEW i \in 0 .. CacheSize - 1, mine(i) # {}
                 PROVE  \E k \in 1 .. Len(new) : ring'[i] = new[k]
      BY <2>3
    <3>1. (CHOOSE k \in mine(i) : TRUE) \in mine(i)
      OBVIOUS
    <3>2. (CHOOSE k \in mine(i) : TRUE) \in 1 .. Len(new)
      BY <3>1
    <3> QED
      BY <2>3, <3>2
  <2>5. ring' \in [0 .. CacheSize - 1 -> Item]
    <3>1. \A i \in 0 .. CacheSize - 1 : ring'[i] \in Item
      BY <2>2, <2>3, <2>4
    <3> HIDE DEF mine
    <3> QED
      BY <2>3, <3>1
  <2>6. CacheTyped'
    BY <1>0, <1>1, <2>2, <2>3, <2>5 DEF CacheTyped, IInv, TypeOK
  <2>7. Caches'
    <3>1. \A i \in 0 .. CacheSize - 1 : ring'[i].rev = 0 \/ Version(ring'[i])
      BY <2>2, <2>4 DEF IInv, Caches
    <3>2. \A x : Version(x)' <=> Version(x)
      BY <1>0 DEF Version, dbVars
    <3> QED
      BY <1>0, <3>1 DEF IInv, Caches, Version, dbVars
  <2>8. /\ Reply(f, fetcher[f], batch) /\ fetcher[f].at # "closed" /\ writePos <= writePos'
        /\ fetcher[f].readPos <= writePos'
    BY <1>0, <1>1, <1>3, <2>2, <2>3
  <2> QED
    BY <1>0, <1>1, <2>1, <2>6, <2>7, <2>8, Replied
<1> QED
  BY <1>2, <1>3

\* redisfm: the XADDs of a Fill.
LEMMA RedisAddInv ==
  ASSUME IInv, NEW f \in Fetchers, RedisAdd(f)
  PROVE  IInv' /\ FeedStep
<1> DEFINE batch == fetcher[f].batch
           back == [fetcher[f] EXCEPT !.at = "cache", !.batch = <<>>]
           added == XAdd(stream, batch)
<1>0. /\ fetcher[f].at = "add" /\ UNCHANGED <<dbVars, backend>> /\ UNCHANGED <<ring, writePos>>
      /\ stream' \in {stream, added} /\ UNCHANGED <<rows, used, late>>
      /\ \/ Reply(f, fetcher[f], batch)
         \/ /\ fetcher' = [fetcher EXCEPT ![f].at = "cache", ![f].batch = <<>>]
            /\ UNCHANGED replyVars /\ (faults' = faults \/ Fault)
  BY DEF RedisAdd, dbVars
<1>1. /\ fetcher[f] \in Fetcher /\ fetcher[f].readPos <= writePos' /\ writePos \in Nat
      /\ fetcher[f].at # "closed" /\ writePos <= writePos'
  BY <1>0, InHand
<1>2. Answers(batch, cursor[f]) /\ (batch = <<>> => ~ due[f])
  BY <1>0, InHand DEF IInv, Fetches
<1>3. /\ back \in Fetcher /\ back.at = "cache" /\ back.readPos = fetcher[f].readPos
      /\ back.expected = fetcher[f].expected
  BY <1>1, EmptySeq DEF Fetcher
<1>4. /\ added \in Seq(Item) /\ Len(added) <= CacheSize /\ \A i \in 1 .. Len(added) : Version(added[i])
      /\ \A i \in 1 .. Len(added) - 1 : added[i].rev < added[i + 1].rev
  BY <1>2, Added
<1> HIDE DEF added
<1>5. /\ stream' \in Seq(Item) /\ Len(stream') <= CacheSize /\ \A i \in 1 .. Len(stream') : Version(stream'[i])
      /\ \A i \in 1 .. Len(stream') - 1 : stream'[i].rev < stream'[i + 1].rev
  BY <1>0, <1>4 DEF IInv, Caches, TypeOK
<1>6. CacheTyped' /\ Caches'
  <2>1. CacheTyped'
    BY <1>0, <1>5 DEF CacheTyped, IInv, TypeOK
  <2>2. PICK s : s = stream'
    OBVIOUS
  <2>3. s \in Seq(Item) /\ \A i \in 1 .. Len(s) : Version(s[i])'
    BY <1>0, <1>5, <2>2 DEF Version
  <2>4. \A i \in 0 .. CacheSize - 1 : ring[i].rev = 0 \/ Version(ring[i])
    BY DEF IInv, Caches
  <2> QED
    BY <1>0, <2>1, <2>2, <2>3, <2>4 DEF Caches, Version
<1>7. CASE Reply(f, fetcher[f], batch)
  BY <1>0, <1>1, <1>2, <1>6, <1>7, Replied
<1>8. CASE /\ fetcher' = [fetcher EXCEPT ![f].at = "cache", ![f].batch = <<>>]
           /\ UNCHANGED replyVars /\ (faults' = faults \/ Fault)
  <2>1. fetcher' = [fetcher EXCEPT ![f] = back] /\ back.at \notin {"closed", "add"}
    BY <1>3, <1>8 DEF IInv, Fetches
  <2> HIDE DEF back
  <2> QED
    BY <1>0, <1>1, <1>3, <1>6, <1>8, <2>1, WentOnInv
<1> QED
  BY <1>0, <1>7, <1>8

\* The managers start with nothing.
LEMMA InitInv == Init => IInv /\ Feed!Init
<1> SUFFICES ASSUME Init PROVE IInv /\ Feed!Init
  OBVIOUS
<1>1. PICK id \in Ids : id = CHOOSE i \in Ids : TRUE
  BY ConstantsAssumption
<1>2. EmptyRing = [i \in 0 .. CacheSize - 1 |-> [id |-> id, rev |-> 0]] /\ [id |-> id, rev |-> 0] \in Item
  BY <1>1 DEF EmptyRing, Item
<1>3. ring \in [0 .. CacheSize - 1 -> Item] /\ \A i \in 0 .. CacheSize - 1 : ring[i].rev = 0
  BY <1>2 DEF Init
<1>4. NoFetcher \in Fetcher /\ NoFetcher.readPos = 0 /\ NoFetcher.expected = 0 /\ NoFetcher.at = "closed"
  BY EmptySeq DEF NoFetcher, Fetcher
<1>5. stream \in Seq(Item) /\ Len(stream) = 0
  BY EmptySeq DEF Init
<1>6. CacheSize \in Nat \ {0} /\ MaxRev \in Nat /\ MaxFaults \in Nat
  BY ConstantsAssumption
<1>7. fetcher = [g \in Fetchers |-> NoFetcher] /\ \A g \in Fetchers : fetcher[g] = NoFetcher /\ fetcher[g] \in Fetcher
  BY <1>4 DEF Init
<1>8. TypeOK
  <2>1. /\ \A i \in 1 .. Len(stream) : stream[i] \in Item
        /\ \A i \in 1 .. Len(stream) - 1 : stream[i].rev < stream[i + 1].rev
        /\ Len(stream) <= CacheSize
    BY <1>5, <1>6
  <2>2. \A g \in Fetchers :
          /\ fetcher[g].at \in {"closed", "cache", "fill", "query", "add", "db"}
          /\ fetcher[g].tail \in BOOLEAN
          /\ fetcher[g].readPos <= writePos /\ fetcher[g].expected <= writePos
    <3>1. NoFetcher.at = "closed" /\ NoFetcher.tail = FALSE /\ writePos = 0
      BY DEF NoFetcher, Init
    <3> QED
      BY <1>4, <1>7, <3>1 DEF Fetcher
  <2>3. /\ rows \in [Ids -> 0 .. MaxRev] /\ used \subseteq 1 .. MaxRev /\ late \subseteq used
        /\ cursor \in [Fetchers -> 0 .. MaxRev] /\ view \in [Fetchers -> [Ids -> 0 .. MaxRev]]
        /\ due \in [Fetchers -> BOOLEAN] /\ faults \in 0 .. MaxFaults /\ writePos \in Nat
        /\ backend \in {"memfm", "redis"}
    BY <1>6 DEF Init
  <2> QED
    BY <1>3, <2>1, <2>2, <2>3 DEF TypeOK
<1>9. Rows
  BY DEF Rows, Init
<1>10. Caches
  BY <1>3, <1>5 DEF Caches
<1>11. Fetches
  BY <1>4, <1>7 DEF Fetches, Init
<1>12. Feed!Init
  BY <1>4, <1>7 DEF Init, Feed!Init
<1> QED
  BY <1>8, <1>9, <1>10, <1>11, <1>12 DEF IInv

\* Every step keeps the invariant, and is a step of the feed or none.
LEMMA NextInv == IInv /\ [Next]_vars => IInv' /\ FeedStep
<1> SUFFICES ASSUME IInv, [Next]_vars PROVE IInv' /\ FeedStep
  OBVIOUS
<1>1. CASE UNCHANGED vars
  <2>1. UNCHANGED <<rows, used, late, backend, ring, writePos, stream, fetcher, cursor, view, due, faults>>
    BY <1>1 DEF vars, dbVars, cacheVars, replyVars
  <2>2. IInv'
    <3>1. TypeOK' /\ Rows'
      BY <2>1 DEF IInv, TypeOK, Rows
    <3>2. Caches'
      BY <2>1 DEF IInv, Caches, Version
    <3>3. Fetches'
      BY <2>1 DEF IInv, Fetches, Version, Answers, Above
    <3> QED
      BY <3>1, <3>2, <3>3 DEF IInv
  <2>3. FeedStep
    BY <2>1 DEF FeedStep, Feed!vars, Feed!readers
  <2> QED
    BY <2>2, <2>3
<1>2. ASSUME NEW id \in Ids, NEW rev \in 1 .. MaxRev, Commit(id, rev) PROVE IInv' /\ FeedStep
  BY <1>2, CommitInv, CommitFeed
<1>3. ASSUME NEW f \in Fetchers, Open(f) PROVE IInv' /\ FeedStep
  BY <1>3, OpenInv
<1>4. ASSUME NEW f \in Fetchers, Close(f) \/ QueryFails(f) PROVE IInv' /\ FeedStep
  BY <1>4, ReleasedInv
<1>5. ASSUME NEW f \in Fetchers, CacheFetch(f) PROVE IInv' /\ FeedStep
  BY <1>5, CacheFetchInv
<1>6. ASSUME NEW f \in Fetchers, XReadFails(f) \/ RedisCheck(f) PROVE IInv' /\ FeedStep
  BY <1>6, RedisStepsInv
<1>7. ASSUME NEW f \in Fetchers, MemFill(f) PROVE IInv' /\ FeedStep
  BY <1>7, MemFillInv
<1>8. ASSUME NEW f \in Fetchers, RedisQuery(f) PROVE IInv' /\ FeedStep
  BY <1>8, RedisQueryInv
<1>9. ASSUME NEW f \in Fetchers, RedisAdd(f) PROVE IInv' /\ FeedStep
  BY <1>9, RedisAddInv
<1>10. ASSUME NEW f \in Fetchers, DbFetch(f) PROVE IInv' /\ FeedStep
  BY <1>10, DbFetchInv
<1> QED
  BY <1>1, <1>2, <1>3, <1>4, <1>5, <1>6, <1>7, <1>8, <1>9, <1>10 DEF Next, Fetch

-----------------------------------------------------------------------------
\* The inductive invariant holds in every reachable state: what is cached, and what a
\* fetcher carries between its query and its XADDs, are committed versions that
\* answer it.
THEOREM Invariance == Spec => []IInv
<1>1. Init => IInv
  BY InitInv
<1>2. IInv /\ [Next]_vars => IInv'
  BY NextInv
<1> QED
  BY <1>1, <1>2, PTL DEF Spec

\* The Redis stream stays in the order of its revisions and within its size, and no
\* reader of the ring gets ahead of its writer, whatever fetchers fill at once.
THEOREM TypeCorrect == Spec => []TypeOK
<1>1. IInv => TypeOK
  BY DEF IInv
<1> QED
  BY <1>1, Invariance, PTL

\* With either backend the fetch managers implement the ordered feed: no version goes
\* back, none in between is left out, and no empty answer hides a row that was there.
THEOREM ImplementsOrderedFeed == Spec => ImplementsFeed
<1>1. Init => Feed!Init
  BY InitInv
<1>2. IInv /\ [Next]_vars => [Feed!Next]_(Feed!vars)
  BY NextInv DEF FeedStep
<1> QED
  BY <1>1, <1>2, Invariance, PTL DEF Spec, ImplementsFeed, Feed!Spec

\* What the feed gives skips nothing: a row that is committed below a cursor is late.
LEMMA SkipsNothing == NothingSkipped /\ IInv /\ FeedStep => NothingSkipped'
<1> SUFFICES ASSUME NothingSkipped, IInv, FeedStep, NEW f \in Fetchers, NEW id \in Ids,
                    rows'[id] <= cursor'[f], rows'[id] \notin late'
             PROVE  view'[f][id] = rows'[id]
  BY DEF NothingSkipped
<1>0. /\ rows \in [Ids -> 0 .. MaxRev] /\ used \subseteq 1 .. MaxRev /\ MaxRev \in Nat
      /\ cursor \in [Fetchers -> 0 .. MaxRev] /\ view \in [Fetchers -> [Ids -> 0 .. MaxRev]]
      /\ cursor[f] \in used \cup {0}
      /\ rows[id] <= cursor[f] /\ rows[id] \notin late => view[f][id] = rows[id]
  BY ConstantsAssumption DEF IInv, TypeOK, Rows, NothingSkipped
<1>1. CASE UNCHANGED <<rows, late, cursor, view>>
  BY <1>0, <1>1
<1>2. ASSUME NEW j \in Ids, NEW rev \in 1 .. MaxRev, Feed!Commit(j, rev) PROVE view'[f][id] = rows'[id]
  <2>1. /\ rev \notin used /\ rows' = [rows EXCEPT ![j] = rev] /\ UNCHANGED <<cursor, view>>
        /\ late' = late \cup {r \in {rev} : \E q \in used : q > r}
    BY <1>2 DEF Feed!Commit, Feed!readers
  <2>2. j # id
    <3> SUFFICES ASSUME j = id PROVE FALSE
      OBVIOUS
    <3>1. rows'[id] = rev /\ rev <= cursor[f]
      BY <1>0, <2>1
    <3>2. cursor[f] \in used /\ cursor[f] > rev
      BY <1>0, <2>1, <3>1
    <3>3. rev \in late'
      BY <2>1, <3>2
    <3> QED
      BY <3>1, <3>3
  <2> QED
    BY <1>0, <2>1, <2>2
<1>3. ASSUME NEW g \in Fetchers, NEW to, Feed!Answer(g, to) PROVE view'[f][id] = rows'[id]
  <2>1. /\ UNCHANGED <<rows, late>> /\ to > cursor[g] /\ to \in used
        /\ cursor' = [cursor EXCEPT ![g] = to]
        /\ \E v \in [Ids -> 0 .. MaxRev] :
             /\ view' = [view EXCEPT ![g] = v]
             /\ \A i \in Ids : \/ v[i] = view[g][i]
                               \/ v[i] \in (cursor[g] + 1 .. to) \cap used /\ v[i] <= rows[i]
             /\ \A i \in Ids : rows[i] \in (cursor[g] + 1 .. to) \ late => v[i] = rows[i]
    BY <1>3 DEF Feed!Answer
  <2>2. PICK v \in [Ids -> 0 .. MaxRev] :
          /\ view' = [view EXCEPT ![g] = v]
          /\ v[id] = view[g][id] \/ (v[id] \in cursor[g] + 1 .. to /\ v[id] <= rows[id])
          /\ rows[id] \in (cursor[g] + 1 .. to) \ late => v[id] = rows[id]
    BY <2>1
  <2>3. CASE f # g
    BY <1>0, <2>1, <2>2, <2>3
  <2>4. CASE f = g
    <3>1. view'[f][id] = v[id] /\ cursor'[f] = to /\ to \in Nat
      BY <1>0, <2>1, <2>2, <2>4
    <3>2. CASE rows[id] > cursor[f]
      BY <1>0, <2>1, <2>2, <2>4, <3>1, <3>2
    <3>3. CASE rows[id] <= cursor[f]
      <4>1. v[id] = view[f][id]
        BY <1>0, <2>2, <2>4, <3>3
      <4> QED
        BY <1>0, <2>1, <3>1, <3>3, <4>1
    <3> QED
      BY <1>0, <3>2, <3>3
  <2> QED
    BY <2>3, <2>4
<1>4. ASSUME NEW g \in Fetchers, Feed!Open(g) \/ Feed!Close(g) \/ Feed!Ask(g) PROVE view'[f][id] = rows'[id]
  BY <1>1, <1>4 DEF Feed!Open, Feed!Close, Feed!Ask
<1>5. CASE UNCHANGED Feed!vars
  BY <1>1, <1>5 DEF Feed!vars, Feed!readers
<1> QED
  BY <1>2, <1>3, <1>4, <1>5 DEF FeedStep, Feed!Next

\* The cache hides no row from a fetcher, however often it was lapped: a fetcher has
\* been given every row at or below its cursor that was not committed late.
THEOREM NoneSkipped == Spec => []NothingSkipped
<1>1. Init => NothingSkipped
  BY DEF Init, NothingSkipped
<1>2. NothingSkipped /\ IInv /\ [Next]_vars => NothingSkipped'
  BY NextInv, SkipsNothing
<1> QED
  BY <1>1, <1>2, Invariance, PTL DEF Spec
==============================================================================
