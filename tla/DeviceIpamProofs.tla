-------------------------- MODULE DeviceIpamProofs --------------------------
(***************************************************************************)
(* For any devices, VPCs, pools, requests and faults: what a device holds  *)
(* in IPAM is what its row says, or what the request on it has yet to give *)
(* back and has taken so far.                                              *)
(***************************************************************************)
EXTENDS DeviceIpam, SequenceTheorems, FiniteSetTheorems, WellFoundedInduction, TLAPS

\* The calls, by what they carry.
Call ==
  [do : {"acquire"}, ns : Namespaces, fam : Families, ip : {0}, cidr : {Nothing}]
    \cup [do : {"release"}, ns : Namespaces, fam : Families, ip : 1 .. PoolSize, cidr : {Nothing}]
    \cup [do : {"assign", "free"}, ns : Namespaces, fam : Families, ip : {0}, cidr : Cidrs]

\* Calls s have an address of family f to acquire; they have address a to release.
Takes(s, f) == \E i \in 1 .. Len(s) : s[i].do = "acquire" /\ s[i].fam = f
Gives(s, a) == \E i \in 1 .. Len(s) : s[i].do = "release" /\ <<s[i].ns, s[i].fam, s[i].ip>> = a

\* What calls s acquire is in namespace ns.
TakesIn(s, ns) == \A i \in 1 .. Len(s) : s[i].do = "acquire" => s[i].ns = ns

\* An address of a family is acquired once and released once, and all are released
\* before any is acquired.
Compatible(x, y) ==
  /\ x.do = y.do /\ x.do \in {"acquire", "release"} => x.fam # y.fam
  /\ x.do = "acquire" => y.do # "release"
Orderly(s) == \A i, j \in 1 .. Len(s) : i < j => Compatible(s[i], s[j])

\* The address of family f in a device's row.
Number(x, f) == IF f = "v4" THEN x.v4 ELSE x.v6
Address(x, f) == <<NamespaceOf[x.vpc], f, Number(x, f)>>

\* A handler that runs, by itself: it acquires where its row will be, gives up an
\* address only for another, and its row has every address that is not to come.
Handler == [op : {"create", "update", "delete"}, at : {"mark", "ipam"}, dev : Devices,
            new : Row, calls : Seq(Call)]
Runs(h) ==
  /\ h \in Handler /\ Orderly(h.calls)
  /\ h.at = "mark" => h.op = "delete"
  /\ TakesIn(h.calls, NamespaceOf[h.new.vpc])
  /\ h.op = "delete" => \A f \in Families : ~ Takes(h.calls, f)
  /\ h.op # "delete" =>
       /\ h.new.state = "live"
       /\ \A f \in Families : ~ Takes(h.calls, f) => Number(h.new, f) # 0
       /\ \A a \in Addresses : Gives(h.calls, a) => Takes(h.calls, a[2])

\* What a handler that is alone on its device knows of the row x it read.
Reads(h, x) ==
  /\ h.op = "create" => x.state = "new" /\ \A a \in Addresses : ~ Gives(h.calls, a)
  /\ h.op = "update" =>
       /\ x.state = "live"
       /\ NamespaceOf[h.new.vpc] = NamespaceOf[x.vpc] =>
            /\ h.new.v4 = x.v4 /\ h.new.v6 = x.v6
            /\ \A f \in Families : ~ Takes(h.calls, f)
            /\ \A a \in Addresses : ~ Gives(h.calls, a)
  /\ h.op = "delete" /\ h.at = "ipam" => x.state = "deleted"
  /\ h.op = "delete" /\ h.at = "mark" =>
       /\ x.state = "live"
       /\ \A f \in Families : Gives(h.calls, Address(x, f))

Handlers == /\ req \in [Requests -> Handler \cup {Idle}]
            /\ \A r \in Requests : req[r] = Idle \/ Runs(req[r])

\* Unless requests raced, a device has one at a time.
Alone ==
  ~ raced => /\ \A r, q \in Requests : req[r] # Idle /\ req[q].dev = req[r].dev => q = r
             /\ \A r \in Requests : req[r] # Idle => Reads(req[r], row[req[r].dev])

\* Address a is device d's: a request has yet to give it back or has it for the new
\* row, or, if there is no request, it is in the row.
InRow(x, a) == x.state = "live" /\ \E f \in Families : a = Address(x, f)
Has(h, a) == \/ Gives(h.calls, a)
             \/ h.op # "delete" /\ \E f \in Families : ~ Takes(h.calls, f) /\ a = Address(h.new, f)
Holds(d, a) ==
  \/ \E r \in Requests : req[r].dev = d /\ Has(req[r], a)
  \/ (\A r \in Requests : req[r].dev # d) /\ InRow(row[d], a)

\* What a device has is leased for it, and if all went well nothing else is.
Ledger ==
  /\ clean => ~ raced /\ ~ undone
  /\ ~ raced /\ ~ undone => \A d \in Devices, a \in Addresses : Holds(d, a) => lease[a] = d
  /\ clean => \A d \in Devices, a \in Addresses : lease[a] = d => Holds(d, a)

\* The inductive invariant.
IInv == TypeOK /\ Handlers /\ Alone /\ Ledger

-----------------------------------------------------------------------------
\* A set of natural numbers that is not empty has a least member.
LEMMA LeastOne == ASSUME NEW T, T \subseteq Nat, T # {} PROVE \E x \in T : \A y \in T : x <= y
<1>1. \E x \in T : \A y \in T : ~ (<<y, x>> \in OpToRel(<, Nat))
  BY NatLessThanWellFounded, WFMin
<1>2. PICK x \in T : \A y \in T : ~ (<<y, x>> \in OpToRel(<, Nat))
  BY <1>1
<1>3. \A y \in T : ~ (y < x)
  BY <1>2 DEF OpToRel
<1> QED
  BY <1>3

\* How many places are kept up to place k.
Rank(keep, k) == Cardinality({m \in keep : m <= k})

\* Among n places some of which are kept, there is an i-th for every i up to their number.
LEMMA PlaceOf ==
  ASSUME NEW n \in Nat, NEW keep, keep \subseteq 1 .. n, NEW i \in 1 .. Cardinality(keep)
  PROVE  \E k \in keep : Rank(keep, k) = i
<1> DEFINE upTo(k) == {m \in keep : m <= k}
           enough == {k \in 1 .. n : Cardinality(upTo(k)) >= i}
<1>1. IsFiniteSet(keep) /\ Cardinality(keep) \in Nat
  <2>1. IsFiniteSet(1 .. n)
    BY FS_Interval
  <2> QED
    BY <2>1, FS_Subset, FS_CardinalityType
<1>2. \A k : IsFiniteSet(upTo(k)) /\ Cardinality(upTo(k)) \in Nat
  <2> TAKE k
  <2>1. upTo(k) \subseteq keep
    OBVIOUS
  <2> QED
    BY <1>1, <2>1, FS_Subset, FS_CardinalityType
<1>3. PICK k \in enough : \A m \in enough : k <= m
  <2>1. upTo(n) = keep
    <3>1. \A m \in keep : m <= n
      OBVIOUS
    <3> QED
      BY <3>1
  <2>2. n # 0
    <3> HIDE DEF upTo, enough
    <3>1. n = 0 => keep = {}
      <4>1. n = 0 => 1 .. n = {}
        OBVIOUS
      <4> QED
        BY <4>1
    <3>2. Cardinality(keep) # 0
      OBVIOUS
    <3> QED
      BY <3>1, <3>2, FS_EmptySet
  <2>3. n \in enough
    BY <2>1, <2>2, <1>1
  <2>4. enough \subseteq Nat /\ enough # {}
    BY <2>3
  <2> HIDE DEF enough
  <2> QED
    BY <2>4, LeastOne
<1>0. /\ k \in 1 .. n /\ Cardinality(upTo(k)) >= i
      /\ \A m \in 1 .. n : Cardinality(upTo(m)) >= i => k <= m
  BY <1>3
<1> HIDE DEF enough
<1>4. upTo(k) = IF k \in keep THEN upTo(k - 1) \cup {k} ELSE upTo(k - 1)
  <2>1. \A m \in keep : m <= k <=> m <= k - 1 \/ m = k
    BY <1>0
  <2> QED
    BY <2>1
<1>5. Cardinality(upTo(k - 1)) < i
  <2>1. CASE k = 1
    <3>1. \A m \in keep : ~ (m <= k - 1)
      BY <2>1
    <3>2. upTo(k - 1) = {}
      BY <3>1
    <3>3. Cardinality(upTo(k - 1)) = 0
      BY <3>2, FS_EmptySet
    <3> QED
      BY <3>3
  <2>2. CASE k # 1
    <3>1. Cardinality(upTo(k - 1)) \in Nat
      BY <1>2
    <3> HIDE DEF upTo
    <3>2. k - 1 \in 1 .. n /\ ~ (k <= k - 1)
      BY <2>2, <1>0
    <3>3. ~ (Cardinality(upTo(k - 1)) >= i)
      BY <3>2, <1>0
    <3> QED
      BY <3>1, <3>3
  <2> QED
    BY <2>1, <2>2
<1>6. k \in keep
  <2> HIDE DEF upTo
  <2>1. Cardinality(upTo(k)) # Cardinality(upTo(k - 1))
    BY <1>0, <1>5, <1>2
  <2> QED
    BY <2>1, <1>4
<1>7. Cardinality(upTo(k)) <= Cardinality(upTo(k - 1)) + 1
  <2>1. k \notin upTo(k - 1) /\ upTo(k) = upTo(k - 1) \cup {k}
    BY <1>4, <1>6
  <2>2. Cardinality(upTo(k - 1) \cup {k}) = Cardinality(upTo(k - 1)) + 1
    <3> HIDE DEF upTo
    <3> QED
      BY <2>1, <1>2, FS_AddElement
  <2>3. Cardinality(upTo(k - 1)) \in Nat
    BY <1>2
  <2> HIDE DEF upTo
  <2> QED
    BY <2>1, <2>2, <2>3
<1>8. Cardinality(upTo(k)) = i
  <2>1. Cardinality(upTo(k)) \in Nat /\ Cardinality(upTo(k - 1)) \in Nat
    BY <1>2
  <2> HIDE DEF upTo
  <2> QED
    BY <2>1, <1>0, <1>5, <1>7
<1> QED
  BY <1>6, <1>8 DEF Rank

\* What is left of a list is a list.
LEMMA NonDefaultIs ==
  ASSUME NEW s \in Seq(Cidrs)
  PROVE  NonDefault(s) \in Seq(Cidrs)
<1> DEFINE keep == {i \in 1 .. Len(s) : s[i] \notin DefaultRoutes}
           upTo(i) == Cardinality({k \in keep : k <= i})
<1>1. Len(s) \in Nat /\ \A i \in 1 .. Len(s) : s[i] \in Cidrs
  BY LenProperties, ElementOfSeq
<1>2. IsFiniteSet(keep) /\ Cardinality(keep) \in Nat
  <2>1. IsFiniteSet(1 .. Len(s))
    BY <1>1, FS_Interval
  <2> QED
    BY <2>1, FS_Subset, FS_CardinalityType
<1>3. \A n \in 1 .. Cardinality(keep) : s[CHOOSE i \in keep : upTo(i) = n] \in Cidrs
  <2> TAKE n \in 1 .. Cardinality(keep)
  <2>1. \E i \in keep : upTo(i) = n
    <3>1. keep \subseteq 1 .. Len(s)
      OBVIOUS
    <3> HIDE DEF keep
    <3>2. \E k \in keep : Rank(keep, k) = n
      <4> HIDE DEF upTo
      <4> QED
        BY <1>1, <3>1, PlaceOf
    <3> QED
      BY <3>2 DEF Rank
  <2>2. (CHOOSE i \in keep : upTo(i) = n) \in keep
    <3> HIDE DEF keep
    <3> QED
      BY <2>1
  <2> QED
    BY <1>1, <2>2
<1>4. NonDefault(s) = [n \in 1 .. Cardinality(keep) |-> s[CHOOSE i \in keep : upTo(i) = n]]
  BY DEF NonDefault
<1>5. NonDefault(s) \in [1 .. Cardinality(keep) -> Cidrs]
  <2> HIDE DEF keep, upTo
  <2> QED
    BY <1>3, <1>4
<1> HIDE DEF keep, upTo
<1> QED
  BY <1>2, <1>5, SeqDef
-----------------------------------------------------------------------------
\* Calls that concern prefixes alone.
Plain(s) == s \in Seq(Call) /\ \A i \in 1 .. Len(s) : s[i].do \in {"assign", "free"}

\* The calls for a list of prefixes are such.
LEMMA EachAssign ==
  ASSUME NEW ns \in Namespaces, NEW s \in Seq(Cidrs)
  PROVE  Plain(Each(Assign, ns, s))
<1>1. Len(s) \in Nat /\ \A i \in 1 .. Len(s) : s[i] \in Cidrs
  BY LenProperties, ElementOfSeq
<1>2. Each(Assign, ns, s) = [i \in 1 .. Len(s) |-> Assign(ns, s[i])]
  BY DEF Each
<1>3. \A i \in 1 .. Len(s) : Assign(ns, s[i]) \in Call /\ Assign(ns, s[i]).do = "assign"
  BY <1>1 DEF Assign, Call, Families
<1> HIDE DEF Call
<1>4. Each(Assign, ns, s) \in Seq(Call) /\ Len(Each(Assign, ns, s)) = Len(s)
  <2>1. Each(Assign, ns, s) \in [1 .. Len(s) -> Call]
    BY <1>2, <1>3
  <2> QED
    BY <2>1, <1>1, SeqDef, LenProperties
<1> QED
  BY <1>2, <1>3, <1>4 DEF Plain

\* So are those that release them.
LEMMA EachFree ==
  ASSUME NEW ns \in Namespaces, NEW s \in Seq(Cidrs)
  PROVE  Plain(Each(Free, ns, s))
<1>1. Len(s) \in Nat /\ \A i \in 1 .. Len(s) : s[i] \in Cidrs
  BY LenProperties, ElementOfSeq
<1>2. Each(Free, ns, s) = [i \in 1 .. Len(s) |-> Free(ns, s[i])]
  BY DEF Each
<1>3. \A i \in 1 .. Len(s) : Free(ns, s[i]) \in Call /\ Free(ns, s[i]).do = "free"
  BY <1>1 DEF Free, Call, Families
<1> HIDE DEF Call
<1>4. Each(Free, ns, s) \in Seq(Call) /\ Len(Each(Free, ns, s)) = Len(s)
  <2>1. Each(Free, ns, s) \in [1 .. Len(s) -> Call]
    BY <1>2, <1>3
  <2> QED
    BY <2>1, <1>1, SeqDef, LenProperties
<1> QED
  BY <1>2, <1>3, <1>4 DEF Plain

\* The same of the calls for the difference between a row and a request.
LEMMA DiffIs ==
  ASSUME NEW old \in Row, NEW s \in CidrLists
  PROVE  Plain(DiffCalls(old, s))
<1> DEFINE was == NamespaceOf[old.vpc]
           has == {old.cidrs[i] : i \in 1 .. Len(old.cidrs)}
           call(ns, c) == IF c \in has THEN Free(ns, c) ELSE Assign(ns, c)
           list == NonDefault(s)
           calls == [i \in 1 .. Len(list) |-> call(was, list[i])]
<1>0. was \in Namespaces
  BY DEF Row, Namespaces
<1>1. list \in Seq(Cidrs)
  BY ConstantsAssumption, NonDefaultIs
<1> HIDE DEF list, has, was
<1>2. Len(list) \in Nat /\ \A i \in 1 .. Len(list) : list[i] \in Cidrs
  BY <1>1, LenProperties, ElementOfSeq
<1>3. \A i \in 1 .. Len(list) : call(was, list[i]) \in Call /\ call(was, list[i]).do \in {"assign", "free"}
  BY <1>0, <1>2 DEF Assign, Free, Call, Families
<1>4. calls \in Seq(Call) /\ Len(calls) = Len(list)
  <2> HIDE DEF call, Call
  <2>1. calls \in [1 .. Len(list) -> Call]
    BY <1>3
  <2> HIDE DEF calls
  <2> QED
    BY <2>1, <1>2, SeqDef, LenProperties
<1>5. Plain(calls)
  <2> HIDE DEF Call, call
  <2>1. \A i \in 1 .. Len(list) : calls[i] = call(was, list[i])
    OBVIOUS
  <2> HIDE DEF calls
  <2> QED
    BY <1>3, <1>4, <2>1 DEF Plain
<1>6. Plain(<<>>)
  BY DEF Plain
<1>7. DiffCalls(old, s) = IF SameCidrs(old.cidrs, s) THEN <<>> ELSE calls
  BY DEF DiffCalls, Each, calls, call, was, has, list
<1> QED
  BY <1>5, <1>6, <1>7
\* They acquire and release no address.
LEMMA PlainIs ==
  ASSUME NEW s, Plain(s)
  PROVE  s \in Seq(Call) /\ Orderly(s) /\ (\A f : ~ Takes(s, f)) /\ (\A a : ~ Gives(s, a))
BY DEF Plain, Orderly, Compatible, Takes, Gives

\* One call.
LEMMA OneCall ==
  ASSUME NEW x \in Call
  PROVE  /\ <<x>> \in Seq(Call) /\ Orderly(<<x>>)
         /\ \A f : Takes(<<x>>, f) <=> x.do = "acquire" /\ x.fam = f
         /\ \A a : Gives(<<x>>, a) <=> x.do = "release" /\ <<x.ns, x.fam, x.ip>> = a
<1>1. Len(<<x>>) = 1 /\ <<x>>[1] = x /\ <<x>> \in Seq(Call) /\ 1 .. 1 = {1}
  OBVIOUS
<1> HIDE DEF Call
<1> DEFINE s == <<x>>
<1>2. s \in Seq(Call) /\ Len(s) = 1 /\ s[1] = x /\ 1 .. Len(s) = {1}
  BY <1>1
<1> HIDE DEF s
<1>3. Orderly(s)
  BY <1>2 DEF Orderly
<1>4. \A f : Takes(s, f) <=> x.do = "acquire" /\ x.fam = f
  BY <1>2 DEF Takes
<1>5. \A a : Gives(s, a) <=> x.do = "release" /\ <<x.ns, x.fam, x.ip>> = a
  BY <1>2 DEF Gives
<1> QED
  BY <1>2, <1>3, <1>4, <1>5 DEF s

\* Two calls that are compatible.
LEMMA TwoCalls ==
  ASSUME NEW x \in Call, NEW y \in Call, Compatible(x, y)
  PROVE  /\ <<x, y>> \in Seq(Call) /\ Orderly(<<x, y>>)
         /\ \A f : Takes(<<x, y>>, f) <=> \/ x.do = "acquire" /\ x.fam = f
                                          \/ y.do = "acquire" /\ y.fam = f
         /\ \A a : Gives(<<x, y>>, a) <=> \/ x.do = "release" /\ <<x.ns, x.fam, x.ip>> = a
                                          \/ y.do = "release" /\ <<y.ns, y.fam, y.ip>> = a
<1>1. Len(<<x, y>>) = 2 /\ <<x, y>>[1] = x /\ <<x, y>>[2] = y /\ <<x, y>> \in Seq(Call) /\ 1 .. 2 = {1, 2}
  OBVIOUS
<1> HIDE DEF Call
<1> DEFINE s == <<x, y>>
<1>2. s \in Seq(Call) /\ Len(s) = 2 /\ s[1] = x /\ s[2] = y /\ 1 .. Len(s) = {1, 2}
  BY <1>1
<1> HIDE DEF s
<1>3. Orderly(s)
  BY <1>2 DEF Orderly
<1>4. \A f : Takes(s, f) <=> \/ x.do = "acquire" /\ x.fam = f
                             \/ y.do = "acquire" /\ y.fam = f
  BY <1>2 DEF Takes
<1>5. \A a : Gives(s, a) <=> \/ x.do = "release" /\ <<x.ns, x.fam, x.ip>> = a
                             \/ y.do = "release" /\ <<y.ns, y.fam, y.ip>> = a
  BY <1>2 DEF Gives
<1> QED
  BY <1>2, <1>3, <1>4, <1>5 DEF s

\* Calls s, then calls t.
LEMMA Joined ==
  ASSUME NEW s \in Seq(Call), NEW t \in Seq(Call)
  PROVE  /\ s \o t \in Seq(Call)
         /\ \A f : Takes(s \o t, f) <=> Takes(s, f) \/ Takes(t, f)
         /\ \A a : Gives(s \o t, a) <=> Gives(s, a) \/ Gives(t, a)
         /\ \A i \in 1 .. Len(s \o t) : \/ i \in 1 .. Len(s) /\ (s \o t)[i] = s[i]
                                        \/ i - Len(s) \in 1 .. Len(t) /\ (s \o t)[i] = t[i - Len(s)]
<1> DEFINE u == s \o t
<1> HIDE DEF Call
<1>1. /\ u \in Seq(Call) /\ Len(u) = Len(s) + Len(t) /\ Len(s) \in Nat /\ Len(t) \in Nat
      /\ \A i \in 1 .. Len(s) + Len(t) : u[i] = IF i <= Len(s) THEN s[i] ELSE t[i - Len(s)]
  BY ConcatProperties, LenProperties
<1> HIDE DEF u
<1>2. \A i \in 1 .. Len(u) : \/ i \in 1 .. Len(s) /\ u[i] = s[i]
                             \/ i - Len(s) \in 1 .. Len(t) /\ u[i] = t[i - Len(s)]
  BY <1>1
<1>3. \A i \in 1 .. Len(s) : i \in 1 .. Len(u) /\ u[i] = s[i]
  BY <1>1
<1>4. \A i \in 1 .. Len(t) : i + Len(s) \in 1 .. Len(u) /\ u[i + Len(s)] = t[i]
  BY <1>1
<1>5. \A f : Takes(u, f) <=> Takes(s, f) \/ Takes(t, f)
  <2> TAKE f
  <2>1. Takes(s, f) => Takes(u, f)
    BY <1>3 DEF Takes
  <2>2. Takes(t, f) => Takes(u, f)
    BY <1>4 DEF Takes
  <2>3. Takes(u, f) => Takes(s, f) \/ Takes(t, f)
    BY <1>2 DEF Takes
  <2> QED
    BY <2>1, <2>2, <2>3
<1>6. \A a : Gives(u, a) <=> Gives(s, a) \/ Gives(t, a)
  <2> TAKE a
  <2>1. Gives(s, a) => Gives(u, a)
    BY <1>3 DEF Gives
  <2>2. Gives(t, a) => Gives(u, a)
    BY <1>4 DEF Gives
  <2>3. Gives(u, a) => Gives(s, a) \/ Gives(t, a)
    BY <1>2 DEF Gives
  <2> QED
    BY <2>1, <2>2, <2>3
<1> QED
  BY <1>1, <1>2, <1>5, <1>6 DEF u

\* They are in order if both are, acquire nothing twice, release no family twice, and
\* release nothing after acquiring.
LEMMA JoinedOrderly ==
  ASSUME NEW s \in Seq(Call), NEW t \in Seq(Call), Orderly(s), Orderly(t),
         \A f : ~ (Takes(s, f) /\ Takes(t, f)),
         \A a, b : Gives(s, a) /\ Gives(t, b) => a[2] # b[2],
         \A f, a : ~ (Takes(s, f) /\ Gives(t, a))
  PROVE  Orderly(s \o t)
<1> DEFINE u == s \o t
<1> HIDE DEF Call
<1>1. /\ Len(s) \in Nat /\ Len(t) \in Nat /\ Len(u) \in Nat
      /\ \A i \in 1 .. Len(u) : \/ i \in 1 .. Len(s) /\ u[i] = s[i]
                                \/ i - Len(s) \in 1 .. Len(t) /\ u[i] = t[i - Len(s)]
  BY Joined, LenProperties
<1> HIDE DEF u
<1>2. \A i \in 1 .. Len(s), j \in 1 .. Len(t) : Compatible(s[i], t[j])
  <2> TAKE i \in 1 .. Len(s), j \in 1 .. Len(t)
  <2>1. s[i].do = "acquire" => Takes(s, s[i].fam)
    BY DEF Takes
  <2>2. t[j].do = "acquire" => Takes(t, t[j].fam)
    BY DEF Takes
  <2>3. s[i].do = "release" => Gives(s, <<s[i].ns, s[i].fam, s[i].ip>>)
    BY DEF Gives
  <2>4. t[j].do = "release" => Gives(t, <<t[j].ns, t[j].fam, t[j].ip>>)
    BY DEF Gives
  <2>5. s[i].do = "release" /\ t[j].do = "release" => s[i].fam # t[j].fam
    BY <2>3, <2>4
  <2> QED
    BY <2>1, <2>2, <2>4, <2>5 DEF Compatible
<1>3. Orderly(u)
  <2> SUFFICES ASSUME NEW i \in 1 .. Len(u), NEW j \in 1 .. Len(u), i < j
               PROVE  Compatible(u[i], u[j])
    BY DEF Orderly
  <2>1. CASE i \in 1 .. Len(s) /\ u[i] = s[i] /\ j \in 1 .. Len(s) /\ u[j] = s[j]
    BY <2>1 DEF Orderly
  <2>2. CASE i \in 1 .. Len(s) /\ u[i] = s[i] /\ j - Len(s) \in 1 .. Len(t) /\ u[j] = t[j - Len(s)]
    BY <2>2, <1>2
  <2>3. CASE /\ i - Len(s) \in 1 .. Len(t) /\ u[i] = t[i - Len(s)]
             /\ j - Len(s) \in 1 .. Len(t) /\ u[j] = t[j - Len(s)]
    <3>1. i - Len(s) < j - Len(s)
      BY <1>1
    <3> QED
      BY <3>1, <2>3 DEF Orderly
  <2>4. ~ (i - Len(s) \in 1 .. Len(t) /\ j \in 1 .. Len(s))
    BY <1>1
  <2> QED
    BY <1>1, <2>1, <2>2, <2>3, <2>4
<1> QED
  BY <1>3 DEF u
\* Where calls that are joined acquire.
LEMMA JoinedIn ==
  ASSUME NEW s \in Seq(Call), NEW t \in Seq(Call), NEW ns, TakesIn(s, ns), TakesIn(t, ns)
  PROVE  TakesIn(s \o t, ns)
<1> DEFINE u == s \o t
<1> HIDE DEF Call
<1>1. \A i \in 1 .. Len(u) : \/ i \in 1 .. Len(s) /\ u[i] = s[i]
                             \/ i - Len(s) \in 1 .. Len(t) /\ u[i] = t[i - Len(s)]
  BY Joined
<1> HIDE DEF u
<1>2. TakesIn(u, ns)
  BY <1>1 DEF TakesIn
<1> QED
  BY <1>2 DEF u

\* Calls that acquire nothing.
LEMMA NoneIn ==
  ASSUME NEW s, \A f : ~ Takes(s, f), NEW ns
  PROVE  TakesIn(s, ns)
BY DEF Takes, TakesIn

\* What the first call is, and what is left after it.
LEMMA Popped ==
  ASSUME NEW s \in Seq(Call), s # <<>>, Orderly(s)
  PROVE  /\ Head(s) \in Call /\ Tail(s) \in Seq(Call) /\ Orderly(Tail(s))
         /\ \A ns : TakesIn(s, ns) =>
              TakesIn(Tail(s), ns) /\ (Head(s).do = "acquire" => Head(s).ns = ns)
         /\ \A f : Takes(Tail(s), f) <=> Takes(s, f) /\ ~ (Head(s).do = "acquire" /\ Head(s).fam = f)
         /\ \A a : Gives(s, a) <=> \/ Gives(Tail(s), a)
                                   \/ Head(s).do = "release" /\ a = <<Head(s).ns, Head(s).fam, Head(s).ip>>
         /\ \A a : Gives(Tail(s), a) => Head(s).do # "acquire"
         /\ \A a : Gives(Tail(s), a) /\ Head(s).do = "release" => a[2] # Head(s).fam
         /\ Head(s).do = "acquire" => Takes(s, Head(s).fam)
<1> DEFINE x == Head(s)
           t == Tail(s)
<1> HIDE DEF Call
<1>1. /\ x \in Call /\ t \in Seq(Call) /\ Len(t) = Len(s) - 1 /\ Len(s) \in Nat /\ Len(s) # 0
      /\ \A i \in 1 .. Len(t) : t[i] = s[i + 1]
      /\ x = s[1]
  BY HeadTailProperties, LenProperties, EmptySeq
<1> HIDE DEF x, t
<1>2. 1 \in 1 .. Len(s) /\ \A i \in 1 .. Len(s) : i # 1 => i - 1 \in 1 .. Len(t) /\ s[i] = t[i - 1]
  BY <1>1
<1>3. \A i \in 1 .. Len(t) : i + 1 \in 1 .. Len(s) /\ 1 < i + 1 /\ t[i] = s[i + 1]
  BY <1>1
<1>4. \A i \in 1 .. Len(t) : Compatible(x, t[i])
  BY <1>1, <1>2, <1>3 DEF Orderly
<1>5. Orderly(t)
  <2> SUFFICES ASSUME NEW i \in 1 .. Len(t), NEW j \in 1 .. Len(t), i < j
               PROVE  Compatible(t[i], t[j])
    BY DEF Orderly
  <2>1. i + 1 < j + 1
    BY <1>1
  <2> QED
    BY <1>3, <2>1 DEF Orderly
<1>6. ASSUME NEW ns, TakesIn(s, ns)
      PROVE  TakesIn(t, ns) /\ (x.do = "acquire" => x.ns = ns)
  BY <1>1, <1>2, <1>3, <1>6 DEF TakesIn
<1>7. ASSUME NEW f
      PROVE  Takes(t, f) <=> Takes(s, f) /\ ~ (x.do = "acquire" /\ x.fam = f)
  <2>1. Takes(t, f) => Takes(s, f)
    BY <1>3 DEF Takes
  <2>2. Takes(t, f) => ~ (x.do = "acquire" /\ x.fam = f)
    BY <1>4 DEF Takes, Compatible
  <2>3. Takes(s, f) => Takes(t, f) \/ (x.do = "acquire" /\ x.fam = f)
    BY <1>1, <1>2 DEF Takes
  <2> QED
    BY <2>1, <2>2, <2>3
<1>8. ASSUME NEW a
      PROVE  Gives(s, a) <=> Gives(t, a) \/ (x.do = "release" /\ a = <<x.ns, x.fam, x.ip>>)
  <2>1. Gives(t, a) => Gives(s, a)
    BY <1>3 DEF Gives
  <2>2. x.do = "release" /\ a = <<x.ns, x.fam, x.ip>> => Gives(s, a)
    BY <1>1, <1>2 DEF Gives
  <2>3. Gives(s, a) => Gives(t, a) \/ (x.do = "release" /\ a = <<x.ns, x.fam, x.ip>>)
    BY <1>1, <1>2 DEF Gives
  <2> QED
    BY <2>1, <2>2, <2>3
<1>9. ASSUME NEW a, Gives(t, a)
      PROVE  x.do # "acquire" /\ (x.do = "release" => a[2] # x.fam)
  <2>1. PICK i \in 1 .. Len(t) : t[i].do = "release" /\ <<t[i].ns, t[i].fam, t[i].ip>> = a
    BY <1>9 DEF Gives
  <2>2. Compatible(x, t[i]) /\ a[2] = t[i].fam
    BY <1>4, <2>1
  <2> QED
    BY <2>1, <2>2 DEF Compatible
<1>10. x.do = "acquire" => Takes(s, x.fam)
  BY <1>1, <1>2 DEF Takes
<1> QED
  BY <1>1, <1>5, <1>6, <1>7, <1>8, <1>9, <1>10 DEF x, t
-----------------------------------------------------------------------------
\* The address of a row that has one.
LEMMA AddressIs ==
  ASSUME NEW x \in Row, NEW f \in Families, Number(x, f) # 0
  PROVE  Address(x, f) \in Addresses /\ Number(x, f) \in 1 .. PoolSize
<1>1. Number(x, f) \in 0 .. PoolSize /\ NamespaceOf[x.vpc] \in Namespaces /\ PoolSize \in Nat
  BY ConstantsAssumption DEF Row, Number, Namespaces
<1>2. Number(x, f) \in 1 .. PoolSize
  BY <1>1
<1> QED
  BY <1>1, <1>2 DEF Address, Addresses

\* The calls that acquire and release addresses.
LEMMA CallsAre ==
  ASSUME NEW ns \in Namespaces, NEW f \in Families, NEW n \in 1 .. PoolSize
  PROVE  Acquire(ns, f) \in Call /\ Release(ns, f, n) \in Call
BY DEF Acquire, Release, Call

\* CreateDevice acquires an address of each family, in the namespace of the device.
LEMMA CreateCallsAre ==
  ASSUME NEW ns \in Namespaces, NEW list \in CidrLists, NEW c, c = CreateCalls(ns, list)
  PROVE  /\ c \in Seq(Call) /\ Orderly(c) /\ TakesIn(c, ns)
         /\ \A f : Takes(c, f) <=> f \in Families
         /\ \A a : ~ Gives(c, a)
<1> DEFINE x == Acquire(ns, "v4")
           y == Acquire(ns, "v6")
           t == Each(Assign, ns, NonDefault(list))
<1>1. list \in Seq(Cidrs)
  BY ConstantsAssumption
<1>2. Plain(t)
  BY <1>1, NonDefaultIs, EachAssign
<1> HIDE DEF t
<1>3. t \in Seq(Call) /\ Orderly(t) /\ (\A f : ~ Takes(t, f)) /\ (\A a : ~ Gives(t, a)) /\ TakesIn(t, ns)
  BY <1>2, PlainIs, NoneIn
<1>4. /\ x \in Call /\ x.do = "acquire" /\ x.fam = "v4" /\ x.ns = ns
      /\ y \in Call /\ y.do = "acquire" /\ y.fam = "v6" /\ y.ns = ns
  BY CallsAre DEF Acquire, Call, Families
<1>5. Compatible(x, y)
  BY <1>4 DEF Compatible
<1> HIDE DEF x, y, Call
<1> DEFINE s == <<x, y>>
<1>6. /\ s \in Seq(Call) /\ Orderly(s)
      /\ \A f : Takes(s, f) <=> f \in {"v4", "v6"}
      /\ \A a : ~ Gives(s, a)
  BY <1>4, <1>5, TwoCalls
<1>7. TakesIn(s, ns)
  BY <1>4 DEF TakesIn
<1>8. c = s \o t
  BY DEF CreateCalls, s, t, x, y
<1> HIDE DEF s
<1>9. /\ s \o t \in Seq(Call)
      /\ \A f : Takes(s \o t, f) <=> f \in Families
      /\ \A a : ~ Gives(s \o t, a)
  BY <1>3, <1>6, Joined DEF Families
<1>10. Orderly(s \o t)
  BY <1>3, <1>6, JoinedOrderly
<1>11. TakesIn(s \o t, ns)
  BY <1>3, <1>6, <1>7, JoinedIn
<1> QED
  BY <1>8, <1>9, <1>10, <1>11
\* DeleteDevice gives both addresses back and acquires none.
LEMMA DeleteCallsAre ==
  ASSUME NEW old \in Row, \A f \in Families : Number(old, f) # 0, NEW c, c = DeleteCalls(old)
  PROVE  /\ c \in Seq(Call) /\ Orderly(c) /\ \A f : ~ Takes(c, f)
         /\ \A a : Gives(c, a) <=> \E f \in Families : a = Address(old, f)
<1> DEFINE was == NamespaceOf[old.vpc]
           x == Release(was, "v4", old.v4)
           y == Release(was, "v6", old.v6)
           t == Each(Free, was, old.cidrs)
<1>1. was \in Namespaces /\ old.cidrs \in Seq(Cidrs)
  BY ConstantsAssumption DEF Row, Namespaces
<1>2. Plain(t)
  BY <1>1, EachFree
<1> HIDE DEF t
<1>3. t \in Seq(Call) /\ Orderly(t) /\ (\A f : ~ Takes(t, f)) /\ (\A a : ~ Gives(t, a))
  BY <1>2, PlainIs
<1>4. /\ x \in Call /\ x.do = "release" /\ x.fam = "v4" /\ <<x.ns, x.fam, x.ip>> = Address(old, "v4")
      /\ y \in Call /\ y.do = "release" /\ y.fam = "v6" /\ <<y.ns, y.fam, y.ip>> = Address(old, "v6")
  <2>1. Number(old, "v4") \in 1 .. PoolSize /\ Number(old, "v6") \in 1 .. PoolSize
    BY AddressIs DEF Families
  <2>2. old.v4 \in 1 .. PoolSize /\ old.v6 \in 1 .. PoolSize
    BY <2>1 DEF Number
  <2> QED
    BY <1>1, <2>2, CallsAre DEF Release, Families, Address, Number
<1>5. Address(old, "v4")[2] = "v4" /\ Address(old, "v6")[2] = "v6"
  BY DEF Address
<1>6. c = (<<x>> \o t) \o <<y>>
  BY DEF DeleteCalls, t, x, y
<1> HIDE DEF x, y, Call
<1> DEFINE s == <<x>>
           u == <<y>>
<1>7. /\ s \in Seq(Call) /\ Orderly(s) /\ (\A f : ~ Takes(s, f))
      /\ \A a : Gives(s, a) <=> a = Address(old, "v4")
  BY <1>4, OneCall
<1>8. /\ u \in Seq(Call) /\ Orderly(u) /\ (\A f : ~ Takes(u, f))
      /\ \A a : Gives(u, a) <=> a = Address(old, "v6")
  BY <1>4, OneCall
<1> HIDE DEF s, u
<1> DEFINE v == s \o t
<1>9. /\ v \in Seq(Call) /\ (\A f : ~ Takes(v, f))
      /\ \A a : Gives(v, a) <=> a = Address(old, "v4")
  BY <1>3, <1>7, Joined
<1>10. Orderly(v)
  BY <1>3, <1>7, JoinedOrderly
<1> HIDE DEF v
<1>11. /\ v \o u \in Seq(Call) /\ (\A f : ~ Takes(v \o u, f))
       /\ \A a : Gives(v \o u, a) <=> a \in {Address(old, "v4"), Address(old, "v6")}
  BY <1>8, <1>9, Joined
<1>12. Orderly(v \o u)
  BY <1>5, <1>8, <1>9, <1>10, JoinedOrderly
<1> QED
  BY <1>6, <1>11, <1>12 DEF s, u, v, Families

\* A move to another namespace gives both addresses back, then acquires two there;
\* one within the namespace does nothing.
LEMMA MoveCallsAre ==
  ASSUME NEW old \in Row, \A f \in Families : Number(old, f) # 0,
         NEW ns \in Namespaces, NEW list \in CidrLists, NEW c, c = MoveCalls(old, ns, list)
  PROVE  /\ NamespaceOf[old.vpc] = ns => c = <<>>
         /\ NamespaceOf[old.vpc] # ns =>
              /\ c \in Seq(Call) /\ Orderly(c) /\ TakesIn(c, ns)
              /\ \A f : Takes(c, f) <=> f \in Families
              /\ \A a : Gives(c, a) <=> \E f \in Families : a = Address(old, f)
<1> DEFINE was == NamespaceOf[old.vpc]
           x == Release(was, "v4", old.v4)
           y == Release(was, "v6", old.v6)
           t == Each(Free, was, old.cidrs)
           n == CreateCalls(ns, list)
<1>0. NamespaceOf[old.vpc] = ns => c = <<>>
  BY DEF MoveCalls
<1> SUFFICES ASSUME was # ns
             PROVE  /\ c \in Seq(Call) /\ Orderly(c) /\ TakesIn(c, ns)
                    /\ \A f : Takes(c, f) <=> f \in Families
                    /\ \A a : Gives(c, a) <=> \E f \in Families : a = Address(old, f)
  BY <1>0
<1>1. was \in Namespaces /\ old.cidrs \in Seq(Cidrs)
  BY ConstantsAssumption DEF Row, Namespaces
<1>2. Plain(t)
  BY <1>1, EachFree
<1> HIDE DEF t
<1>3. t \in Seq(Call) /\ Orderly(t) /\ (\A f : ~ Takes(t, f)) /\ (\A a : ~ Gives(t, a))
  BY <1>2, PlainIs
<1>4. /\ n \in Seq(Call) /\ Orderly(n) /\ TakesIn(n, ns)
      /\ \A f : Takes(n, f) <=> f \in Families
      /\ \A a : ~ Gives(n, a)
  BY CreateCallsAre
<1>5. /\ x \in Call /\ x.do = "release" /\ x.fam = "v4" /\ <<x.ns, x.fam, x.ip>> = Address(old, "v4")
      /\ y \in Call /\ y.do = "release" /\ y.fam = "v6" /\ <<y.ns, y.fam, y.ip>> = Address(old, "v6")
  <2>1. Number(old, "v4") \in 1 .. PoolSize /\ Number(old, "v6") \in 1 .. PoolSize
    BY AddressIs DEF Families
  <2>2. old.v4 \in 1 .. PoolSize /\ old.v6 \in 1 .. PoolSize
    BY <2>1 DEF Number
  <2> QED
    BY <1>1, <2>2, CallsAre DEF Release, Families, Address, Number
<1>6. Compatible(x, y)
  BY <1>5 DEF Compatible
<1>7. c = (<<x, y>> \o t) \o n
  BY DEF MoveCalls, t, x, y, n
<1> HIDE DEF x, y, n, Call
<1> DEFINE s == <<x, y>>
<1>8. /\ s \in Seq(Call) /\ Orderly(s) /\ (\A f : ~ Takes(s, f))
      /\ \A a : Gives(s, a) <=> a \in {Address(old, "v4"), Address(old, "v6")}
  BY <1>5, <1>6, TwoCalls
<1> HIDE DEF s
<1> DEFINE v == s \o t
<1>9. /\ v \in Seq(Call) /\ (\A f : ~ Takes(v, f))
      /\ \A a : Gives(v, a) <=> a \in {Address(old, "v4"), Address(old, "v6")}
  BY <1>3, <1>8, Joined
<1>10. Orderly(v)
  BY <1>3, <1>8, JoinedOrderly
<1> HIDE DEF v
<1>11. /\ v \o n \in Seq(Call)
       /\ \A f : Takes(v \o n, f) <=> f \in Families
       /\ \A a : Gives(v \o n, a) <=> a \in {Address(old, "v4"), Address(old, "v6")}
  BY <1>4, <1>9, Joined
<1>12. Orderly(v \o n)
  BY <1>4, <1>9, <1>10, JoinedOrderly
<1>13. TakesIn(v \o n, ns)
  <2>1. TakesIn(v, ns)
    BY <1>9, NoneIn
  <2> QED
    BY <1>4, <1>9, <2>1, JoinedIn
<1> QED
  BY <1>7, <1>11, <1>12, <1>13 DEF s, v, Families
-----------------------------------------------------------------------------
\* A handler that does not run.
LEMMA IdleIs ==
  /\ NoRow \in Row /\ NoRow.state = "new"
  /\ Idle.dev = Nothing /\ Idle.at = "idle" /\ Idle.op = "none" /\ Idle.new = NoRow
BY ConstantsAssumption DEF Idle, NoRow, Row

\* It has its type, and only one that runs has a device.
LEMMA HandlerIs ==
  ASSUME NEW h, h = Idle \/ Runs(h)
  PROVE  /\ h.op \in {"none", "create", "update", "delete"} /\ h.at \in {"idle", "mark", "ipam"}
         /\ h.dev \in Devices \cup {Nothing} /\ h.new \in Row
         /\ h # Idle => h.at # "idle" /\ h.op # "none" /\ h.dev \in Devices /\ h \in Handler
         /\ h = Idle => h.dev \notin Devices /\ h.op = "none" /\ h.at = "idle"
BY IdleIs, ConstantsAssumption DEF Runs, Handler

\* The variables' types, given those of the handlers.
Types == /\ row \in [Devices -> Row]
         /\ \A d \in Devices : row[d].state = "live" => row[d].v4 # 0 /\ row[d].v6 # 0
         /\ lease \in [Addresses -> Devices \cup {Nothing}]
         /\ prefix \subseteq Namespaces \X Cidrs
         /\ started \in 0 .. MaxRequests /\ faults \in 0 .. MaxFaults
         /\ raced \in BOOLEAN /\ undone \in BOOLEAN /\ clean \in BOOLEAN

\* They follow from TypeOK.
LEMMA TypesAre == TypeOK => Types
BY DEF TypeOK, Types, Live

\* With the handlers they are all of it.
LEMMA TypesSuffice == Types /\ (\A r \in Requests : req[r] = Idle \/ Runs(req[r])) => TypeOK
<1> SUFFICES ASSUME Types, \A r \in Requests : req[r] = Idle \/ Runs(req[r])
             PROVE  TypeOK
  OBVIOUS
<1>1. \A r \in Requests :
        /\ req[r].op \in {"none", "create", "update", "delete"} /\ req[r].at \in {"idle", "mark", "ipam"}
        /\ req[r].dev \in Devices \cup {Nothing} /\ req[r].new \in Row
  BY HandlerIs
<1> QED
  BY <1>1 DEF TypeOK, Types, Live

\* Initially nothing is leased and no request runs.
LEMMA InitInv == Init => IInv
<1> SUFFICES ASSUME Init PROVE IInv
  OBVIOUS
<1> USE DEF Init
<1>1. \A r \in Requests : req[r] = Idle
  OBVIOUS
<1>2. Types
  <2>1. MaxRequests \in Nat /\ MaxFaults \in Nat
    BY ConstantsAssumption
  <2>2. started \in 0 .. MaxRequests /\ faults \in 0 .. MaxFaults
    BY <2>1
  <2>3. row \in [Devices -> Row] /\ \A d \in Devices : row[d].state = "new"
    BY IdleIs
  <2>4. lease \in [Addresses -> Devices \cup {Nothing}] /\ prefix \subseteq Namespaces \X Cidrs
    OBVIOUS
  <2> QED
    BY <2>2, <2>3, <2>4 DEF Types
<1>3. Handlers
  BY DEF Handlers
<1>4. \A r \in Requests : req[r].dev \notin Devices
  BY <1>1, IdleIs, ConstantsAssumption
<1>5. Alone
  BY <1>1 DEF Alone
<1>6. \A d \in Devices : \A a \in Addresses : ~ Holds(d, a) /\ lease[a] # d
  BY <1>4, IdleIs, ConstantsAssumption DEF Holds, InRow
<1>7. Ledger
  BY <1>6 DEF Ledger
<1> QED
  BY <1>1, <1>2, <1>3, <1>5, <1>7, TypesSuffice DEF IInv

-----------------------------------------------------------------------------
\* A request takes up handler h on device d.
LEMMA Begun ==
  ASSUME IInv, NEW r \in Requests, NEW d \in Devices, NEW h, Runs(h), h.dev = d, Begin(r, d, h),
         \/ \E q \in Requests : req[q].dev = d
         \/ Reads(h, row[d]) /\ \A a \in Addresses : Has(h, a) <=> InRow(row[d], a)
  PROVE  IInv'
<1>0. Types /\ Handlers /\ Alone /\ Ledger
  BY TypesAre DEF IInv
<1>1. /\ req[r] = Idle /\ req' = [req EXCEPT ![r] = h] /\ started' \in 0 .. MaxRequests
      /\ raced' = (raced \/ \E q \in Requests : req[q].dev = d)
      /\ clean' = (clean /\ ~ \E q \in Requests : req[q].dev = d)
      /\ UNCHANGED <<row, lease, prefix, faults, undone>>
  BY <1>0, ConstantsAssumption DEF Begin, Types
<1>2. h # Idle /\ h \in Handler
  BY HandlerIs, IdleIs, ConstantsAssumption
<1>3. /\ req' \in [Requests -> Handler \cup {Idle}] /\ req'[r] = h
      /\ \A q \in Requests : q # r => req'[q] = req[q]
  BY <1>0, <1>1, <1>2 DEF Handlers
<1>4. Handlers'
  BY <1>0, <1>3 DEF Handlers
<1>5. TypeOK'
  <2>1. Types'
    BY <1>0, <1>1 DEF Types
  <2>2. \A q \in Requests : req'[q] = Idle \/ Runs(req'[q])
    BY <1>0, <1>3 DEF Handlers
  <2>3. \A q \in Requests :
          /\ req'[q].op \in {"none", "create", "update", "delete"} /\ req'[q].at \in {"idle", "mark", "ipam"}
          /\ req'[q].dev \in Devices \cup {Nothing} /\ req'[q].new \in Row
    BY <2>2, HandlerIs
  <2> QED
    BY <2>1, <2>3 DEF TypeOK, Types, Live
<1>6. Idle.dev \notin Devices
  BY IdleIs, ConstantsAssumption
<1>7. ~ raced' => ~ raced /\ (\A q \in Requests : req[q].dev # d)
                  /\ Reads(h, row[d]) /\ \A a \in Addresses : Has(h, a) <=> InRow(row[d], a)
  BY <1>1
<1>8. Alone'
  <2> SUFFICES ASSUME ~ raced'
               PROVE  /\ \A p, q \in Requests : req'[p] # Idle /\ req'[q].dev = req'[p].dev => q = p
                      /\ \A q \in Requests : req'[q] # Idle => Reads(req'[q], row'[req'[q].dev])
    BY DEF Alone
  <2>1. /\ \A p, q \in Requests : req[p] # Idle /\ req[q].dev = req[p].dev => q = p
        /\ \A q \in Requests : req[q] # Idle => Reads(req[q], row[req[q].dev])
    BY <1>0, <1>7 DEF Alone
  <2>2. \A p, q \in Requests : req'[p] # Idle /\ req'[q].dev = req'[p].dev => q = p
    BY <1>3, <1>7, <2>1
  <2>3. \A q \in Requests : req'[q] # Idle => Reads(req'[q], row'[req'[q].dev])
    BY <1>1, <1>3, <1>7, <2>1
  <2> QED
    BY <2>2, <2>3
<1>9. ~ raced' => \A e \in Devices, a \in Addresses : Holds(e, a)' <=> Holds(e, a)
  <2> SUFFICES ASSUME ~ raced', NEW e \in Devices, NEW a \in Addresses
               PROVE  Holds(e, a)' <=> Holds(e, a)
    OBVIOUS
  <2>1. CASE e = d
    <3>1. Holds(d, a) <=> InRow(row[d], a)
      BY <1>7 DEF Holds
    <3>2. Holds(d, a)' <=> Has(h, a)
      BY <1>3, <1>7 DEF Holds
    <3> QED
      BY <3>1, <3>2, <1>7, <2>1
  <2>2. CASE e # d
    <3>1. \A q \in Requests : req'[q].dev = e <=> req[q].dev = e
      BY <1>1, <1>3, <1>6, <2>2
    <3>2. \A q \in Requests : req[q].dev = e => req'[q] = req[q]
      BY <1>1, <1>3, <1>6
    <3> QED
      BY <3>1, <3>2, <1>1 DEF Holds
  <2> QED
    BY <2>1, <2>2
<1>10. Ledger'
  <2>1. clean' => ~ raced' /\ ~ undone'
    BY <1>0, <1>1 DEF Ledger
  <2>2. ~ raced' /\ ~ undone' => \A e \in Devices, a \in Addresses : Holds(e, a)' => lease'[a] = e
    BY <1>0, <1>1, <1>7, <1>9 DEF Ledger
  <2>3. clean' => \A e \in Devices, a \in Addresses : lease'[a] = e => Holds(e, a)'
    BY <1>0, <1>1, <2>1, <1>9 DEF Ledger
  <2> QED
    BY <2>1, <2>2, <2>3 DEF Ledger
<1> QED
  BY <1>4, <1>5, <1>8, <1>10 DEF IInv
\* Device d has, from here on, what handler h has, or what is in its row.
GoesOn(d, h) == \A a : Holds(d, a)' <=> Has(h, a)
Settles(d) == \A a : Holds(d, a)' <=> InRow(row'[d], a)

\* The handler of request r goes on as h, or ends; its device's row may change.
LEMMA Served ==
  ASSUME IInv, NEW r \in Requests, req[r] # Idle, NEW d \in Devices, d = req[r].dev,
         NEW h, h = Idle \/ (Runs(h) /\ h.dev = d),
         req' = [req EXCEPT ![r] = h], Types', UNCHANGED raced,
         \A e \in Devices : e # d => row'[e] = row[e],
         ~ raced /\ h # Idle => Reads(h, row'[d])
  PROVE  /\ TypeOK' /\ Handlers' /\ Alone'
         /\ ~ raced => \A e \in Devices : e # d => \A a : Holds(e, a)' <=> Holds(e, a)
         /\ ~ raced => \A a : Holds(d, a) <=> Has(req[r], a)
         /\ h # Idle /\ ~ raced => GoesOn(d, h)
         /\ h = Idle /\ ~ raced => Settles(d)
<1>0. Types /\ Handlers /\ Alone /\ Ledger
  BY TypesAre DEF IInv
<1>2. h \in Handler \cup {Idle} /\ (h = Idle => h.dev \notin Devices)
  BY HandlerIs
<1>3. /\ req' \in [Requests -> Handler \cup {Idle}] /\ req'[r] = h
      /\ \A q \in Requests : q # r => req'[q] = req[q]
  BY <1>0, <1>2 DEF Handlers
<1>4. Handlers'
  BY <1>0, <1>3 DEF Handlers
<1>5. TypeOK'
  <2>2. \A q \in Requests : req'[q] = Idle \/ Runs(req'[q])
    BY <1>0, <1>3 DEF Handlers
  <2>3. \A q \in Requests :
          /\ req'[q].op \in {"none", "create", "update", "delete"} /\ req'[q].at \in {"idle", "mark", "ipam"}
          /\ req'[q].dev \in Devices \cup {Nothing} /\ req'[q].new \in Row
    BY <2>2, HandlerIs
  <2> QED
    BY <2>3 DEF TypeOK, Types, Live
<1>6. ~ raced => \A q \in Requests : req[q].dev = d => q = r
  BY <1>0 DEF Alone
<1>7. \A q \in Requests : q # r /\ req[q] # Idle => req[q].dev \in Devices
  <2>1. \A q \in Requests : req[q] = Idle \/ Runs(req[q])
    BY <1>0 DEF Handlers
  <2> QED
    BY <2>1, HandlerIs
<1>8. Alone'
  <2> SUFFICES ASSUME ~ raced
               PROVE  /\ \A p, q \in Requests : req'[p] # Idle /\ req'[q].dev = req'[p].dev => q = p
                      /\ \A q \in Requests : req'[q] # Idle => Reads(req'[q], row'[req'[q].dev])
    BY DEF Alone
  <2>1. /\ \A p, q \in Requests : req[p] # Idle /\ req[q].dev = req[p].dev => q = p
        /\ \A q \in Requests : req[q] # Idle => Reads(req[q], row[req[q].dev])
    BY <1>0 DEF Alone
  <2>2. ASSUME NEW p \in Requests, NEW q \in Requests, req'[p] # Idle, req'[q].dev = req'[p].dev
        PROVE  q = p
    <3>1. CASE p = r
      BY <3>1, <2>2, <1>2, <1>3, <1>6
    <3>2. CASE p # r
      <4>1. req'[p] = req[p] /\ req[p] # Idle /\ req[p].dev \in Devices /\ req[p].dev # d
        BY <3>2, <2>2, <1>3, <1>6, <1>7
      <4>2. q # r
        BY <4>1, <2>2, <1>2, <1>3
      <4>3. req'[q] = req[q]
        BY <4>2, <1>3
      <4> QED
        BY <4>1, <4>3, <2>1, <2>2
    <3> QED
      BY <3>1, <3>2
  <2>3. ASSUME NEW q \in Requests, req'[q] # Idle
        PROVE  Reads(req'[q], row'[req'[q].dev])
    <3>1. CASE q = r
      BY <3>1, <2>3, <1>3
    <3>2. CASE q # r
      <4>1. req'[q] = req[q] /\ req[q] # Idle /\ req[q].dev \in Devices /\ req[q].dev # d
        BY <3>2, <2>3, <1>3, <1>6, <1>7
      <4> QED
        BY <4>1, <2>1
    <3> QED
      BY <3>1, <3>2
  <2> QED
    BY <2>2, <2>3
<1>9. ASSUME ~ raced, NEW e \in Devices, e # d, NEW a
      PROVE  Holds(e, a)' <=> Holds(e, a)
  <2>1. row'[e] = row[e]
    BY <1>9
  <2>2. \A q \in Requests : req'[q].dev = e <=> req[q].dev = e
    BY <1>2, <1>3, <1>9
  <2>3. \A q \in Requests : req[q].dev = e => req'[q] = req[q]
    BY <1>3, <1>9
  <2> QED
    BY <2>1, <2>2, <2>3 DEF Holds
<1>10. ASSUME ~ raced, NEW a
       PROVE  Holds(d, a) <=> Has(req[r], a)
  BY <1>6, <1>10 DEF Holds
<1>11. ASSUME ~ raced, h # Idle, NEW a
       PROVE  Holds(d, a)' <=> Has(h, a)
  <2>1. \A q \in Requests : req'[q].dev = d <=> q = r
    BY <1>3, <1>6, <1>11
  <2> QED
    BY <2>1, <1>3 DEF Holds
<1>12. ASSUME ~ raced, h = Idle, NEW a
       PROVE  Holds(d, a)' <=> InRow(row'[d], a)
  <2>1. \A q \in Requests : req'[q].dev # d
    BY <1>2, <1>3, <1>6, <1>12
  <2> QED
    BY <2>1 DEF Holds
<1> QED
  BY <1>4, <1>5, <1>8, <1>9, <1>10, <1>11, <1>12 DEF GoesOn, Settles
-----------------------------------------------------------------------------
\* What the invariant says of a handler that calls IPAM.
LEMMA Serving ==
  ASSUME IInv, NEW r \in Requests, req[r].at # "idle"
  PROVE  /\ Types /\ req[r] # Idle /\ Runs(req[r]) /\ req[r] \in Handler /\ req[r].dev \in Devices
         /\ req[r].calls \in Seq(Call) /\ req[r].new \in Row
         /\ ~ raced => Reads(req[r], row[req[r].dev])
         /\ ~ raced => \A a : Holds(req[r].dev, a) <=> Has(req[r], a)
<1>1. Types /\ Handlers /\ Alone
  BY TypesAre DEF IInv
<1>2. req[r] # Idle
  BY IdleIs
<1>3. Runs(req[r])
  BY <1>1, <1>2 DEF Handlers
<1>4. req[r] \in Handler
  BY <1>3 DEF Runs
<1>5. ~ raced => Reads(req[r], row[req[r].dev])
  BY <1>1, <1>2 DEF Alone
<1>6. ~ raced => \A a : Holds(req[r].dev, a) <=> Has(req[r], a)
  BY <1>1, <1>2 DEF Alone, Holds
<1> QED
  BY <1>1, <1>2, <1>3, <1>4, <1>5, <1>6 DEF Handler

\* A handler gives up, after a call that may have been served: nothing it does not
\* have to give back is lost, and without a move the row's addresses stay leased.
LEMMA Aborted ==
  ASSUME IInv, NEW r \in Requests, req[r].at = "ipam", Abort(r), Types', UNCHANGED <<row, raced>>,
         \A a \in Addresses : lease'[a] # lease[a] => lease[a] = Nothing \/ Gives(req[r].calls, a)
  PROVE  IInv'
<1>0. PICK d \in Devices : d = req[r].dev
  BY Serving
<1> DEFINE h == req[r]
<1>1. /\ Types /\ h # Idle /\ Runs(h) /\ h \in Handler /\ h.dev = d
      /\ ~ raced => Reads(h, row[d])
      /\ Ledger
  BY <1>0, Serving DEF IInv
<1>2. /\ req' = [req EXCEPT ![r] = Idle] /\ clean' = FALSE
      /\ undone' = (undone \/ (h.op = "update" /\ NamespaceOf[h.new.vpc] # NamespaceOf[row[d].vpc]))
  BY <1>0 DEF Abort
<1>3. /\ TypeOK' /\ Handlers' /\ Alone'
      /\ ~ raced => \A e \in Devices : e # d => \A a : Holds(e, a)' <=> Holds(e, a)
      /\ ~ raced => \A a : Holds(d, a) <=> Has(h, a)
      /\ ~ raced => \A a : Holds(d, a)' <=> InRow(row'[d], a)
  BY <1>0, <1>1, <1>2, Served DEF Settles
<1>4. ASSUME ~ raced, ~ undone', NEW e \in Devices, NEW a \in Addresses, Holds(e, a)'
      PROVE  lease'[a] = e
  <2>0. Nothing \notin Devices
    BY ConstantsAssumption
  <2>1. ~ undone
    BY <1>2, <1>4
  <2>2. \A b \in Devices : Holds(b, a) => lease[a] = b
    BY <1>1, <1>4, <2>1 DEF Ledger
  <2>3. Gives(h.calls, a) => lease[a] = d
    BY <1>1, <1>3, <1>4, <2>2 DEF Has
  <2>4. CASE e # d
    <3>1. lease[a] = e
      BY <1>3, <1>4, <2>2, <2>4
    <3> QED
      BY <3>1, <2>0, <2>3, <2>4
  <2>5. CASE e = d
    <3>1. InRow(row[d], a)
      BY <1>3, <1>4, <2>5
    <3>2. h.op = "update" /\ NamespaceOf[h.new.vpc] = NamespaceOf[row[d].vpc]
      <4>1. row[d].state = "live"
        BY <3>1 DEF InRow
      <4>2. h.op \in {"create", "update", "delete"}
        BY <1>1 DEF Handler
      <4> QED
        BY <4>1, <4>2, <1>1, <1>2, <1>4 DEF Reads
    <3>3. /\ h.new.v4 = row[d].v4 /\ h.new.v6 = row[d].v6
          /\ \A f \in Families : ~ Takes(h.calls, f)
          /\ \A b \in Addresses : ~ Gives(h.calls, b)
      BY <3>2, <1>1, <1>4 DEF Reads
    <3>4. Has(h, a)
      BY <3>1, <3>2, <3>3 DEF InRow, Has, Address, Number
    <3>5. lease[a] = d
      BY <3>4, <1>1, <1>3, <1>4, <2>2
    <3> QED
      BY <3>3, <3>5, <2>0, <2>5, <1>1
  <2> QED
    BY <2>4, <2>5
<1>5. Ledger'
  BY <1>2, <1>4 DEF Ledger
<1> QED
  BY <1>3, <1>5 DEF IInv
\* A handler after its first call, which may have given its row an address.
After(h, n) == [h EXCEPT !.calls = Tail(@), !.new = n]
Filled(h, n) ==
  /\ n \in Row /\ n.vpc = h.new.vpc /\ n.state = h.new.state
  /\ \A f \in Families :
       \/ Number(n, f) = Number(h.new, f)
       \/ Number(n, f) # 0 /\ Head(h.calls).do = "acquire" /\ Head(h.calls).fam = f
  /\ Head(h.calls).do = "acquire" => Number(n, Head(h.calls).fam) # 0

\* It runs on, and what it knows of the row it read stands.
LEMMA AfterIs ==
  ASSUME NEW h, Runs(h), h.at = "ipam", h.calls # <<>>, NEW n, Filled(h, n)
  PROVE  /\ Runs(After(h, n)) /\ After(h, n).dev = h.dev /\ After(h, n) # Idle
         /\ After(h, n).calls = Tail(h.calls) /\ After(h, n).new = n /\ After(h, n).op = h.op
         /\ \A x : Reads(h, x) => Reads(After(h, n), x)
<1> DEFINE g == After(h, n)
           s == h.calls
           x == Head(h.calls)
<1>1. h \in Handler /\ s \in Seq(Call) /\ Orderly(s) /\ n \in Row
  BY DEF Runs, Handler, Filled
<1>2. /\ Tail(s) \in Seq(Call) /\ Orderly(Tail(s))
      /\ \A ns : TakesIn(s, ns) => TakesIn(Tail(s), ns)
      /\ \A f : Takes(Tail(s), f) <=> Takes(s, f) /\ ~ (x.do = "acquire" /\ x.fam = f)
      /\ \A a : Gives(Tail(s), a) => Gives(s, a) /\ x.do # "acquire"
      /\ x.do = "acquire" => Takes(s, x.fam)
  BY <1>1, Popped
<1>3. /\ g \in Handler /\ g.op = h.op /\ g.at = h.at /\ g.dev = h.dev /\ g.new = n /\ g.calls = Tail(s)
  BY <1>1, <1>2 DEF Handler, After
<1> HIDE DEF g, s, x
<1>4. g # Idle
  BY <1>3, IdleIs DEF Handler
<1>5. Runs(g)
  <2>1. g.at = "mark" => g.op = "delete"
    BY <1>3 DEF Runs
  <2>2. TakesIn(g.calls, NamespaceOf[g.new.vpc])
    BY <1>2, <1>3 DEF Runs, Filled, s
  <2>3. g.op = "delete" => \A f \in Families : ~ Takes(g.calls, f)
    BY <1>2, <1>3 DEF Runs, s
  <2>4. ASSUME g.op # "delete"
        PROVE  /\ g.new.state = "live"
               /\ \A f \in Families : ~ Takes(g.calls, f) => Number(g.new, f) # 0
               /\ \A a \in Addresses : Gives(g.calls, a) => Takes(g.calls, a[2])
    <3>1. /\ h.new.state = "live"
          /\ \A f \in Families : ~ Takes(s, f) => Number(h.new, f) # 0
          /\ \A a \in Addresses : Gives(s, a) => Takes(s, a[2])
      BY <2>4, <1>3 DEF Runs, s
    <3>2. g.new.state = "live"
      BY <1>3, <3>1 DEF Filled
    <3>3. ASSUME NEW f \in Families, ~ Takes(g.calls, f)
          PROVE  Number(g.new, f) # 0
      BY <3>3, <1>2, <1>3, <3>1 DEF Filled, x
    <3>4. ASSUME NEW a \in Addresses, Gives(g.calls, a)
          PROVE  Takes(g.calls, a[2])
      BY <3>4, <1>2, <1>3, <3>1
    <3> QED
      BY <3>2, <3>3, <3>4
  <2> QED
    BY <1>2, <1>3, <2>1, <2>2, <2>3, <2>4 DEF Runs
<1>6. ASSUME NEW y, Reads(h, y)
      PROVE  Reads(g, y)
  <2>1. g.op = "create" => y.state = "new" /\ \A a \in Addresses : ~ Gives(g.calls, a)
    BY <1>6, <1>2, <1>3 DEF Reads, s
  <2>2. g.op = "delete" => g.at = "ipam" /\ y.state = "deleted"
    BY <1>6, <1>3 DEF Reads
  <2>3. ASSUME g.op = "update"
        PROVE  /\ y.state = "live"
               /\ NamespaceOf[g.new.vpc] = NamespaceOf[y.vpc] =>
                    /\ g.new.v4 = y.v4 /\ g.new.v6 = y.v6
                    /\ \A f \in Families : ~ Takes(g.calls, f)
                    /\ \A a \in Addresses : ~ Gives(g.calls, a)
    <3>1. y.state = "live"
      BY <2>3, <1>3, <1>6 DEF Reads
    <3>2. SUFFICES ASSUME NamespaceOf[g.new.vpc] = NamespaceOf[y.vpc]
                   PROVE  /\ g.new.v4 = y.v4 /\ g.new.v6 = y.v6
                          /\ \A f \in Families : ~ Takes(g.calls, f)
                          /\ \A a \in Addresses : ~ Gives(g.calls, a)
      BY <3>1
    <3>3. /\ h.new.v4 = y.v4 /\ h.new.v6 = y.v6
          /\ \A f \in Families : ~ Takes(s, f)
          /\ \A a \in Addresses : ~ Gives(s, a)
      BY <3>2, <2>3, <1>3, <1>6 DEF Reads, Filled, s
    <3>4. \A f \in Families : Number(n, f) = Number(h.new, f)
      BY <1>2, <3>3 DEF Filled, x
    <3>5. n.v4 = h.new.v4 /\ n.v6 = h.new.v6
      BY <3>4 DEF Number, Families
    <3> QED
      BY <1>2, <1>3, <3>3, <3>5
  <2> QED
    BY <2>1, <2>2, <2>3 DEF Reads
<1> QED
  BY <1>3, <1>4, <1>5, <1>6 DEF g, s

\* Request r, on device d, has made its first call, and goes on as g with row n.
Stepped(r, d, n, g) ==
  /\ d = req[r].dev /\ req[r].at = "ipam" /\ req[r].calls # <<>>
  /\ Filled(req[r], n) /\ Called(r, n) /\ g = After(req[r], n) /\ UNCHANGED <<row, raced>>

\* The handler goes on after a call: its invariants, whatever the call did to leases.
LEMMA WentOn ==
  ASSUME IInv, NEW r \in Requests, NEW d \in Devices, NEW n, NEW g, Stepped(r, d, n, g), Types'
  PROVE  /\ TypeOK' /\ Handlers' /\ Alone'
         /\ ~ raced => \A e \in Devices : e # d => \A a : Holds(e, a)' <=> Holds(e, a)
         /\ ~ raced => \A a : Holds(d, a) <=> Has(req[r], a)
         /\ ~ raced => GoesOn(d, g)
<1>0. /\ d = req[r].dev /\ req[r].at = "ipam" /\ req[r].calls # <<>>
      /\ Filled(req[r], n) /\ Called(r, n) /\ g = After(req[r], n) /\ UNCHANGED <<row, raced>>
  BY DEF Stepped
<1>1. /\ req[r] # Idle /\ Runs(req[r])
      /\ ~ raced => Reads(req[r], row[d])
  BY <1>0, Serving
<1>2. Runs(g) /\ g.dev = d /\ g # Idle /\ (~ raced => Reads(g, row'[d]))
  BY <1>0, <1>1, AfterIs
<1>3. req' = [req EXCEPT ![r] = g]
  BY <1>0 DEF Called, After
<1>4. /\ TypeOK' /\ Handlers' /\ Alone'
      /\ ~ raced => \A e \in Devices : e # d => \A a : Holds(e, a)' <=> Holds(e, a)
      /\ ~ raced => \A a : Holds(d, a) <=> Has(req[r], a)
      /\ ~ raced => GoesOn(d, g)
  BY <1>0, <1>1, <1>2, <1>3, Served
<1> QED
  BY <1>4
\* After a call about a prefix every device has what it had.
LEMMA PrefixCalled ==
  ASSUME IInv, NEW r \in Requests, req[r].at = "ipam", req[r].calls # <<>>,
         Head(req[r].calls).do \in {"assign", "free"}, Called(r, req[r].new), Types',
         UNCHANGED <<row, lease, raced, undone, clean>>
  PROVE  IInv'
<1>1. PICK d \in Devices : d = req[r].dev
  BY Serving
<1>0. PICK n : n = req[r].new
  OBVIOUS
<1> DEFINE h == req[r]
           s == req[r].calls
<1>2. Runs(h) /\ s \in Seq(Call) /\ n \in Row /\ Orderly(s) /\ Ledger
  BY <1>0, Serving DEF IInv, Runs
<1>3. Filled(h, n)
  BY <1>0, <1>2 DEF Filled
<1>g. PICK g : g = After(h, n)
  OBVIOUS
<1>4. /\ TypeOK' /\ Handlers' /\ Alone'
      /\ ~ raced => \A e \in Devices : e # d => \A a : Holds(e, a)' <=> Holds(e, a)
      /\ ~ raced => \A a : Holds(d, a) <=> Has(h, a)
      /\ ~ raced => \A a : Holds(d, a)' <=> Has(g, a)
  <2>1. Stepped(r, d, n, g)
    BY <1>0, <1>1, <1>3, <1>g DEF Stepped
  <2>2. TypeOK' /\ Handlers' /\ Alone'
    BY <2>1, WentOn
  <2>3. ~ raced => \A e \in Devices : e # d => \A a : Holds(e, a)' <=> Holds(e, a)
    BY <2>1, WentOn
  <2>4. ~ raced => \A a : Holds(d, a) <=> Has(h, a)
    BY <2>1, WentOn
  <2>5. ~ raced => GoesOn(d, g)
    BY <2>1, WentOn
  <2> QED
    BY <2>2, <2>3, <2>4, <2>5 DEF GoesOn
<1>5. /\ g.calls = Tail(s) /\ g.new = n /\ g.op = h.op
  BY <1>2, <1>3, <1>g, AfterIs
<1>6. /\ \A f : Takes(Tail(s), f) <=> Takes(s, f)
      /\ \A a : Gives(Tail(s), a) <=> Gives(s, a)
  BY <1>2, Popped
<1>7. \A a : Has(g, a) <=> Has(h, a)
  BY <1>0, <1>5, <1>6 DEF Has
<1>8. ~ raced => \A e \in Devices, a \in Addresses : Holds(e, a)' <=> Holds(e, a)
  BY <1>4, <1>7
<1>9. Ledger'
  BY <1>2, <1>8 DEF Ledger
<1> QED
  BY <1>4, <1>9 DEF IInv

\* A call that is cut: the handler gives up.
LEMMA CutIs ==
  ASSUME Types, NEW r \in Requests, Cut(r)
  PROVE  Abort(r) /\ faults' \in 0 .. MaxFaults /\ clean' = FALSE /\ undone' \in BOOLEAN
<1>1. faults \in 0 .. MaxFaults /\ MaxFaults \in Nat
  BY ConstantsAssumption DEF Types
<1> QED
  BY <1>1 DEF Cut, Fault, Abort, Types

\* A prefix is assigned.
LEMMA AssignInv == ASSUME IInv, NEW r \in Requests, AssignCIDR(r) PROVE IInv'
<1> DEFINE call == Head(req[r].calls)
<1>1. /\ req[r].at = "ipam" /\ req[r].calls # <<>> /\ call.do = "assign"
      /\ UNCHANGED <<row, lease, started, raced>>
  BY DEF AssignCIDR, Calling
<1>2. Types /\ req[r].calls \in Seq(Call)
  BY <1>1, Serving
<1>3. prefix' \subseteq Namespaces \X Cidrs
  <2>1. call \in Call
    BY <1>1, <1>2, HeadTailProperties
  <2>2. call.ns \in Namespaces /\ Clean[call.cidr] \in Cidrs
    BY <1>1, <2>1, ConstantsAssumption DEF Call
  <2> QED
    BY <1>2, <2>2 DEF AssignCIDR, Types
<1>4. CASE Cut(r)
  <2>1. Abort(r) /\ Types'
    BY <1>1, <1>2, <1>3, <1>4, CutIs DEF Types
  <2> QED
    BY <1>1, <2>1, Aborted
<1>5. CASE Called(r, req[r].new) /\ UNCHANGED <<undone, clean, faults>>
  <2>1. Types'
    BY <1>1, <1>2, <1>3, <1>5 DEF Types
  <2> QED
    BY <1>1, <1>5, <2>1, PrefixCalled
<1> QED
  BY <1>4, <1>5 DEF AssignCIDR

\* A release, which IPAM may refuse.
LEMMA FreeInv == ASSUME IInv, NEW r \in Requests, ReleaseCIDR(r) PROVE IInv'
<1> DEFINE call == Head(req[r].calls)
<1>1. /\ req[r].at = "ipam" /\ req[r].calls # <<>> /\ call.do = "free"
      /\ UNCHANGED <<row, lease, started, raced>>
  BY DEF ReleaseCIDR, Calling
<1>2. Types
  BY <1>1, Serving
<1>3. prefix' \subseteq Namespaces \X Cidrs
  BY <1>2 DEF ReleaseCIDR, Types
<1>4. CASE Cut(r)
  <2>1. Abort(r) /\ Types'
    BY <1>1, <1>2, <1>3, <1>4, CutIs DEF Types
  <2> QED
    BY <1>1, <2>1, Aborted
<1>5. CASE Called(r, req[r].new) /\ UNCHANGED <<undone, clean, faults>>
  <2>1. Types'
    BY <1>1, <1>2, <1>3, <1>5 DEF Types
  <2> QED
    BY <1>1, <1>5, <2>1, PrefixCalled
<1>6. CASE Abort(r) /\ UNCHANGED <<prefix, faults>>
  <2>1. Types'
    BY <1>1, <1>2, <1>6 DEF Types, Abort
  <2> QED
    BY <1>1, <1>6, <2>1, Aborted
<1> QED
  BY <1>4, <1>5, <1>6 DEF ReleaseCIDR
\* Row n is row m with address ip of family f.
Gets(n, m, f, ip) ==
  /\ n \in Row /\ n.vpc = m.vpc /\ n.state = m.state
  /\ Number(n, f) = ip /\ \A g \in Families : g # f => Number(n, g) = Number(m, g)

\* It is what the handler saves.
LEMMA GetsIs ==
  ASSUME NEW m \in Row, NEW f \in Families, NEW ip \in 1 .. PoolSize,
         NEW n, n = IF f = "v4" THEN [m EXCEPT !.v4 = ip] ELSE [m EXCEPT !.v6 = ip]
  PROVE  Gets(n, m, f, ip)
<1>1. ip \in 0 .. PoolSize
  BY ConstantsAssumption
<1> QED
  BY <1>1 DEF Gets, Row, Number, Families

\* An address is leased, for the row that will be saved.
LEMMA AcquireCalled ==
  ASSUME IInv, NEW r \in Requests, Calling(r, "acquire"), NEW ip \in 1 .. PoolSize,
         NEW x, x = Head(req[r].calls), lease[<<x.ns, x.fam, ip>>] = Nothing,
         lease' = [lease EXCEPT ![<<x.ns, x.fam, ip>>] = req[r].dev],
         NEW n, Gets(n, req[r].new, x.fam, ip), Called(r, n), Types', UNCHANGED <<row, raced, undone, clean>>
  PROVE  IInv'
<1>1. req[r].at = "ipam" /\ req[r].calls # <<>> /\ x.do = "acquire"
  BY DEF Calling
<1>2. PICK d \in Devices : d = req[r].dev
  BY <1>1, Serving
<1> DEFINE h == req[r]
           s == req[r].calls
           addr == <<x.ns, x.fam, ip>>
<1>3. Types /\ Runs(h) /\ s \in Seq(Call) /\ h.new \in Row /\ Orderly(s) /\ Ledger
  BY <1>1, Serving DEF IInv, Runs
<1>4. /\ x \in Call /\ Takes(s, x.fam)
      /\ \A ns : TakesIn(s, ns) => x.ns = ns
      /\ \A f : Takes(Tail(s), f) <=> Takes(s, f) /\ f # x.fam
      /\ \A a : ~ Gives(Tail(s), a) /\ ~ Gives(s, a)
  BY <1>1, <1>3, Popped
<1>5. x.ns \in Namespaces /\ x.fam \in Families /\ x.ns = NamespaceOf[h.new.vpc]
  <2>1. x.ns \in Namespaces /\ x.fam \in Families
    BY <1>1, <1>4 DEF Call
  <2> QED
    BY <2>1, <1>3, <1>4 DEF Runs
<1>6. addr \in Addresses
  BY <1>5 DEF Addresses
<1>7. /\ n \in Row /\ n.vpc = h.new.vpc /\ n.state = h.new.state
      /\ Number(n, x.fam) = ip /\ \A f \in Families : f # x.fam => Number(n, f) = Number(h.new, f)
  BY DEF Gets
<1>8. ip # 0
  BY ConstantsAssumption
<1>9. Filled(h, n)
  BY <1>1, <1>7, <1>8 DEF Filled
<1>g. PICK g : g = After(h, n)
  OBVIOUS
<1>10. /\ TypeOK' /\ Handlers' /\ Alone'
       /\ ~ raced => \A e \in Devices : e # d => \A a : Holds(e, a)' <=> Holds(e, a)
       /\ ~ raced => \A a : Holds(d, a) <=> Has(h, a)
       /\ ~ raced => \A a : Holds(d, a)' <=> Has(g, a)
  <2>1. Stepped(r, d, n, g)
    BY <1>1, <1>2, <1>9, <1>g DEF Stepped
  <2>2. TypeOK' /\ Handlers' /\ Alone'
    BY <2>1, WentOn
  <2>3. ~ raced => \A e \in Devices : e # d => \A a : Holds(e, a)' <=> Holds(e, a)
    BY <2>1, WentOn
  <2>4. ~ raced => \A a : Holds(d, a) <=> Has(h, a)
    BY <2>1, WentOn
  <2>5. ~ raced => GoesOn(d, g)
    BY <2>1, WentOn
  <2> QED
    BY <2>2, <2>3, <2>4, <2>5 DEF GoesOn
<1>11. /\ g.calls = Tail(s) /\ g.new = n /\ g.op = h.op
  BY <1>1, <1>3, <1>9, <1>g, AfterIs
<1>12. h.op # "delete"
  BY <1>3, <1>4, <1>5 DEF Runs
<1>13. \A a : Has(g, a) <=> Has(h, a) \/ a = addr
  <2> TAKE a
  <2>1. Has(h, a) <=> \E f \in Families : ~ Takes(s, f) /\ a = Address(h.new, f)
    BY <1>4, <1>12 DEF Has
  <2>2. Has(g, a) <=> \E f \in Families : ~ (Takes(s, f) /\ f # x.fam) /\ a = Address(n, f)
    BY <1>4, <1>11, <1>12 DEF Has
  <2>3. Address(n, x.fam) = addr
    BY <1>5, <1>7 DEF Address
  <2>4. \A f \in Families : f # x.fam => Address(n, f) = Address(h.new, f)
    BY <1>7 DEF Address
  <2>5. \A f \in Families : ~ Takes(s, f) => f # x.fam
    BY <1>4
  <2> HIDE DEF h, s, addr
  <2> QED
    BY <1>5, <2>1, <2>2, <2>3, <2>4, <2>5
<1>14. /\ lease'[addr] = d /\ \A a \in Addresses : a # addr => lease'[a] = lease[a]
       /\ lease[addr] = Nothing /\ Nothing \notin Devices
  BY <1>2, <1>3, <1>6, ConstantsAssumption DEF Types
<1> HIDE DEF h, addr
<1>15. ASSUME ~ raced, ~ undone, NEW e \in Devices, NEW a \in Addresses, Holds(e, a)'
       PROVE  lease'[a] = e
  <2>1. Holds(e, a) => lease[a] = e
    BY <1>3, <1>15 DEF Ledger
  <2>2. Holds(e, a) \/ (e = d /\ a = addr)
    BY <1>10, <1>13, <1>15
  <2> QED
    BY <1>14, <2>1, <2>2
<1>16. ASSUME clean, ~ raced, NEW e \in Devices, NEW a \in Addresses, lease'[a] = e
       PROVE  Holds(e, a)'
  <2>1. CASE a = addr
    BY <1>10, <1>13, <1>14, <1>16, <2>1
  <2>2. CASE a # addr
    <3>1. Holds(e, a)
      BY <1>3, <1>14, <1>16, <2>2 DEF Ledger
    <3> QED
      BY <3>1, <1>10, <1>13, <1>16
  <2> QED
    BY <2>1, <2>2
<1>17. Ledger'
  BY <1>3, <1>15, <1>16 DEF Ledger
<1> QED
  BY <1>10, <1>17 DEF IInv

\* It is, or the pool is empty, or the call is cut, before or after it.
LEMMA AcquireInv == ASSUME IInv, NEW r \in Requests, AcquireIP(r) PROVE IInv'
<1> DEFINE call == Head(req[r].calls)
           free == {ip \in 1 .. PoolSize : lease[<<call.ns, call.fam, ip>>] = Nothing}
<1>1. /\ Calling(r, "acquire") /\ UNCHANGED <<row, prefix, started, raced>>
      /\ req[r].at = "ipam" /\ req[r].calls # <<>> /\ call.do = "acquire"
  BY DEF AcquireIP, Calling
<1>2. Types /\ req[r].calls \in Seq(Call) /\ req[r].dev \in Devices /\ req[r].new \in Row
  BY <1>1, Serving
<1>3. call \in Call /\ \A ip \in 1 .. PoolSize : <<call.ns, call.fam, ip>> \in Addresses
  <2>1. call \in Call
    BY <1>1, <1>2, HeadTailProperties
  <2>2. call.ns \in Namespaces /\ call.fam \in Families
    BY <2>1, <1>1 DEF Call
  <2> QED
    BY <2>1, <2>2 DEF Addresses
<1>4. ASSUME NEW ip \in free, lease' = [lease EXCEPT ![<<call.ns, call.fam, ip>>] = req[r].dev],
             \/ /\ Called(r, IF call.fam = "v4" THEN [req[r].new EXCEPT !.v4 = ip]
                             ELSE [req[r].new EXCEPT !.v6 = ip])
                /\ UNCHANGED <<undone, clean, faults>>
             \/ Cut(r)
      PROVE  IInv'
  <2>1. <<call.ns, call.fam, ip>> \in Addresses
    BY <1>3
  <2>2. /\ lease' \in [Addresses -> Devices \cup {Nothing}]
        /\ \A a \in Addresses : lease'[a] # lease[a] => lease[a] = Nothing
    BY <1>2, <1>4, <2>1 DEF Types
  <2>3. CASE Cut(r)
    <3>1. Abort(r) /\ Types'
      BY <1>1, <1>2, <2>2, <2>3, CutIs DEF Types
    <3> QED
      BY <1>1, <2>2, <3>1, Aborted
  <2>4. CASE /\ Called(r, IF call.fam = "v4" THEN [req[r].new EXCEPT !.v4 = ip]
                          ELSE [req[r].new EXCEPT !.v6 = ip])
             /\ UNCHANGED <<undone, clean, faults>>
    <3>1. Types'
      BY <1>1, <1>2, <2>2, <2>4 DEF Types
    <3>2. PICK x, n : /\ x = call
                      /\ n = IF call.fam = "v4" THEN [req[r].new EXCEPT !.v4 = ip]
                             ELSE [req[r].new EXCEPT !.v6 = ip]
      OBVIOUS
    <3>3. Called(r, n) /\ UNCHANGED <<row, raced, undone, clean>>
      BY <1>1, <2>4, <3>2
    <3>4. Gets(n, req[r].new, x.fam, ip)
      <4>1. x.fam \in Families
        BY <1>1, <1>3, <3>2 DEF Call
      <4> QED
        BY <1>2, <3>2, <4>1, GetsIs
    <3>5. ip \in 1 .. PoolSize /\ lease[<<x.ns, x.fam, ip>>] = Nothing
      BY <1>4, <3>2
    <3> QED
      BY <1>1, <1>4, <3>1, <3>2, <3>3, <3>4, <3>5, AcquireCalled
  <2> QED
    BY <1>4, <2>3, <2>4
<1>5. CASE free = {} /\ Abort(r) /\ UNCHANGED <<lease, faults>>
  <2>1. Types'
    BY <1>1, <1>2, <1>5 DEF Types, Abort
  <2> QED
    BY <1>1, <1>5, <2>1, Aborted
<1>6. CASE Cut(r) /\ UNCHANGED lease
  <2>1. Abort(r) /\ Types'
    BY <1>1, <1>2, <1>6, CutIs DEF Types
  <2> QED
    BY <1>1, <1>6, <2>1, Aborted
<1> QED
  BY <1>4, <1>5, <1>6 DEF AcquireIP
\* An address is released: the first call is the one that has to.
LEMMA ReleaseCalled ==
  ASSUME IInv, NEW r \in Requests, Calling(r, "release"),
         NEW x, x = Head(req[r].calls), lease' = [lease EXCEPT ![<<x.ns, x.fam, x.ip>>] = Nothing],
         NEW n, n = req[r].new, Called(r, n), Types', UNCHANGED <<row, raced, undone, clean>>
  PROVE  IInv'
<1>1. req[r].at = "ipam" /\ req[r].calls # <<>> /\ x.do = "release"
  BY DEF Calling
<1>2. PICK d \in Devices : d = req[r].dev
  BY <1>1, Serving
<1> DEFINE h == req[r]
           s == req[r].calls
           addr == <<x.ns, x.fam, x.ip>>
<1>3. Types /\ Runs(h) /\ s \in Seq(Call) /\ h.new \in Row /\ Orderly(s) /\ Ledger
  BY <1>1, Serving DEF IInv, Runs
<1>4. /\ x \in Call
      /\ \A f : Takes(Tail(s), f) <=> Takes(s, f)
      /\ \A a : Gives(s, a) <=> Gives(Tail(s), a) \/ a = addr
      /\ \A a : Gives(Tail(s), a) => a[2] # x.fam
  BY <1>1, <1>3, Popped
<1>5. addr \in Addresses /\ addr[2] = x.fam
  BY <1>1, <1>4 DEF Call, Addresses
<1>6. Filled(h, n)
  BY <1>1, <1>3 DEF Filled
<1>g. PICK g : g = After(h, n)
  OBVIOUS
<1>7. /\ TypeOK' /\ Handlers' /\ Alone'
      /\ ~ raced => \A e \in Devices : e # d => \A a : Holds(e, a)' <=> Holds(e, a)
      /\ ~ raced => \A a : Holds(d, a) <=> Has(h, a)
      /\ ~ raced => \A a : Holds(d, a)' <=> Has(g, a)
  <2>1. Stepped(r, d, n, g)
    BY <1>1, <1>2, <1>6, <1>g DEF Stepped
  <2>2. TypeOK' /\ Handlers' /\ Alone'
    BY <2>1, WentOn
  <2>3. ~ raced => \A e \in Devices : e # d => \A a : Holds(e, a)' <=> Holds(e, a)
    BY <2>1, WentOn
  <2>4. ~ raced => \A a : Holds(d, a) <=> Has(h, a)
    BY <1>1, <1>2, Serving
  <2>5. ~ raced => GoesOn(d, g)
    BY <2>1, WentOn
  <2> QED
    BY <2>2, <2>3, <2>4, <2>5 DEF GoesOn
<1>8. /\ g.calls = Tail(s) /\ g.new = n /\ g.op = h.op
  BY <1>1, <1>3, <1>6, <1>g, AfterIs
<1>9. Gives(s, addr) /\ (h.op # "delete" => Takes(s, x.fam))
  <2>1. Gives(s, addr)
    BY <1>4
  <2>2. h.op # "delete" => Takes(s, addr[2])
    BY <2>1, <1>3, <1>5 DEF Runs
  <2> QED
    BY <2>1, <2>2, <1>5
<1>10. \A a : Has(g, a) <=> Has(h, a) /\ a # addr
  <2> TAKE a
  <2>1. Gives(Tail(s), a) <=> Gives(s, a) /\ a # addr
    BY <1>4, <1>5
  <2>2. \A f \in Families : h.op # "delete" /\ ~ Takes(s, f) => Address(n, f) # addr
    BY <1>9 DEF Address
  <2> QED
    BY <1>4, <1>8, <2>1, <2>2 DEF Has
<1>11. /\ lease'[addr] = Nothing /\ \A a \in Addresses : a # addr => lease'[a] = lease[a]
       /\ Nothing \notin Devices
  BY <1>3, <1>5, ConstantsAssumption DEF Types
<1>12. Has(h, addr)
  BY <1>9 DEF Has
<1> HIDE DEF h, addr
<1>13. ASSUME ~ raced, ~ undone, NEW e \in Devices, NEW a \in Addresses, Holds(e, a)'
       PROVE  lease'[a] = e
  <2>1. \A b \in Devices, c \in Addresses : Holds(b, c) => lease[c] = b
    BY <1>3, <1>13 DEF Ledger
  <2>2. lease[addr] = d
    BY <1>5, <1>7, <1>12, <1>13, <2>1
  <2>3. Holds(e, a)
    BY <1>7, <1>10, <1>13
  <2>4. a # addr
    <3>1. CASE e = d
      BY <1>7, <1>10, <1>13, <3>1
    <3>2. CASE e # d
      BY <2>1, <2>2, <2>3, <3>2
    <3> QED
      BY <3>1, <3>2
  <2> QED
    BY <1>11, <2>1, <2>3, <2>4
<1>14. ASSUME clean, ~ raced, NEW e \in Devices, NEW a \in Addresses, lease'[a] = e
       PROVE  Holds(e, a)'
  <2>1. a # addr /\ lease[a] = e
    BY <1>11, <1>14
  <2>2. Holds(e, a)
    BY <1>3, <1>14, <2>1 DEF Ledger
  <2> QED
    BY <2>1, <2>2, <1>7, <1>10, <1>14
<1>15. Ledger'
  BY <1>3, <1>13, <1>14 DEF Ledger
<1> QED
  BY <1>7, <1>15 DEF IInv

\* It is, or IPAM refuses, or the call is cut, before or after it.
LEMMA ReleaseInv == ASSUME IInv, NEW r \in Requests, ReleaseIP(r) PROVE IInv'
<1> DEFINE call == Head(req[r].calls)
           address == <<call.ns, call.fam, call.ip>>
<1>1. /\ Calling(r, "release") /\ UNCHANGED <<row, prefix, started, raced>>
      /\ req[r].at = "ipam" /\ req[r].calls # <<>> /\ call.do = "release"
  BY DEF ReleaseIP, Calling
<1>2. Types /\ req[r].calls \in Seq(Call) /\ Runs(req[r])
  BY <1>1, Serving
<1>3. address \in Addresses /\ Gives(req[r].calls, address)
  <2>1. call \in Call /\ Gives(req[r].calls, address)
    BY <1>1, <1>2, Popped DEF Runs
  <2> QED
    BY <2>1, <1>1 DEF Call, Addresses
<1>4. ASSUME lease' = [lease EXCEPT ![address] = Nothing],
             (Called(r, req[r].new) /\ UNCHANGED <<undone, clean, faults>>) \/ Cut(r)
      PROVE  IInv'
  <2>2. /\ lease' \in [Addresses -> Devices \cup {Nothing}]
        /\ \A a \in Addresses : lease'[a] # lease[a] => a = address
    BY <1>2, <1>4, <1>3 DEF Types
  <2>3. CASE Cut(r)
    <3>1. Abort(r) /\ Types'
      BY <1>1, <1>2, <2>2, <2>3, CutIs DEF Types
    <3> QED
      BY <1>1, <1>3, <2>2, <3>1, Aborted
  <2>4. CASE Called(r, req[r].new) /\ UNCHANGED <<undone, clean, faults>>
    <3>1. Types'
      BY <1>1, <1>2, <2>2, <2>4 DEF Types
    <3>2. PICK x, n : x = call /\ n = req[r].new
      OBVIOUS
    <3>3. Called(r, n) /\ UNCHANGED <<row, raced, undone, clean>>
      BY <1>1, <2>4, <3>2
    <3>4. lease' = [lease EXCEPT ![<<x.ns, x.fam, x.ip>>] = Nothing]
      BY <1>4, <3>2
    <3> QED
      BY <1>1, <3>1, <3>2, <3>3, <3>4, ReleaseCalled
  <2> QED
    BY <1>4, <2>3, <2>4
<1>5. CASE Abort(r) /\ UNCHANGED <<lease, faults>>
  <2>1. Types'
    BY <1>1, <1>2, <1>5 DEF Types, Abort
  <2> QED
    BY <1>1, <1>5, <2>1, Aborted
<1>6. CASE Cut(r) /\ UNCHANGED lease
  <2>1. Abort(r) /\ Types'
    BY <1>1, <1>2, <1>6, CutIs DEF Types
  <2> QED
    BY <1>1, <1>6, <2>1, Aborted
<1> QED
  BY <1>4, <1>5, <1>6 DEF ReleaseIP
-----------------------------------------------------------------------------
\* The soft delete: what the device had is in the calls that follow.
LEMMA MarkInv == ASSUME IInv, NEW r \in Requests, MarkDeleted(r) PROVE IInv'
<1>1. PICK d \in Devices : d = req[r].dev
  BY Serving DEF MarkDeleted
<1>2. PICK h, g : h = req[r] /\ g = [h EXCEPT !.at = "ipam"]
  OBVIOUS
<1>3. Types /\ Runs(h) /\ h \in Handler /\ Ledger /\ h.at = "mark" /\ h.op = "delete" /\ req[r] # Idle
  BY <1>2, Serving DEF MarkDeleted, IInv, Runs
<1>4. /\ row' = [row EXCEPT ![d].state = "deleted"] /\ req' = [req EXCEPT ![r] = g]
      /\ UNCHANGED <<lease, prefix, started, faults, raced, undone, clean>>
  BY <1>1, <1>2 DEF MarkDeleted
<1>5. row'[d].state = "deleted" /\ row' \in [Devices -> Row] /\ \A e \in Devices : e # d => row'[e] = row[e]
  BY <1>3, <1>4 DEF Types, Row
<1>6. Types'
  BY <1>3, <1>4, <1>5 DEF Types
<1>7. /\ g \in Handler /\ g.op = "delete" /\ g.at = "ipam" /\ g.dev = h.dev /\ g.new = h.new
      /\ g.calls = h.calls
  BY <1>2, <1>3 DEF Handler
<1>8. Runs(g) /\ Reads(g, row'[d])
  BY <1>3, <1>5, <1>7 DEF Runs, Reads
<1>9. /\ TypeOK' /\ Handlers' /\ Alone'
      /\ ~ raced => \A e \in Devices : e # d => \A a : Holds(e, a)' <=> Holds(e, a)
      /\ ~ raced => \A a : Holds(d, a) <=> Has(h, a)
      /\ ~ raced => \A a : Holds(d, a)' <=> Has(g, a)
  <2>1. g # Idle
    BY <1>7, IdleIs
  <2>2. g.dev = d /\ UNCHANGED raced
    BY <1>1, <1>2, <1>4, <1>7
  <2>3. TypeOK' /\ Handlers' /\ Alone'
    BY <1>1, <1>2, <1>3, <1>4, <1>5, <1>6, <1>8, <2>1, <2>2, Served
  <2>4. ~ raced => \A e \in Devices : e # d => \A a : Holds(e, a)' <=> Holds(e, a)
    BY <1>1, <1>2, <1>3, <1>4, <1>5, <1>6, <1>8, <2>1, <2>2, Served
  <2>5. ~ raced => \A a : Holds(d, a) <=> Has(h, a)
    BY <1>1, <1>2, <1>3, Serving
  <2>6. ~ raced => GoesOn(d, g)
    BY <1>1, <1>2, <1>3, <1>4, <1>5, <1>6, <1>8, <2>1, <2>2, Served
  <2> QED
    BY <2>3, <2>4, <2>5, <2>6 DEF GoesOn
<1>10. \A a : Has(g, a) <=> Has(h, a)
  BY <1>3, <1>7 DEF Has
<1>11. ~ raced => \A e \in Devices, a \in Addresses : Holds(e, a)' <=> Holds(e, a)
  BY <1>9, <1>10
<1>12. Ledger'
  BY <1>3, <1>4, <1>11 DEF Ledger
<1> QED
  BY <1>9, <1>12 DEF IInv

\* The row is saved: it says what the handler had come to hold.
LEMMA FinishInv == ASSUME IInv, NEW r \in Requests, Finish(r) PROVE IInv'
<1>1. PICK d \in Devices : d = req[r].dev
  BY Serving DEF Finish
<1>2. PICK h : h = req[r]
  OBVIOUS
<1>3. /\ Types /\ Runs(h) /\ h \in Handler /\ Ledger /\ h.at = "ipam" /\ h.calls = <<>> /\ req[r] # Idle
      /\ h.new \in Row /\ (~ raced => Reads(h, row[d]))
      /\ UNCHANGED <<lease, prefix, started, raced>>
  BY <1>1, <1>2, Serving DEF Finish, IInv
<1>4. (\A f : ~ Takes(h.calls, f)) /\ (\A a : ~ Gives(h.calls, a))
  BY <1>3 DEF Takes, Gives
<1>5. CASE Cut(r) /\ UNCHANGED row
  <2>1. Abort(r) /\ Types'
    BY <1>3, <1>5, CutIs DEF Types
  <2>2. UNCHANGED <<row, raced>> /\ req[r].at = "ipam" /\ lease' = lease
    BY <1>2, <1>3, <1>5
  <2> QED
    BY <2>1, <2>2, Aborted
<1>6. CASE /\ row' = IF h.op = "delete" THEN row ELSE [row EXCEPT ![d] = h.new]
           /\ req' = [req EXCEPT ![r] = Idle]
           /\ UNCHANGED <<undone, clean, faults>>
  <2>1. /\ row' \in [Devices -> Row] /\ \A e \in Devices : e # d => row'[e] = row[e]
        /\ row'[d] = IF h.op = "delete" THEN row[d] ELSE h.new
    BY <1>3, <1>6 DEF Types
  <2>2. h.op # "delete" => h.new.state = "live" /\ h.new.v4 # 0 /\ h.new.v6 # 0
    BY <1>3, <1>4 DEF Runs, Number, Families
  <2>3. Types'
    BY <1>3, <1>6, <2>1, <2>2 DEF Types
  <2>4. /\ TypeOK' /\ Handlers' /\ Alone'
        /\ ~ raced => \A e \in Devices : e # d => \A a : Holds(e, a)' <=> Holds(e, a)
        /\ ~ raced => \A a : Holds(d, a) <=> Has(h, a)
        /\ ~ raced => \A a : Holds(d, a)' <=> InRow(row'[d], a)
    <3>1. UNCHANGED raced
      BY <1>3
    <3>2. TypeOK' /\ Handlers' /\ Alone'
      BY <1>1, <1>2, <1>3, <1>6, <2>1, <2>3, <3>1, Served
    <3>3. ~ raced => \A e \in Devices : e # d => \A a : Holds(e, a)' <=> Holds(e, a)
      BY <1>1, <1>2, <1>3, <1>6, <2>1, <2>3, <3>1, Served
    <3>4. ~ raced => \A a : Holds(d, a) <=> Has(h, a)
      BY <1>1, <1>2, <1>3, Serving
    <3>5. ~ raced => Settles(d)
      BY <1>1, <1>2, <1>3, <1>6, <2>1, <2>3, <3>1, Served
    <3> QED
      BY <3>2, <3>3, <3>4, <3>5 DEF Settles
  <2>5. ASSUME ~ raced, NEW a
        PROVE  Has(h, a) <=> InRow(row'[d], a)
    <3>1. CASE h.op = "delete"
      BY <1>3, <1>4, <2>1, <2>5, <3>1 DEF Has, InRow, Reads
    <3>2. CASE h.op # "delete"
      BY <1>4, <2>1, <2>2, <3>2 DEF Has, InRow
    <3> QED
      BY <3>1, <3>2
  <2>6. ~ raced => \A e \in Devices, a \in Addresses : Holds(e, a)' <=> Holds(e, a)
    BY <2>4, <2>5
  <2>7. Ledger'
    BY <1>3, <1>6, <2>6 DEF Ledger
  <2> QED
    BY <2>4, <2>7 DEF IInv
<1> QED
  BY <1>1, <1>2, <1>5, <1>6 DEF Finish

\* CreateDevice begins: the device has nothing.
LEMMA CreateInv ==
  ASSUME IInv, NEW r \in Requests, NEW d \in Devices, NEW v \in Vpcs, NEW list \in CidrLists,
         CreateDevice(r, d, v, list)
  PROVE  IInv'
<1>1. PICK c, n, h : /\ c = CreateCalls(NamespaceOf[v], list)
                     /\ n = [NoRow EXCEPT !.state = "live", !.vpc = v, !.cidrs = list]
                     /\ h = [op |-> "create", at |-> "ipam", dev |-> d, new |-> n, calls |-> c]
  OBVIOUS
<1>2. Begin(r, d, h) /\ row[d].state = "new"
  BY <1>1 DEF CreateDevice
<1>3. n \in Row /\ n.state = "live" /\ n.vpc = v
  BY <1>1, IdleIs DEF Row
<1>4. /\ c \in Seq(Call) /\ Orderly(c) /\ TakesIn(c, NamespaceOf[v])
      /\ \A f : Takes(c, f) <=> f \in Families
      /\ \A a : ~ Gives(c, a)
  <2>1. NamespaceOf[v] \in Namespaces
    BY DEF Namespaces
  <2> QED
    BY <1>1, <2>1, CreateCallsAre
<1>5. h \in Handler /\ h.op = "create" /\ h.at = "ipam" /\ h.dev = d /\ h.new = n /\ h.calls = c
  BY <1>1, <1>3, <1>4 DEF Handler
<1>6. Runs(h)
  BY <1>3, <1>4, <1>5 DEF Runs
<1>7. Reads(h, row[d])
  BY <1>2, <1>4, <1>5 DEF Reads
<1>8. \A a \in Addresses : Has(h, a) <=> InRow(row[d], a)
  BY <1>2, <1>4, <1>5 DEF Has, InRow
<1> QED
  BY <1>2, <1>5, <1>6, <1>7, <1>8, Begun

\* DeleteDevice begins: it has to give back both addresses of the row.
LEMMA DeleteInv ==
  ASSUME IInv, NEW r \in Requests, NEW d \in Devices, DeleteDevice(r, d)
  PROVE  IInv'
<1>1. PICK n, c, h : /\ n = row[d] /\ c = DeleteCalls(n)
                     /\ h = [op |-> "delete", at |-> "mark", dev |-> d, new |-> n, calls |-> c]
  OBVIOUS
<1>2. Begin(r, d, h) /\ n.state = "live"
  BY <1>1 DEF DeleteDevice
<1>3. n \in Row /\ n.v4 # 0 /\ n.v6 # 0
  BY <1>1, <1>2, TypesAre DEF IInv, Types
<1>4. /\ c \in Seq(Call) /\ Orderly(c) /\ \A f : ~ Takes(c, f)
      /\ \A a : Gives(c, a) <=> \E f \in Families : a = Address(n, f)
  <2>1. \A f \in Families : Number(n, f) # 0
    BY <1>3 DEF Number
  <2> QED
    BY <1>1, <1>3, <2>1, DeleteCallsAre
<1>5. h \in Handler /\ h.op = "delete" /\ h.at = "mark" /\ h.dev = d /\ h.new = n /\ h.calls = c
  BY <1>1, <1>3, <1>4 DEF Handler
<1>6. Runs(h)
  BY <1>3, <1>4, <1>5, NoneIn DEF Runs
<1>7. Reads(h, row[d])
  BY <1>1, <1>2, <1>4, <1>5 DEF Reads
<1>8. \A a \in Addresses : Has(h, a) <=> InRow(row[d], a)
  BY <1>1, <1>2, <1>4, <1>5 DEF Has, InRow
<1> QED
  BY <1>2, <1>5, <1>6, <1>7, <1>8, Begun
\* The calls of UpdateDevice: those of a move, then those of a difference of prefixes.
UpdateCalls(old, moves, v, cidrs) ==
  (IF moves THEN MoveCalls(old, NamespaceOf[v], IF cidrs = Nothing THEN <<>> ELSE cidrs) ELSE <<>>)
    \o (IF cidrs = Nothing THEN <<>> ELSE DiffCalls(old, cidrs))

\* They take and give everything, or nothing.
LEMMA UpdateCallsAre ==
  ASSUME NEW old \in Row, \A f \in Families : Number(old, f) # 0, NEW moves \in BOOLEAN,
         NEW v \in Vpcs \cup {Nothing}, moves => v \in Vpcs, NEW cidrs \in CidrLists \cup {Nothing},
         NEW c, c = UpdateCalls(old, moves, v, cidrs)
  PROVE  /\ moves /\ NamespaceOf[v] # NamespaceOf[old.vpc] =>
              /\ c \in Seq(Call) /\ Orderly(c) /\ TakesIn(c, NamespaceOf[v])
              /\ \A f : Takes(c, f) <=> f \in Families
              /\ \A a : Gives(c, a) <=> \E f \in Families : a = Address(old, f)
         /\ ~ moves \/ NamespaceOf[v] = NamespaceOf[old.vpc] =>
              /\ c \in Seq(Call) /\ Orderly(c)
              /\ (\A f : ~ Takes(c, f)) /\ (\A a : ~ Gives(c, a))
<1> DEFINE list == IF cidrs = Nothing THEN <<>> ELSE cidrs
           m == IF moves THEN MoveCalls(old, NamespaceOf[v], list) ELSE <<>>
           t == IF cidrs = Nothing THEN <<>> ELSE DiffCalls(old, cidrs)
<1>1. list \in CidrLists
  BY ConstantsAssumption
<1>2. Plain(t)
  <2>1. Plain(<<>>)
    BY DEF Plain
  <2>2. cidrs # Nothing => Plain(DiffCalls(old, cidrs))
    BY DiffIs
  <2> QED
    BY <2>1, <2>2
<1>3. c = m \o t
  BY DEF UpdateCalls
<1> HIDE DEF list, t
<1>4. t \in Seq(Call) /\ Orderly(t) /\ (\A f : ~ Takes(t, f)) /\ (\A a : ~ Gives(t, a))
  BY <1>2, PlainIs
<1>5. ASSUME moves, NamespaceOf[v] # NamespaceOf[old.vpc]
      PROVE  /\ c \in Seq(Call) /\ Orderly(c) /\ TakesIn(c, NamespaceOf[v])
             /\ \A f : Takes(c, f) <=> f \in Families
             /\ \A a : Gives(c, a) <=> \E f \in Families : a = Address(old, f)
  <2>1. NamespaceOf[v] \in Namespaces
    BY <1>5 DEF Namespaces
  <2>2. m = MoveCalls(old, NamespaceOf[v], list)
    BY <1>5
  <2> HIDE DEF m
  <2>3. /\ m \in Seq(Call) /\ Orderly(m) /\ TakesIn(m, NamespaceOf[v])
        /\ \A f : Takes(m, f) <=> f \in Families
        /\ \A a : Gives(m, a) <=> \E f \in Families : a = Address(old, f)
    BY <1>1, <1>5, <2>1, <2>2, MoveCallsAre
  <2>4. /\ m \o t \in Seq(Call)
        /\ \A f : Takes(m \o t, f) <=> Takes(m, f)
        /\ \A a : Gives(m \o t, a) <=> Gives(m, a)
    BY <1>4, <2>3, Joined
  <2>5. Orderly(m \o t)
    BY <1>4, <2>3, JoinedOrderly
  <2>6. TakesIn(t, NamespaceOf[v])
    BY <1>4, NoneIn
  <2>7. TakesIn(m \o t, NamespaceOf[v])
    BY <1>4, <2>3, <2>6, JoinedIn
  <2> QED
    BY <1>3, <2>3, <2>4, <2>5, <2>7
<1>6. ASSUME ~ moves \/ NamespaceOf[v] = NamespaceOf[old.vpc]
      PROVE  /\ c \in Seq(Call) /\ Orderly(c)
             /\ (\A f : ~ Takes(c, f)) /\ (\A a : ~ Gives(c, a))
  <2>1. m = <<>>
    <3>1. CASE moves
      <4>1. NamespaceOf[v] \in Namespaces /\ NamespaceOf[old.vpc] = NamespaceOf[v]
        BY <1>6, <3>1 DEF Namespaces
      <4> QED
        BY <1>1, <3>1, <4>1, MoveCallsAre
    <3>2. CASE ~ moves
      BY <3>2
    <3> QED
      BY <3>1, <3>2
  <2>2. <<>> \o t = t
    BY <1>4, ConcatEmptySeq
  <2> HIDE DEF m
  <2> QED
    BY <1>3, <1>4, <2>1, <2>2
<1> QED
  BY <1>5, <1>6

\* UpdateDevice begins: a move gives back what the device has and takes anew, any other
\* update keeps its addresses.
LEMMA UpdateInv ==
  ASSUME IInv, NEW r \in Requests, NEW d \in Devices, NEW v \in Vpcs \cup {Nothing},
         NEW cidrs \in CidrLists \cup {Nothing}, UpdateDevice(r, d, v, cidrs)
  PROVE  IInv'
<1>1. PICK old, moves : old = row[d] /\ moves = (v # Nothing /\ v # OrgVpc)
  OBVIOUS
<1>2. PICK c, n, h :
        /\ c = UpdateCalls(old, moves, v, cidrs)
        /\ n = [old EXCEPT !.vpc = IF moves THEN v ELSE @, !.cidrs = IF cidrs = Nothing THEN @ ELSE cidrs]
        /\ h = [op |-> "update", at |-> "ipam", dev |-> d, new |-> n, calls |-> c]
  OBVIOUS
<1>3. Begin(r, d, h) /\ old.state = "live"
  BY <1>1, <1>2 DEF UpdateDevice, UpdateCalls
<1>4. old \in Row /\ old.v4 # 0 /\ old.v6 # 0 /\ moves \in BOOLEAN /\ (moves => v \in Vpcs)
  BY <1>1, <1>3, TypesAre DEF IInv, Types
<1>5. /\ n \in Row /\ n.state = "live" /\ n.v4 = old.v4 /\ n.v6 = old.v6
      /\ n.vpc = IF moves THEN v ELSE old.vpc
  BY <1>2, <1>3, <1>4 DEF Row
<1>6. \A f \in Families : Number(old, f) # 0 /\ Number(n, f) = Number(old, f)
  BY <1>4, <1>5 DEF Number
<1>7. /\ moves /\ NamespaceOf[v] # NamespaceOf[old.vpc] =>
           /\ c \in Seq(Call) /\ Orderly(c) /\ TakesIn(c, NamespaceOf[v])
           /\ \A f : Takes(c, f) <=> f \in Families
           /\ \A a : Gives(c, a) <=> \E f \in Families : a = Address(old, f)
      /\ ~ moves \/ NamespaceOf[v] = NamespaceOf[old.vpc] =>
           /\ c \in Seq(Call) /\ Orderly(c)
           /\ (\A f : ~ Takes(c, f)) /\ (\A a : ~ Gives(c, a))
  BY <1>2, <1>4, <1>6, UpdateCallsAre
<1>8. h.op = "update" /\ h.at = "ipam" /\ h.dev = d /\ h.new = n /\ h.calls = c
  BY <1>2
<1>9. h \in Handler
  BY <1>2, <1>5, <1>7 DEF Handler
<1>10. CASE moves /\ NamespaceOf[v] # NamespaceOf[old.vpc]
  <2>1. NamespaceOf[n.vpc] = NamespaceOf[v] /\ NamespaceOf[n.vpc] # NamespaceOf[old.vpc]
    BY <1>5, <1>10
  <2>2. \A a : Gives(c, a) => Takes(c, a[2])
    BY <1>7, <1>10 DEF Address
  <2>3. Runs(h)
    BY <1>5, <1>7, <1>8, <1>9, <1>10, <2>1, <2>2 DEF Runs
  <2>4. Reads(h, row[d])
    BY <1>1, <1>3, <1>8, <2>1 DEF Reads
  <2>5. \A a \in Addresses : Has(h, a) <=> InRow(row[d], a)
    BY <1>1, <1>3, <1>7, <1>8, <1>10 DEF Has, InRow
  <2> QED
    BY <1>3, <1>8, <2>3, <2>4, <2>5, Begun
<1>11. CASE ~ moves \/ NamespaceOf[v] = NamespaceOf[old.vpc]
  <2>1. NamespaceOf[n.vpc] = NamespaceOf[old.vpc]
    BY <1>5, <1>11
  <2>2. TakesIn(c, NamespaceOf[n.vpc])
    BY <1>7, <1>11, NoneIn
  <2>3. Runs(h)
    BY <1>5, <1>6, <1>7, <1>8, <1>9, <1>11, <2>2 DEF Runs
  <2>4. Reads(h, row[d])
    BY <1>1, <1>3, <1>5, <1>7, <1>8, <1>11 DEF Reads
  <2>5. \A f \in Families : Address(n, f) = Address(old, f)
    BY <1>6, <2>1 DEF Address
  <2>6. \A a \in Addresses : Has(h, a) <=> InRow(row[d], a)
    BY <1>1, <1>3, <1>7, <1>8, <1>11, <2>5 DEF Has, InRow
  <2> QED
    BY <1>3, <1>8, <2>3, <2>4, <2>6, Begun
<1> QED
  BY <1>10, <1>11

-----------------------------------------------------------------------------
\* Every step keeps the invariant.
LEMMA NextInv == IInv /\ [Next]_vars => IInv'
<1> SUFFICES ASSUME IInv, [Next]_vars PROVE IInv'
  OBVIOUS
<1>1. CASE UNCHANGED vars
  BY <1>1 DEF vars, IInv, TypeOK, Live, Handlers, Alone, Ledger, Holds
<1>2. ASSUME NEW r \in Requests, Arrive(r) PROVE IInv'
  BY <1>2, CreateInv, UpdateInv, DeleteInv DEF Arrive
<1>3. ASSUME NEW r \in Requests, Serve(r) PROVE IInv'
  BY <1>3, MarkInv, AcquireInv, ReleaseInv, AssignInv, FreeInv, FinishInv DEF Serve
<1> QED
  BY <1>1, <1>2, <1>3 DEF Next

\* The invariant holds throughout.
THEOREM Invariance == Spec => []IInv
<1> QED
  BY InitInv, NextInv, PTL DEF Spec

\* Every variable has its type, and a live device has an address of each family.
THEOREM TypeCorrect == Spec => []TypeOK
<1>1. IInv => TypeOK
  BY DEF IInv
<1> QED
  BY <1>1, Invariance, PTL

\* A row's addresses, by family.
LEMMA AddressesAre ==
  ASSUME NEW d \in Live, NEW a
  PROVE  a \in AddressesOf(d) <=> InRow(row[d], a)
BY DEF AddressesOf, InRow, Address, Number, Families, Live

\* What a live device's row says it has, it has, unless it is being moved.
LEMMA LiveHolds ==
  ASSUME IInv, ~ raced, NEW d \in Live, ~ BeingMoved(d), NEW a \in AddressesOf(d)
  PROVE  a \in Addresses /\ Holds(d, a)
<1>1. Types /\ Handlers /\ Alone
  BY TypesAre DEF IInv
<1>2. d \in Devices /\ row[d] \in Row /\ row[d].state = "live" /\ row[d].v4 # 0 /\ row[d].v6 # 0
  BY <1>1 DEF Types, Live
<1>3. PICK f \in Families : a = Address(row[d], f)
  BY AddressesAre DEF InRow
<1>4. a \in Addresses
  <2>1. Number(row[d], f) # 0
    BY <1>2 DEF Number
  <2> QED
    BY <1>2, <1>3, <2>1, AddressIs
<1>5. CASE \A r \in Requests : req[r].dev # d
  <2>1. InRow(row[d], a)
    BY <1>2, <1>3 DEF InRow
  <2> QED
    BY <1>4, <1>5, <2>1 DEF Holds
<1>6. ASSUME NEW r \in Requests, req[r].dev = d
      PROVE  Holds(d, a)
  <2>1. req[r] # Idle
    BY <1>2, <1>6, HandlerIs
  <2>2. Runs(req[r]) /\ Reads(req[r], row[d]) /\ NamespaceOf[req[r].new.vpc] = NamespaceOf[row[d].vpc]
    BY <1>1, <1>6, <2>1 DEF Handlers, Alone, BeingMoved
  <2>3. req[r] \in Handler
    BY <2>2 DEF Runs
  <2>4. CASE req[r].op = "delete"
    <3>1. Gives(req[r].calls, a)
      BY <1>2, <1>3, <2>2, <2>3, <2>4 DEF Reads, Handler
    <3> QED
      BY <1>6, <3>1 DEF Holds, Has
  <2>5. CASE req[r].op = "update"
    <3>1. /\ req[r].new.v4 = row[d].v4 /\ req[r].new.v6 = row[d].v6
          /\ ~ Takes(req[r].calls, f)
      BY <2>2, <2>5 DEF Reads
    <3>2. a = Address(req[r].new, f)
      BY <1>3, <2>2, <3>1 DEF Address, Number
    <3> QED
      BY <1>6, <2>5, <3>1, <3>2 DEF Holds, Has
  <2>6. req[r].op # "create"
    BY <1>2, <2>2 DEF Reads
  <2> QED
    BY <2>3, <2>4, <2>5, <2>6 DEF Handler
<1> QED
  BY <1>4, <1>5, <1>6

\* A live device holds the leases of its addresses, while no requests raced and no move
\* was abandoned.
THEOREM LiveHolding == Spec => []LiveHoldsItsAddresses
<1>1. IInv => LiveHoldsItsAddresses
  <2> SUFFICES ASSUME IInv, ~ raced, ~ undone, NEW d \in Live, ~ BeingMoved(d), NEW a \in AddressesOf(d)
               PROVE  lease[a] = d
    BY DEF LiveHoldsItsAddresses
  <2>1. a \in Addresses /\ Holds(d, a) /\ d \in Devices
    BY LiveHolds DEF Live
  <2> QED
    BY <2>1 DEF IInv, Ledger
<1> QED
  BY <1>1, Invariance, PTL

\* Once every request has succeeded, exactly the live devices' addresses are leased.
THEOREM NoLeak == Spec => []NoLeakWhenAllSucceed
<1>1. IInv => NoLeakWhenAllSucceed
  <2> SUFFICES ASSUME IInv, clean, Quiet, NEW a \in Addresses, NEW d \in Devices
               PROVE  lease[a] = d <=> d \in Live /\ a \in AddressesOf(d)
    BY DEF NoLeakWhenAllSucceed
  <2>1. lease[a] = d <=> Holds(d, a)
    BY DEF IInv, Ledger
  <2>2. Holds(d, a) <=> InRow(row[d], a)
    <3>1. \A r \in Requests : req[r].dev # d
      BY IdleIs, ConstantsAssumption DEF Quiet
    <3> QED
      BY <3>1 DEF Holds
  <2>3. InRow(row[d], a) <=> d \in Live /\ a \in AddressesOf(d)
    BY AddressesAre DEF InRow, Live
  <2> QED
    BY <2>1, <2>2, <2>3
<1> QED
  BY <1>1, Invariance, PTL
\* What ReleasesOwnOnly says of a step.
PassesThroughPool ==
  ~ raced' /\ ~ undone' =>
    \A a \in Addresses : lease'[a] # lease[a] =>
      \E r \in Requests : req[r].dev \in {lease[a], lease'[a]} /\ req'[r] # req[r]
                          /\ Nothing \in {lease[a], lease'[a]}

\* A handler that goes on, or gives up, is not what it was.
LEMMA HandlerMoves ==
  ASSUME IInv, NEW r \in Requests, req[r].at = "ipam", req[r].calls # <<>>,
         (\E n : Called(r, n)) \/ Abort(r)
  PROVE  req'[r] # req[r]
<1>1. /\ req[r] # Idle /\ req[r] \in Handler /\ req[r].calls \in Seq(Call)
      /\ req \in [Requests -> Handler \cup {Idle}]
  BY Serving DEF IInv, Handlers
<1>2. CASE Abort(r)
  BY <1>1, <1>2 DEF Abort
<1>3. ASSUME NEW n, Called(r, n)
      PROVE  req'[r] # req[r]
  <2>1. req'[r] = [req[r] EXCEPT !.calls = Tail(@), !.new = n]
    BY <1>1, <1>3 DEF Called
  <2>2. req'[r].calls = Tail(req[r].calls)
    BY <1>1, <2>1 DEF Handler
  <2>3. Len(Tail(req[r].calls)) # Len(req[r].calls)
    BY <1>1, HeadTailProperties, LenProperties
  <2> QED
    BY <2>2, <2>3
<1> QED
  BY <1>2, <1>3

\* A lease is taken from the pool.
LEMMA AcquirePasses == ASSUME IInv, NEW r \in Requests, AcquireIP(r) PROVE PassesThroughPool
<1> DEFINE call == Head(req[r].calls)
           free == {ip \in 1 .. PoolSize : lease[<<call.ns, call.fam, ip>>] = Nothing}
<1>1. req[r].at = "ipam" /\ req[r].calls # <<>>
  BY DEF AcquireIP, Calling
<1>2. lease \in [Addresses -> Devices \cup {Nothing}] /\ req[r].dev \in Devices
  BY <1>1, Serving DEF Types
<1>3. CASE UNCHANGED lease
  BY <1>3 DEF PassesThroughPool
<1>4. ASSUME NEW ip \in free, lease' = [lease EXCEPT ![<<call.ns, call.fam, ip>>] = req[r].dev],
             (\E n : Called(r, n)) \/ Abort(r)
      PROVE  PassesThroughPool
  <2>1. req'[r] # req[r]
    BY <1>1, <1>4, HandlerMoves
  <2>2. ASSUME NEW a \in Addresses, lease'[a] # lease[a]
        PROVE  lease[a] = Nothing /\ lease'[a] = req[r].dev
    BY <1>2, <1>4, <2>2
  <2> QED
    BY <2>1, <2>2 DEF PassesThroughPool
<1> QED
  BY <1>3, <1>4 DEF AcquireIP, Cut

\* A lease is given back by the request on the device that has it.
LEMMA ReleasePasses == ASSUME IInv, NEW r \in Requests, ReleaseIP(r) PROVE PassesThroughPool
<1> DEFINE call == Head(req[r].calls)
           address == <<call.ns, call.fam, call.ip>>
<1>1. req[r].at = "ipam" /\ req[r].calls # <<>> /\ call.do = "release" /\ raced' = raced
  BY DEF ReleaseIP, Calling
<1>2. /\ Types /\ req[r].dev \in Devices /\ req[r].calls \in Seq(Call) /\ Runs(req[r])
      /\ ~ raced => \A a : Holds(req[r].dev, a) <=> Has(req[r], a)
  BY <1>1, Serving
<1>3. CASE UNCHANGED lease
  BY <1>3 DEF PassesThroughPool
<1>4. ASSUME lease' = [lease EXCEPT ![address] = Nothing], (\E n : Called(r, n)) \/ Abort(r),
             undone => undone'
      PROVE  PassesThroughPool
  <2>1. req'[r] # req[r]
    BY <1>1, <1>4, HandlerMoves
  <2>2. address \in Addresses /\ Gives(req[r].calls, address)
    <3>1. call \in Call /\ Gives(req[r].calls, address)
      BY <1>1, <1>2, Popped DEF Runs
    <3> QED
      BY <3>1, <1>1 DEF Call, Addresses
  <2>3. ~ raced' /\ ~ undone' => lease[address] = req[r].dev
    <3>1. Has(req[r], address)
      BY <2>2 DEF Has
    <3>2. ~ raced /\ ~ undone => \A d \in Devices, a \in Addresses : Holds(d, a) => lease[a] = d
      BY DEF IInv, Ledger
    <3> QED
      BY <1>1, <1>2, <1>4, <2>2, <3>1, <3>2
  <2>4. lease'[address] = Nothing /\ \A a \in Addresses : a # address => lease'[a] = lease[a]
    BY <1>2, <1>4, <2>2 DEF Types
  <2> QED
    BY <2>1, <2>3, <2>4 DEF PassesThroughPool
<1>5. ASSUME Cut(r) PROVE Abort(r) /\ (undone => undone')
  BY <1>5 DEF Cut, Abort
<1> QED
  BY <1>3, <1>4, <1>5 DEF ReleaseIP

\* No other step changes a lease: it passes through the pool, and a release frees the
\* lease of the device the request is on, while no requests raced and no move was undone.
THEOREM OwnReleases == Spec => ReleasesOwnOnly
<1>1. IInv /\ [Next]_vars => PassesThroughPool \/ UNCHANGED vars
  <2> SUFFICES ASSUME IInv, Next PROVE PassesThroughPool
    OBVIOUS
  <2>1. ASSUME UNCHANGED lease PROVE PassesThroughPool
    BY <2>1 DEF PassesThroughPool
  <2>2. ASSUME NEW r \in Requests, Arrive(r) PROVE PassesThroughPool
    BY <2>1, <2>2 DEF Arrive, CreateDevice, UpdateDevice, DeleteDevice, Begin
  <2>3. ASSUME NEW r \in Requests, Serve(r) PROVE PassesThroughPool
    <3>1. MarkDeleted(r) \/ AssignCIDR(r) \/ ReleaseCIDR(r) \/ Finish(r) => UNCHANGED lease
      BY DEF MarkDeleted, AssignCIDR, ReleaseCIDR, Finish
    <3> QED
      BY <2>1, <2>3, <3>1, AcquirePasses, ReleasePasses DEF Serve
  <2> QED
    BY <2>2, <2>3 DEF Next
<1>2. (PassesThroughPool \/ UNCHANGED vars) =>
        [~ raced' /\ ~ undone' =>
           \A a \in Addresses : lease'[a] # lease[a] =>
             \E r \in Requests : req[r].dev \in {lease[a], lease'[a]} /\ req'[r] # req[r]
                                 /\ Nothing \in {lease[a], lease'[a]}]_vars
  BY DEF PassesThroughPool
<1> QED
  BY <1>1, <1>2, Invariance, PTL DEF Spec, ReleasesOwnOnly
==============================================================================
