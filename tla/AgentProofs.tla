------------------------------ MODULE AgentProofs ------------------------------
(***************************************************************************)
(* The two parts of the agent.  For any informers, rows and failures: an    *)
(* informer has the first rows of its table and no others, and what is on   *)
(* the wire are the next ones.  For any peers, devices and failures: the    *)
(* agent's record of its WireGuard interface is true, loopback addresses    *)
(* are not shared, and a peer with handshakes keeps its tunnel.             *)
(***************************************************************************)
EXTENDS Informer, Peering, SequenceTheorems, FiniteSetTheorems, WellFoundedInduction, TLAPS

-----------------------------------------------------------------------------
(* The informers.                                                           *)

\* What travels on the wire; the last three kinds of event end a stream.
Ends == {"error", "reset", "failure"}
Event == [type : {"change", "tail"} \cup Ends, kind : Kinds \cup {{}}, rev : Nat]
IsChange(w, i, k) == w[i].type = "change" /\ w[i].kind = k

\* The changes of kind k on wire w follow revision gt without a hole, up to top.
InLine(w, k, gt) ==
  /\ \A i \in 1 .. Len(w) : IsChange(w, i, k) =>
       w[i].rev > gt /\ \A m \in gt + 1 .. w[i].rev - 1 : \E j \in 1 .. i - 1 : IsChange(w, j, k) /\ w[j].rev = m
  /\ \A i, j \in 1 .. Len(w) : i < j /\ IsChange(w, i, k) /\ IsChange(w, j, k) => w[i].rev < w[j].rev
UpTo(w, k, top) == \A i \in 1 .. Len(w) : IsChange(w, i, k) => w[i].rev <= top
Carries(w, k, gt, top) == \A m \in gt + 1 .. top : \E i \in 1 .. Len(w) : IsChange(w, i, k) /\ w[i].rev = m

\* The variables' types.
InformerState == [err : BOOLEAN, closed : BOOLEAN, gt : Nat, tail : BOOLEAN, data : SUBSET Nat]
Types ==
  /\ written \in [Kinds -> 0 .. MaxRows]
  /\ server \in [up : BOOLEAN, gt : [Kinds -> Nat], tail : [Kinds -> BOOLEAN]]
  /\ stream \in BOOLEAN
  /\ run \in [at : {"off", "receive", "handle", "end", "endToRestart"}, todo : SUBSET Kinds]
  /\ restarting \in Nat /\ resets \in 0 .. MaxResets /\ failures \in Nat
  /\ inf \in [Kinds -> InformerState]
  /\ changed \subseteq Kinds /\ crashed \in BOOLEAN
  /\ main \in [at : {"idle", "start", "wait", "return"}, kind : SUBSET Kinds, tailed : BOOLEAN]
  /\ got \in [Kinds -> {"nothing", "error", "list", "partial"}]

\* The server serves the stream that is received, and ends it with its last event; each
\* restart has had a reset of its own.
Stream ==
  /\ wire \in Seq(Event)
  /\ \A i \in 1 .. Len(wire) : wire[i].type \notin Ends => wire[i].kind \in Kinds
  /\ \A i \in 1 .. Len(wire) : wire[i].type \in Ends => i = Len(wire) /\ ~ server.up
  /\ Len(wire) <= MaxWire + 1 /\ (server.up => Len(wire) <= MaxWire)
  /\ stream <=> run.at # "off"
  /\ run.at # "receive" => wire = <<>> /\ ~ server.up
  /\ restarting <= resets
  /\ run.at = "endToRestart" => restarting < resets
  /\ \A i \in 1 .. Len(wire) : wire[i].type = "reset" => restarting < resets

\* An informer has the first rows of its table, the wire the next ones, up to the
\* server's cursor.
Rows ==
  \A k \in Kinds :
    /\ inf[k].data = 1 .. inf[k].gt /\ inf[k].gt <= written[k]
    /\ InLine(wire, k, inf[k].gt) /\ UpTo(wire, k, written[k])
    /\ server.up => /\ inf[k].gt <= server.gt[k] /\ server.gt[k] <= written[k]
                    /\ UpTo(wire, k, server.gt[k]) /\ Carries(wire, k, inf[k].gt, server.gt[k])

\* The loop executes one informer at a time.
Loop == /\ main.at # "idle" => \E k \in Kinds : main.kind = {k}
        /\ main.tailed => \A k \in main.kind : inf[k].tail

\* Without failures no informer is told of one, and no Execute ends before the tail.
Calm ==
  failures = 0 =>
    /\ ~ crashed /\ run.at # "handle" /\ \A i \in 1 .. Len(wire) : wire[i].type # "failure"
    /\ \A k \in Kinds : ~ inf[k].err /\ inf[k].closed = inf[k].tail /\ got[k] \in {"nothing", "list"}
    /\ main.at = "return" => \A k \in main.kind : inf[k].tail

\* The inductive invariant.
IInv == Types /\ Stream /\ Rows /\ Loop /\ Calm

-----------------------------------------------------------------------------
\* The sequence without its first member, with one more, or cut and ended.
LEMMA RestIs ==
  ASSUME NEW S, NEW s \in Seq(S), s # <<>>
  PROVE  /\ SubSeq(s, 2, Len(s)) \in Seq(S) /\ Len(SubSeq(s, 2, Len(s))) = Len(s) - 1
         /\ \A i \in 1 .. Len(s) - 1 : SubSeq(s, 2, Len(s))[i] = s[i + 1]
         /\ Head(s) = s[1] /\ 1 \in 1 .. Len(s) /\ Len(s) \in Nat /\ s[1] \in S
<1>1. Len(s) \in Nat /\ Len(s) # 0
  BY EmptySeq, LenProperties
<1>2. /\ SubSeq(s, 2, Len(s)) \in Seq(S)
      /\ Len(SubSeq(s, 2, Len(s))) = IF 2 <= Len(s) THEN Len(s) - 2 + 1 ELSE 0
      /\ \A i \in 1 .. Len(s) - 2 + 1 : SubSeq(s, 2, Len(s))[i] = s[2 + i - 1]
  <2>1. \A i \in 2 .. Len(s) : i \in 1 .. Len(s)
    BY <1>1
  <2>2. \A i \in 2 .. Len(s) : s[i] \in S
    BY <2>1, ElementOfSeq
  <2>3. \A i \in 2 .. Len(s) : i \in 1 .. Len(s)
    BY <1>1
  <2> QED
    BY <1>1, <2>3, SubSeqProperties
<1>3. \A i \in 1 .. Len(s) - 1 : i \in 1 .. Len(s) - 2 + 1 /\ 2 + i - 1 = i + 1
  BY <1>1
<1>4. Head(s) = s[1] /\ s[1] \in S /\ 1 \in 1 .. Len(s)
  BY <1>1, ElementOfSeq
<1>5. Len(SubSeq(s, 2, Len(s))) = Len(s) - 1
  <2> DEFINE n == Len(SubSeq(s, 2, Len(s)))
             l == Len(s)
  <2>1. l \in Nat /\ l # 0 /\ n = IF 2 <= l THEN l - 2 + 1 ELSE 0
    BY <1>1, <1>2
  <2> HIDE DEF n, l
  <2>2. n = l - 1
    BY <2>1
  <2> QED
    BY <2>2 DEF n, l
<1>6. \A i \in 1 .. Len(s) - 1 : SubSeq(s, 2, Len(s))[i] = s[i + 1]
  <2> DEFINE t == SubSeq(s, 2, Len(s))
  <2>1. \A i \in 1 .. Len(s) - 2 + 1 : t[i] = s[2 + i - 1]
    BY <1>2
  <2> HIDE DEF t
  <2>2. \A i \in 1 .. Len(s) - 1 : t[i] = s[i + 1]
    BY <1>1, <1>3, <2>1
  <2> QED
    BY <2>2 DEF t
<1> QED
  BY <1>1, <1>2, <1>4, <1>5, <1>6

\* The sequence with one more member at its end.
LEMMA AddedIs ==
  ASSUME NEW S, NEW s \in Seq(S), NEW e \in S
  PROVE  /\ Append(s, e) \in Seq(S) /\ Len(Append(s, e)) = Len(s) + 1 /\ Len(s) \in Nat
         /\ \A i \in 1 .. Len(s) : Append(s, e)[i] = s[i]
         /\ Append(s, e)[Len(s) + 1] = e
BY AppendProperties, LenProperties

\* The sequence cut after k members, with one more in place of the rest.
LEMMA CutIs ==
  ASSUME NEW S, NEW s \in Seq(S), NEW e \in S, NEW n \in 0 .. Len(s)
  PROVE  /\ Append(SubSeq(s, 1, n), e) \in Seq(S) /\ Len(Append(SubSeq(s, 1, n), e)) = n + 1
         /\ \A i \in 1 .. n : Append(SubSeq(s, 1, n), e)[i] = s[i]
         /\ Append(SubSeq(s, 1, n), e)[n + 1] = e
<1>1. Len(s) \in Nat
  BY LenProperties
<1>2. /\ SubSeq(s, 1, n) \in Seq(S) /\ Len(SubSeq(s, 1, n)) = n
      /\ \A i \in 1 .. n : SubSeq(s, 1, n)[i] = s[i]
  <2>1. \A i \in 1 .. n : i \in 1 .. Len(s)
    BY <1>1
  <2>2. /\ SubSeq(s, 1, n) \in Seq(S) /\ Len(SubSeq(s, 1, n)) = IF 1 <= n THEN n - 1 + 1 ELSE 0
        /\ \A i \in 1 .. n - 1 + 1 : SubSeq(s, 1, n)[i] = s[1 + i - 1]
    BY <1>1, <2>1, SubSeqProperties
  <2> QED
    BY <1>1, <2>2
<1> DEFINE t == SubSeq(s, 1, n)
<1> HIDE DEF t
<1>3. /\ Append(t, e) \in Seq(S) /\ Len(Append(t, e)) = Len(t) + 1
      /\ \A i \in 1 .. Len(t) : Append(t, e)[i] = t[i]
      /\ Append(t, e)[Len(t) + 1] = e
  BY <1>2, AddedIs DEF t
<1> QED
  BY <1>2, <1>3 DEF t

\* What the receiver takes is the row after the last it has.
LEMMA Taken ==
  ASSUME NEW w \in Seq(Event), w # <<>>, NEW k, NEW gt \in Nat, NEW top \in Nat, InLine(w, k, gt),
         NEW t, t = SubSeq(w, 2, Len(w))
  PROVE  /\ IsChange(w, 1, k) => w[1].rev = gt + 1 /\ InLine(t, k, gt + 1)
         /\ ~ IsChange(w, 1, k) => InLine(t, k, gt)
         /\ Carries(w, k, gt, top) /\ IsChange(w, 1, k) => Carries(t, k, gt + 1, top)
         /\ Carries(w, k, gt, top) /\ ~ IsChange(w, 1, k) => Carries(t, k, gt, top)
<1>1. /\ t \in Seq(Event) /\ Len(t) = Len(w) - 1 /\ Len(w) \in Nat /\ 1 \in 1 .. Len(w)
      /\ \A i \in 1 .. Len(w) - 1 : t[i] = w[i + 1]
  BY RestIs
<1>2. \A i \in 1 .. Len(w) : w[i].rev \in Nat
  <2>1. \A i \in 1 .. Len(w) : w[i] \in Event
    BY ElementOfSeq
  <2> QED
    BY <2>1 DEF Event
<1>3. /\ \A i \in 1 .. Len(t) : i + 1 \in 1 .. Len(w) /\ IsChange(t, i, k) = IsChange(w, i + 1, k) /\ t[i].rev = w[i + 1].rev
      /\ \A i \in 1 .. Len(w) : i = 1 \/ i - 1 \in 1 .. Len(t)
  BY <1>1 DEF IsChange
<1>4. ASSUME IsChange(w, 1, k) PROVE w[1].rev = gt + 1
  <2>1. w[1].rev > gt /\ \A m \in gt + 1 .. w[1].rev - 1 : FALSE
    BY <1>1, <1>4 DEF InLine
  <2> QED
    BY SMTT(30), <1>1, <1>2, <2>1
<1>5. ASSUME NEW from \in Nat, IF IsChange(w, 1, k) THEN from = gt + 1 ELSE from = gt
      PROVE  InLine(t, k, from)
  <2>1. ASSUME NEW i \in 1 .. Len(t), IsChange(t, i, k)
        PROVE  t[i].rev > from /\ \A m \in from + 1 .. t[i].rev - 1 : \E j \in 1 .. i - 1 : IsChange(t, j, k) /\ t[j].rev = m
    <3>1. i + 1 \in 1 .. Len(w) /\ IsChange(w, i + 1, k) /\ t[i].rev = w[i + 1].rev /\ 1 < i + 1
      BY <1>1, <1>3, <2>1
    <3>2. t[i].rev > from
      <4>1. w[i + 1].rev > gt /\ (IsChange(w, 1, k) => w[1].rev < w[i + 1].rev)
        BY <1>1, <3>1 DEF InLine
      <4>2. w[i + 1].rev \in Nat /\ w[1].rev \in Nat
        BY <1>1, <1>2, <3>1
      <4>3. CASE IsChange(w, 1, k)
        BY <1>4, <1>5, <3>1, <4>1, <4>2, <4>3
      <4>4. CASE ~ IsChange(w, 1, k)
        BY <1>5, <3>1, <4>1, <4>4
      <4> QED
        BY <4>3, <4>4
    <3>3. ASSUME NEW m \in from + 1 .. t[i].rev - 1
          PROVE  \E j \in 1 .. i - 1 : IsChange(t, j, k) /\ t[j].rev = m
      <4>0. w[i + 1].rev \in Nat /\ m \in Nat /\ from < m
        BY <1>2, <3>1
      <4>1. m \in gt + 1 .. w[i + 1].rev - 1
        BY <1>5, <3>1, <4>0
      <4>2. PICK j \in 1 .. (i + 1) - 1 : IsChange(w, j, k) /\ w[j].rev = m
        BY <3>1, <4>1 DEF InLine
      <4>3. j # 1
        <5>1. CASE IsChange(w, 1, k)
          BY <1>4, <1>5, <4>0, <4>2, <5>1
        <5>2. CASE ~ IsChange(w, 1, k)
          BY <4>2, <5>2
        <5> QED
          BY <5>1, <5>2
      <4>4. j - 1 \in 1 .. i - 1 /\ j - 1 \in 1 .. Len(t) /\ (j - 1) + 1 = j
        BY <1>1, <4>2, <4>3
      <4> QED
        BY <1>3, <4>2, <4>4
    <3> QED
      BY <3>2, <3>3
  <2>2. ASSUME NEW i \in 1 .. Len(t), NEW j \in 1 .. Len(t), i < j, IsChange(t, i, k), IsChange(t, j, k)
        PROVE  t[i].rev < t[j].rev
    <3>1. i + 1 < j + 1
      BY <2>2
    <3> QED
      BY <1>3, <2>2, <3>1 DEF InLine
  <2> QED
    BY <2>1, <2>2 DEF InLine
<1>7. ASSUME Carries(w, k, gt, top), NEW from \in Nat,
             IF IsChange(w, 1, k) THEN from = gt + 1 ELSE from = gt
      PROVE  Carries(t, k, from, top)
  <2> SUFFICES ASSUME NEW m \in from + 1 .. top
               PROVE  \E i \in 1 .. Len(t) : IsChange(t, i, k) /\ t[i].rev = m
    BY DEF Carries
  <2>1. m \in gt + 1 .. top
    BY <1>7
  <2>2. PICK i \in 1 .. Len(w) : IsChange(w, i, k) /\ w[i].rev = m
    BY <1>7, <2>1 DEF Carries
  <2>3. i # 1
    BY <1>4, <1>7, <2>2
  <2>4. i - 1 \in 1 .. Len(t) /\ (i - 1) + 1 = i
    BY <1>1, <2>2, <2>3
  <2> QED
    BY <1>3, <2>2, <2>4
<1>8. IsChange(w, 1, k) \in BOOLEAN
  BY DEF IsChange
<1> QED
  <2>1. CASE IsChange(w, 1, k)
    BY <1>4, <1>5, <1>7, <2>1
  <2>2. CASE ~ IsChange(w, 1, k)
    BY <1>5, <1>7, <2>2
  <2> QED
    BY <2>1, <2>2

\* What is left reaches no further than before.
LEMMA TakenUpTo ==
  ASSUME NEW w \in Seq(Event), w # <<>>, NEW k, NEW top \in Nat, UpTo(w, k, top)
  PROVE  UpTo(SubSeq(w, 2, Len(w)), k, top)
<1> DEFINE t == SubSeq(w, 2, Len(w))
<1>1. \A i \in 1 .. Len(t) : i + 1 \in 1 .. Len(w) /\ t[i] = w[i + 1]
  <2>1. Len(t) = Len(w) - 1 /\ Len(w) \in Nat /\ \A i \in 1 .. Len(w) - 1 : t[i] = w[i + 1]
    BY RestIs
  <2> HIDE DEF t
  <2> QED
    BY <2>1
<1> HIDE DEF t
<1>2. UpTo(t, k, top)
  BY <1>1 DEF UpTo, IsChange
<1> QED
  BY <1>2 DEF t

\* What the server sends is the row after the last on the wire.
LEMMA Sent ==
  ASSUME NEW w \in Seq(Event), NEW e \in Event, NEW k, NEW gt \in Nat, NEW top \in Nat, NEW next \in Nat,
         InLine(w, k, gt), UpTo(w, k, top), Carries(w, k, gt, top), gt <= top,
         IF e.type = "change" /\ e.kind = k THEN e.rev = top + 1 /\ next = top + 1 ELSE next = top
  PROVE  InLine(Append(w, e), k, gt) /\ UpTo(Append(w, e), k, next) /\ Carries(Append(w, e), k, gt, next)
<1> SUFFICES ASSUME NEW t, t = Append(w, e)
             PROVE  InLine(t, k, gt) /\ UpTo(t, k, next) /\ Carries(t, k, gt, next)
  OBVIOUS
<1>1. /\ t \in Seq(Event) /\ Len(t) = Len(w) + 1 /\ Len(w) \in Nat
      /\ \A i \in 1 .. Len(w) : t[i] = w[i]
      /\ t[Len(w) + 1] = e
  BY AddedIs
<1>2. \A i \in 1 .. Len(w) : w[i].rev \in Nat
  <2>1. \A i \in 1 .. Len(w) : w[i] \in Event
    BY ElementOfSeq
  <2> QED
    BY <2>1 DEF Event
<1>3. /\ \A i \in 1 .. Len(w) : i \in 1 .. Len(t) /\ IsChange(t, i, k) = IsChange(w, i, k) /\ t[i].rev = w[i].rev
      /\ \A i \in 1 .. Len(t) : i \in 1 .. Len(w) \/ i = Len(w) + 1
      /\ Len(w) + 1 \in 1 .. Len(t)
      /\ IsChange(t, Len(w) + 1, k) = (e.type = "change" /\ e.kind = k)
  BY <1>1 DEF IsChange
<1>4. /\ \A i \in 1 .. Len(w) : IsChange(w, i, k) => w[i].rev <= top
      /\ IsChange(t, Len(w) + 1, k) => e.rev = top + 1 /\ next = top + 1
      /\ ~ IsChange(t, Len(w) + 1, k) => next = top
  <2>1. \A i \in 1 .. Len(w) : IsChange(w, i, k) => w[i].rev <= top
    BY DEF UpTo
  <2>2. CASE e.type = "change" /\ e.kind = k
    BY <1>3, <2>1, <2>2
  <2>3. CASE ~ (e.type = "change" /\ e.kind = k)
    BY <1>3, <2>1, <2>3
  <2> QED
    BY <2>2, <2>3
<1>5. InLine(t, k, gt)
  <2>1. ASSUME NEW i \in 1 .. Len(t), IsChange(t, i, k)
        PROVE  t[i].rev > gt /\ \A m \in gt + 1 .. t[i].rev - 1 : \E j \in 1 .. i - 1 : IsChange(t, j, k) /\ t[j].rev = m
    <3>1. CASE i \in 1 .. Len(w)
      <4>1. /\ w[i].rev > gt
            /\ \A m \in gt + 1 .. w[i].rev - 1 : \E j \in 1 .. i - 1 : IsChange(w, j, k) /\ w[j].rev = m
        BY <1>3, <2>1, <3>1 DEF InLine
      <4>2. \A j \in 1 .. i - 1 : j \in 1 .. Len(w)
        BY <1>1, <3>1
      <4> QED
        BY <1>3, <3>1, <4>1, <4>2
    <3>2. CASE i = Len(w) + 1
      <4>1. t[i].rev = top + 1
        BY <1>1, <1>3, <2>1, <3>2
      <4>2. i - 1 = Len(w)
        BY <1>1, <3>2
      <4>3. \A m \in gt + 1 .. top : \E j \in 1 .. Len(w) : IsChange(t, j, k) /\ t[j].rev = m
        BY <1>3 DEF Carries
      <4>4. t[i].rev > gt /\ t[i].rev - 1 = top
        BY <4>1
      <4> QED
        BY <4>2, <4>3, <4>4
    <3> QED
      BY <1>3, <3>1, <3>2
  <2>2. ASSUME NEW i \in 1 .. Len(t), NEW j \in 1 .. Len(t), i < j, IsChange(t, i, k), IsChange(t, j, k)
        PROVE  t[i].rev < t[j].rev
    <3>1. i \in 1 .. Len(w)
      BY <1>1, <2>2
    <3>2. CASE j \in 1 .. Len(w)
      BY <1>3, <2>2, <3>1, <3>2 DEF InLine
    <3>3. CASE j = Len(w) + 1
      <4>1. t[j].rev = top + 1
        BY <1>1, <1>4, <2>2, <3>3
      <4>2. t[i].rev <= top /\ t[i].rev \in Nat
        BY <1>2, <1>3, <1>4, <2>2, <3>1
      <4> QED
        BY <4>1, <4>2
    <3> QED
      BY <1>3, <3>2, <3>3
  <2> QED
    BY <2>1, <2>2 DEF InLine
<1>6. UpTo(t, k, next)
  <2> SUFFICES ASSUME NEW i \in 1 .. Len(t), IsChange(t, i, k) PROVE t[i].rev <= next
    BY DEF UpTo
  <2>1. CASE i \in 1 .. Len(w)
    <3>1. t[i].rev <= top /\ t[i].rev \in Nat
      BY <1>2, <1>3, <1>4, <2>1
    <3>2. top <= next
      BY <1>4
    <3> QED
      BY <3>1, <3>2
  <2>2. CASE i = Len(w) + 1
    BY <1>1, <1>4, <2>2
  <2> QED
    BY <1>3, <2>1, <2>2
<1>7. Carries(t, k, gt, next)
  <2> SUFFICES ASSUME NEW m \in gt + 1 .. next PROVE \E i \in 1 .. Len(t) : IsChange(t, i, k) /\ t[i].rev = m
    BY DEF Carries
  <2>1. CASE m <= top
    <3>1. PICK i \in 1 .. Len(w) : IsChange(w, i, k) /\ w[i].rev = m
      BY SMTT(30), <2>1 DEF Carries
    <3> QED
      BY <1>3, <3>1
  <2>2. CASE ~ (m <= top)
    <3>1. next = top + 1 /\ m = top + 1 /\ IsChange(t, Len(w) + 1, k)
      BY <1>4, <2>2
    <3> QED
      BY <1>1, <1>3, <1>4, <3>1
  <2> QED
    BY <2>1, <2>2
<1> QED
  BY <1>5, <1>6, <1>7

\* What is left of a wire that is cut is in line.
LEMMA CutInLine ==
  ASSUME NEW w \in Seq(Event), NEW n \in 0 .. Len(w), NEW e \in Event, e.type \in Ends, NEW k, NEW gt \in Nat,
         NEW top \in Nat, InLine(w, k, gt), UpTo(w, k, top)
  PROVE  InLine(Append(SubSeq(w, 1, n), e), k, gt) /\ UpTo(Append(SubSeq(w, 1, n), e), k, top)
<1> SUFFICES ASSUME NEW t, t = Append(SubSeq(w, 1, n), e)
             PROVE  InLine(t, k, gt) /\ UpTo(t, k, top)
  OBVIOUS
<1>1. /\ t \in Seq(Event) /\ Len(t) = n + 1 /\ Len(w) \in Nat
      /\ \A i \in 1 .. n : t[i] = w[i]
      /\ t[n + 1] = e
  BY CutIs, LenProperties
<1>2. /\ \A i \in 1 .. n : i \in 1 .. Len(w) /\ IsChange(t, i, k) = IsChange(w, i, k) /\ t[i].rev = w[i].rev
      /\ \A i \in 1 .. Len(t) : i \in 1 .. n \/ i = n + 1
      /\ ~ IsChange(t, n + 1, k)
  BY <1>1 DEF IsChange, Ends
<1>3. ASSUME NEW i \in 1 .. Len(t), IsChange(t, i, k)
      PROVE  t[i].rev > gt /\ \A m \in gt + 1 .. t[i].rev - 1 : \E j \in 1 .. i - 1 : IsChange(t, j, k) /\ t[j].rev = m
  <2>1. i \in 1 .. n
    BY <1>2, <1>3
  <2>2. /\ w[i].rev > gt
        /\ \A m \in gt + 1 .. w[i].rev - 1 : \E j \in 1 .. i - 1 : IsChange(w, j, k) /\ w[j].rev = m
    BY <1>2, <1>3, <2>1 DEF InLine
  <2>3. \A j \in 1 .. i - 1 : j \in 1 .. n
    BY <2>1
  <2> QED
    BY <1>2, <2>1, <2>2, <2>3
<1>4. InLine(t, k, gt)
  BY SMTT(30), <1>2, <1>3 DEF InLine
<1>5. UpTo(t, k, top)
  BY <1>2 DEF UpTo
<1> QED
  BY <1>4, <1>5

-----------------------------------------------------------------------------
\* An informer's state, and what is left of it once it has been told of an error.
LEMMA Informers ==
  ASSUME Types, NEW k \in Kinds
  PROVE  /\ inf[k] \in InformerState /\ inf[k].gt \in Nat /\ inf[k].tail \in BOOLEAN
         /\ inf[k].closed \in BOOLEAN /\ inf[k].err \in BOOLEAN /\ inf[k].data \subseteq Nat
         /\ setError(inf[k]) \in InformerState /\ setError(inf[k]).gt = inf[k].gt
         /\ setError(inf[k]).data = inf[k].data /\ setError(inf[k]).tail = inf[k].tail
         /\ written[k] \in Nat
<1>1. inf[k] \in InformerState /\ written[k] \in 0 .. MaxRows
  BY DEF Types
<1> DEFINE i == inf[k]
<1> HIDE DEF i
<1>2. i \in InformerState
  BY <1>1 DEF i
<1>3. /\ i.gt \in Nat /\ i.tail \in BOOLEAN /\ i.closed \in BOOLEAN /\ i.err \in BOOLEAN /\ i.data \subseteq Nat
      /\ setError(i) \in InformerState /\ setError(i).gt = i.gt /\ setError(i).data = i.data
      /\ setError(i).tail = i.tail
  BY <1>2 DEF setError, InformerState
<1> QED
  BY <1>1, <1>3 DEF i, InformerAssumption

\* Rows depends on no more of the informers than their rows.
LEMMA RowsKept ==
  ASSUME Rows, UNCHANGED <<written, server, wire>>,
         \A k \in Kinds : inf'[k].gt = inf[k].gt /\ inf'[k].data = inf[k].data
  PROVE  Rows'
BY DEF Rows

\* Execute, up to where the stream is started, and from where it waits.
LEMMA ExecuteInv ==
  ASSUME IInv, (\E k \in Kinds : Execute(k)) \/ ExecuteWait \/ ExecuteReturn
  PROVE  IInv'
<1>0. Types /\ Stream /\ Rows /\ Loop /\ Calm
  BY DEF IInv
<1>1. UNCHANGED <<written, server, wire, stream, run, restarting, crashed, resets, failures>>
  BY DEF Execute, ExecuteWait, ExecuteReturn, client
<1>2. Stream'
  BY <1>0, <1>1 DEF Stream
<1>3. ASSUME NEW k \in Kinds, Execute(k) PROVE IInv'
  <2>1. /\ main' = [at |-> "start", kind |-> {k}, tailed |-> inf[k].tail]
        /\ inf' = IF inf[k].err
                  THEN [inf EXCEPT ![k].err = FALSE, ![k].closed = FALSE] ELSE inf
        /\ changed' \in {changed, changed \ {k}} /\ got' = got
    BY <1>3 DEF Execute
  <2>2. inf \in [Kinds -> InformerState]
    BY <1>0 DEF Types
  <2>3. inf' \in [Kinds -> InformerState]
    BY <2>1, <2>2 DEF InformerState
  <2>4. \A j \in Kinds : inf'[j].gt = inf[j].gt /\ inf'[j].data = inf[j].data /\ inf'[j].tail = inf[j].tail
    BY <2>1, <2>2 DEF InformerState
  <2>5. main' \in [at : {"idle", "start", "wait", "return"}, kind : SUBSET Kinds, tailed : BOOLEAN]
    BY <1>0, <2>1, Informers
  <2>6. Types'
    BY <1>0, <1>1, <2>1, <2>3, <2>5 DEF Types
  <2>7. Rows'
    BY <1>0, <1>1, <2>4, RowsKept
  <2>8. Loop'
    BY <2>1, <2>4 DEF Loop
  <2>9. Calm'
    <3>1. failures = 0 => inf' = inf
      BY <1>0, <2>1 DEF Calm
    <3> QED
      BY <1>0, <1>1, <2>1, <3>1 DEF Calm
  <2> QED
    BY <1>2, <2>6, <2>7, <2>8, <2>9 DEF IInv
<1>4. ASSUME ExecuteWait PROVE IInv'
  <2>1. /\ main.at = "wait" /\ main' = [main EXCEPT !.at = "return"]
        /\ UNCHANGED <<inf, changed, got>>
        /\ \E k \in main.kind : main.tailed \/ inf[k].closed
    BY <1>4 DEF ExecuteWait, client
  <2>2. /\ main'.at = "return" /\ main'.kind = main.kind /\ main'.tailed = main.tailed
        /\ main' \in [at : {"idle", "start", "wait", "return"}, kind : SUBSET Kinds, tailed : BOOLEAN]
    BY <1>0, <2>1 DEF Types
  <2>3. Types' /\ Rows'
    BY <1>0, <1>1, <2>1, <2>2 DEF Types, Rows
  <2>4. PICK k \in Kinds : main.kind = {k}
    BY <1>0, <2>1 DEF Loop
  <2>5. Loop'
    BY <1>0, <2>1, <2>2, <2>4 DEF Loop
  <2>6. failures = 0 => inf[k].tail
    BY <1>0, <2>1, <2>4 DEF Calm, Loop
  <2>7. Calm'
    BY <1>0, <1>1, <2>1, <2>2, <2>4, <2>6 DEF Calm
  <2> QED
    BY <1>2, <2>3, <2>5, <2>7 DEF IInv
<1>5. ASSUME ExecuteReturn PROVE IInv'
  <2>1. PICK k \in main.kind : got' = [got EXCEPT ![k] = Result(inf[k])]
    BY <1>5 DEF ExecuteReturn
  <2>2. main.at = "return" /\ main' = Idle /\ UNCHANGED <<inf, changed>>
    BY <1>5 DEF ExecuteReturn, client
  <2>3. Result(inf[k]) \in {"error", "list", "partial"}
    BY DEF Result
  <2>4. Types'
    BY <1>0, <1>1, <2>1, <2>2, <2>3 DEF Types, Idle
  <2>5. Rows' /\ Loop'
    BY <1>0, <1>1, <2>2 DEF Rows, Loop, Idle
  <2>6. Calm'
    <3> SUFFICES ASSUME failures = 0
                 PROVE  /\ ~ crashed /\ run.at # "handle" /\ \A i \in 1 .. Len(wire) : wire[i].type # "failure"
                        /\ \A j \in Kinds : /\ ~ inf[j].err /\ inf[j].closed = inf[j].tail
                                            /\ got'[j] \in {"nothing", "list"}
                        /\ main'.at = "return" => \A j \in main'.kind : inf[j].tail
      BY <1>1, <2>2 DEF Calm
    <3>1. inf[k].tail /\ ~ inf[k].err
      BY <1>0, <2>2 DEF Calm, Types
    <3>2. Result(inf[k]) = "list"
      BY <3>1 DEF Result
    <3>3. \A j \in Kinds : got'[j] \in {"nothing", "list"}
      BY <1>0, <2>1, <3>2 DEF Calm, Types
    <3> QED
      BY <1>0, <2>2, <3>3 DEF Calm, Idle
  <2> QED
    BY <1>2, <2>4, <2>5, <2>6 DEF IInv
<1> QED
  BY <1>3, <1>4, <1>5

\* A stream is started, whoever asks for it.
LEMMA StartInv ==
  ASSUME IInv, start, UNCHANGED <<written, resets, got>>, restarting' \in Nat, restarting' <= restarting,
         main' \in [at : {"idle", "start", "wait", "return"}, kind : SUBSET Kinds, tailed : BOOLEAN],
         main'.kind = main.kind, main'.tailed = main.tailed,
         main'.at # "idle" => main.at # "idle", main'.at = "return" => main.at = "return"
  PROVE  IInv'
<1>0. Types /\ Stream /\ Rows /\ Loop /\ Calm
  BY DEF IInv
<1>1. resets \in Nat /\ restarting \in Nat /\ MaxWire \in Nat
  BY <1>0, InformerAssumption DEF Types
<1>2. /\ restarting' <= resets
      /\ restarting < resets => restarting' < resets
  BY <1>0, <1>1 DEF Stream
<1>3. CASE stream
  <2>1. UNCHANGED <<server, wire, stream, run, inf, changed, crashed, failures>>
    BY <1>3 DEF start
  <2> QED
    BY <1>0, <1>2, <2>1 DEF IInv, Types, Stream, Rows, Loop, Calm
<1>4. CASE ~ stream /\ Connect
  <2>1. /\ server' = [up |-> TRUE, gt |-> [k \in Kinds |-> inf[k].gt], tail |-> [k \in Kinds |-> inf[k].tail]]
        /\ wire' = <<>> /\ stream' = TRUE /\ run' = [at |-> "receive", todo |-> {}]
        /\ UNCHANGED <<inf, changed, crashed, failures>>
    BY <1>4 DEF Connect
  <2>2. /\ server'.up /\ \A k \in Kinds : server'.gt[k] = inf[k].gt
        /\ server' \in [up : BOOLEAN, gt : [Kinds -> Nat], tail : [Kinds -> BOOLEAN]]
    BY <1>0, <2>1, Informers
  <2>3. Types'
    BY <1>0, <2>1, <2>2 DEF Types
  <2>4. Len(wire') = 0 /\ wire' \in Seq(Event)
    BY <2>1
  <2>5. Stream'
    BY <1>1, <1>2, <2>1, <2>2, <2>4 DEF Stream
  <2>6. Rows'
    <3> SUFFICES ASSUME NEW k \in Kinds
                 PROVE  /\ inf[k].data = 1 .. inf[k].gt /\ inf[k].gt <= written[k]
                        /\ InLine(wire', k, inf[k].gt) /\ UpTo(wire', k, written[k])
                        /\ inf[k].gt <= server'.gt[k] /\ server'.gt[k] <= written[k]
                        /\ UpTo(wire', k, server'.gt[k]) /\ Carries(wire', k, inf[k].gt, server'.gt[k])
      BY <2>1 DEF Rows
    <3>1. inf[k].gt \in Nat /\ written[k] \in Nat
      BY <1>0, Informers
    <3>2. InLine(wire', k, inf[k].gt) /\ UpTo(wire', k, written[k]) /\ UpTo(wire', k, server'.gt[k])
      BY <2>4 DEF InLine, UpTo
    <3>3. Carries(wire', k, inf[k].gt, server'.gt[k])
      BY <2>2, <3>1 DEF Carries
    <3> QED
      BY <1>0, <2>2, <3>1, <3>2, <3>3 DEF Rows
  <2>7. Loop' /\ Calm'
    BY <1>0, <2>1, <2>4 DEF Loop, Calm
  <2> QED
    BY <2>3, <2>5, <2>6, <2>7 DEF IInv
<1>5. CASE ~ stream /\ Refused
  <2>1. /\ failures' = failures + 1 /\ inf' = [k \in Kinds |-> setError(inf[k])]
        /\ changed' = Kinds /\ crashed' = \E k \in Kinds : Panics(inf[k])
        /\ UNCHANGED <<server, wire, stream, run>>
    BY <1>5 DEF Refused, Fault
  <2>2. /\ inf' \in [Kinds -> InformerState]
        /\ \A k \in Kinds : inf'[k].gt = inf[k].gt /\ inf'[k].data = inf[k].data /\ inf'[k].tail = inf[k].tail
    BY <1>0, <2>1, Informers
  <2>3. crashed' \in BOOLEAN /\ failures' \in Nat /\ failures' # 0
    BY <1>0, <2>1 DEF Types
  <2>4. Types'
    BY <1>0, <2>1, <2>2, <2>3 DEF Types
  <2>5. Stream'
    BY <1>0, <1>2, <2>1 DEF Stream
  <2>6. Rows'
    BY <1>0, <2>1, <2>2, RowsKept
  <2>7. Calm'
    BY <2>3 DEF Calm
  <2>8. Loop'
    BY <1>0, <2>2 DEF Loop, Types
  <2> QED
    BY <2>4, <2>5, <2>6, <2>7, <2>8 DEF IInv
<1> QED
  BY <1>3, <1>4, <1>5 DEF start

-----------------------------------------------------------------------------
\* What the receiver does with the first event on the wire.
LEMMA Received ==
  ASSUME IInv, wire # <<>>, wire' = SubSeq(wire, 2, Len(wire)), UNCHANGED <<server, restarting, resets>>,
         run.at = "receive"
  PROVE  /\ wire[1] \in Event /\ Head(wire) = wire[1] /\ wire' \in Seq(Event)
         /\ \A i \in 1 .. Len(wire') : i + 1 \in 1 .. Len(wire) /\ wire'[i] = wire[i + 1]
         /\ wire[1].type \notin Ends => wire[1].kind \in Kinds
         /\ wire[1].type \notin Ends /\ UNCHANGED <<stream, run>> => Stream'
         /\ wire[1].type \in Ends => wire' = <<>> /\ ~ server.up
         /\ wire[1].type = "reset" => restarting < resets
<1>0. Types /\ Stream
  BY DEF IInv
<1>1. wire \in Seq(Event)
  BY <1>0 DEF Stream
<1>2. /\ wire' \in Seq(Event) /\ Len(wire') = Len(wire) - 1 /\ Len(wire) \in Nat
      /\ \A i \in 1 .. Len(wire) - 1 : wire'[i] = wire[i + 1]
      /\ Head(wire) = wire[1] /\ 1 \in 1 .. Len(wire) /\ wire[1] \in Event
  BY <1>1, RestIs
<1>3. \A i \in 1 .. Len(wire') : i + 1 \in 1 .. Len(wire) /\ wire'[i] = wire[i + 1]
  BY <1>2
<1>4. wire[1].type \in Ends => wire' = <<>> /\ ~ server.up
  <2> SUFFICES ASSUME wire[1].type \in Ends PROVE wire' = <<>> /\ ~ server.up
    OBVIOUS
  <2>1. 1 = Len(wire) /\ ~ server.up
    BY <1>0, <1>2 DEF Stream
  <2>2. Len(wire') = 0
    BY <1>2, <2>1
  <2> QED
    BY <1>2, <2>1, <2>2, EmptySeq
<1>5. ASSUME UNCHANGED <<stream, run>> PROVE Stream'
  <2>1. \A i \in 1 .. Len(wire') : wire'[i].type \in Ends => i = Len(wire') /\ ~ server.up
    BY <1>0, <1>2, <1>3 DEF Stream
  <2>2. Len(wire') <= MaxWire + 1 /\ (server.up => Len(wire') <= MaxWire)
    BY <1>0, <1>2, InformerAssumption DEF Stream
  <2> QED
    BY <1>0, <1>2, <1>3, <1>5, <2>1, <2>2 DEF Stream
<1> QED
  BY <1>0, <1>2, <1>3, <1>4, <1>5 DEF Stream

\* A change is the next row of its informer.
LEMMA ChangeInv == ASSUME IInv, HandleChange PROVE IInv'
<1>0. Types /\ Stream /\ Rows /\ Loop /\ Calm
  BY DEF IInv
<1> DEFINE k == wire[1].kind
           rev == wire[1].rev
<1>1. /\ run.at = "receive" /\ wire # <<>> /\ wire' = SubSeq(wire, 2, Len(wire))
      /\ UNCHANGED <<written, server, stream, restarting, main, got, resets, failures, run, crashed>>
      /\ Head(wire).type = "change"
      /\ inf' = [inf EXCEPT ![Head(wire).kind] = Change(@, Head(wire).rev)]
      /\ changed' = IF Head(wire).rev < inf[Head(wire).kind].gt THEN changed
                    ELSE Notify(inf[Head(wire).kind], Head(wire).kind)
  BY DEF HandleChange, Receiving, loop
<1>2. /\ Head(wire) = wire[1] /\ wire[1] \in Event /\ wire[1].type = "change" /\ wire \in Seq(Event)
      /\ k \in Kinds /\ rev \in Nat /\ Stream'
  <2>1. Head(wire) = wire[1] /\ wire[1] \in Event
    BY <1>1, Received
  <2>2. wire[1].type = "change" /\ wire[1].type \notin Ends
    BY <1>1, <2>1 DEF Ends
  <2>3. wire[1].kind \in Kinds /\ Stream'
    BY <1>1, <2>2, Received
  <2> QED
    BY <1>0, <2>1, <2>2, <2>3 DEF Event, Stream
<1>3. IsChange(wire, 1, k) /\ \A j \in Kinds \ {k} : ~ IsChange(wire, 1, j)
  BY <1>2 DEF IsChange
<1>4. inf[k].gt \in Nat /\ \A j \in Kinds : inf[j].gt \in Nat /\ written[j] \in Nat
  BY <1>0, <1>2, Informers
<1>5. rev = inf[k].gt + 1
  BY <1>0, <1>1, <1>2, <1>3, <1>4, Taken DEF Rows
<1> HIDE DEF k, rev
<1>6. inf' = [inf EXCEPT ![k] = [inf[k] EXCEPT !.err = FALSE, !.gt = rev, !.data = @ \cup {rev}]]
  <2>1. inf' = [inf EXCEPT ![k] = Change(inf[k], rev)]
    BY <1>1, <1>2 DEF k, rev
  <2>2. ~ (rev < inf[k].gt)
    BY <1>4, <1>5
  <2> QED
    BY <2>1, <2>2 DEF Change
<1>7. inf \in [Kinds -> InformerState]
  BY <1>0 DEF Types
<1>8. /\ inf' \in [Kinds -> InformerState]
      /\ inf'[k].gt = rev /\ inf'[k].data = inf[k].data \cup {rev} /\ ~ inf'[k].err
      /\ \A j \in Kinds \ {k} : inf'[j] = inf[j]
      /\ \A j \in Kinds : inf'[j].tail = inf[j].tail /\ inf'[j].closed = inf[j].closed
  <2>1. [inf[k] EXCEPT !.err = FALSE, !.gt = rev, !.data = @ \cup {rev}] \in InformerState
    <3>1. PICK i \in InformerState : i = inf[k]
      BY <1>2, <1>7
    <3>2. i.data \cup {rev} \in SUBSET Nat /\ rev \in Nat
      BY <1>2 DEF InformerState
    <3>3. [i EXCEPT !.err = FALSE, !.gt = rev, !.data = @ \cup {rev}] \in InformerState
      BY <3>2 DEF InformerState
    <3> QED BY <3>1, <3>3
  <2> QED
    BY <1>2, <1>6, <1>7, <2>1 DEF InformerState
<1>9. changed' \subseteq Kinds
  BY <1>0, <1>1, <1>2 DEF Types, Notify, k
<1>10. Types'
  BY <1>0, <1>1, <1>8, <1>9 DEF Types
<1>11. Rows'
  <2>1. ASSUME NEW j \in Kinds
        PROVE  /\ inf'[j].data = 1 .. inf'[j].gt /\ inf'[j].gt <= written[j]
               /\ InLine(wire', j, inf'[j].gt) /\ UpTo(wire', j, written[j])
               /\ server.up => /\ inf'[j].gt <= server.gt[j] /\ server.gt[j] <= written[j]
                               /\ UpTo(wire', j, server.gt[j]) /\ Carries(wire', j, inf'[j].gt, server.gt[j])
    <3>1. /\ inf[j].data = 1 .. inf[j].gt /\ inf[j].gt <= written[j]
          /\ InLine(wire, j, inf[j].gt) /\ UpTo(wire, j, written[j])
          /\ server.up => /\ inf[j].gt <= server.gt[j] /\ server.gt[j] <= written[j]
                          /\ UpTo(wire, j, server.gt[j]) /\ Carries(wire, j, inf[j].gt, server.gt[j])
      BY <1>0 DEF Rows
    <3>2. server.gt[j] \in Nat /\ written[j] \in Nat /\ inf[j].gt \in Nat
      BY <1>0, <1>4 DEF Types
    <3>0. /\ wire \in Seq(Event) /\ wire # <<>> /\ wire' = SubSeq(wire, 2, Len(wire))
          /\ inf[j].gt \in Nat /\ InLine(wire, j, inf[j].gt)
      BY <1>1, <1>2, <3>1, <3>2
    <3>t. ASSUME NEW top \in Nat
          PROVE  /\ IsChange(wire, 1, j) => InLine(wire', j, inf[j].gt + 1)
                 /\ ~ IsChange(wire, 1, j) => InLine(wire', j, inf[j].gt)
                 /\ UpTo(wire, j, top) => UpTo(wire', j, top)
                 /\ Carries(wire, j, inf[j].gt, top) /\ IsChange(wire, 1, j) => Carries(wire', j, inf[j].gt + 1, top)
                 /\ Carries(wire, j, inf[j].gt, top) /\ ~ IsChange(wire, 1, j) => Carries(wire', j, inf[j].gt, top)
      <4>1. IsChange(wire, 1, j) => InLine(wire', j, inf[j].gt + 1)
        BY <3>0, Taken
      <4>2. ~ IsChange(wire, 1, j) => InLine(wire', j, inf[j].gt)
        BY <3>0, Taken
      <4>3. UpTo(wire, j, top) => UpTo(wire', j, top)
        BY <3>0, TakenUpTo
      <4>4. Carries(wire, j, inf[j].gt, top) /\ IsChange(wire, 1, j) => Carries(wire', j, inf[j].gt + 1, top)
        BY <3>0, Taken
      <4>5. Carries(wire, j, inf[j].gt, top) /\ ~ IsChange(wire, 1, j) => Carries(wire', j, inf[j].gt, top)
        BY <3>0, Taken
      <4> QED
        BY <4>1, <4>2, <4>3, <4>4, <4>5
    <3>3. /\ IsChange(wire, 1, j) => InLine(wire', j, inf[j].gt + 1)
          /\ ~ IsChange(wire, 1, j) => InLine(wire', j, inf[j].gt)
          /\ UpTo(wire', j, written[j])
      BY <3>1, <3>2, <3>t
    <3>4. server.up => /\ UpTo(wire', j, server.gt[j])
                       /\ IsChange(wire, 1, j) => Carries(wire', j, inf[j].gt + 1, server.gt[j])
                       /\ ~ IsChange(wire, 1, j) => Carries(wire', j, inf[j].gt, server.gt[j])
      BY <3>1, <3>2, <3>t
    <3>5. CASE j = k
      <4>1. inf'[j].gt = inf[j].gt + 1 /\ IsChange(wire, 1, j) /\ 1 \in 1 .. Len(wire)
        BY <1>1, <1>2, <1>3, <1>5, <1>8, <3>5, RestIs
      <4>2. inf'[j].data = 1 .. inf'[j].gt
        <5>1. inf'[j].data = inf[j].data \cup {rev} /\ inf'[j].gt = rev /\ rev = inf[j].gt + 1
          BY <1>5, <1>8, <3>5
        <5>2. 1 .. inf[j].gt + 1 = (1 .. inf[j].gt) \cup {inf[j].gt + 1}
          BY <3>2
        <5> QED
          BY <3>1, <5>1, <5>2
      <4>3. inf[j].gt + 1 <= written[j] /\ (server.up => inf[j].gt + 1 <= server.gt[j])
        BY <1>5, <3>1, <3>5, <4>1 DEF UpTo, rev
      <4> QED
        BY <3>1, <3>3, <3>4, <4>1, <4>2, <4>3
    <3>6. CASE j # k
      BY <1>3, <1>8, <3>1, <3>3, <3>4, <3>6
    <3> QED
      BY <3>5, <3>6
  <2> QED
    BY <1>1, <2>1 DEF Rows
<1>12. Loop' /\ Calm'
  <2>1. \A i \in 1 .. Len(wire') : i + 1 \in 1 .. Len(wire) /\ wire'[i] = wire[i + 1]
    BY <1>1, Received
  <2>2. Loop'
    BY <1>0, <1>1, <1>8 DEF Loop, Types
  <2>3. Calm'
    BY <1>0, <1>1, <1>8, <2>1 DEF Calm, Types
  <2> QED
    BY <2>2, <2>3
<1> QED
  BY <1>2, <1>10, <1>11, <1>12 DEF IInv

\* The other events carry no row: the wire that is left is in line.
LEMMA RowsReceived ==
  ASSUME IInv, wire # <<>>, wire' = SubSeq(wire, 2, Len(wire)), wire[1].type # "change",
         UNCHANGED <<written, server>>,
         \A k \in Kinds : inf'[k].gt = inf[k].gt /\ inf'[k].data = inf[k].data
  PROVE  Rows'
<1>0. Types /\ Stream /\ Rows
  BY DEF IInv
<1>1. ASSUME NEW j \in Kinds
      PROVE  /\ InLine(wire', j, inf[j].gt) /\ UpTo(wire', j, written[j])
             /\ server.up => UpTo(wire', j, server.gt[j]) /\ Carries(wire', j, inf[j].gt, server.gt[j])
  <2>1. /\ InLine(wire, j, inf[j].gt) /\ UpTo(wire, j, written[j])
        /\ server.up => UpTo(wire, j, server.gt[j]) /\ Carries(wire, j, inf[j].gt, server.gt[j])
    BY <1>0 DEF Rows
  <2>2. server.gt[j] \in Nat /\ written[j] \in Nat /\ inf[j].gt \in Nat /\ wire \in Seq(Event)
    BY <1>0, Informers DEF Types, Stream
  <2>3. ~ IsChange(wire, 1, j)
    BY DEF IsChange
  <2>4. ASSUME NEW top \in Nat
        PROVE  /\ ~ IsChange(wire, 1, j) => InLine(wire', j, inf[j].gt)
               /\ UpTo(wire, j, top) => UpTo(wire', j, top)
               /\ Carries(wire, j, inf[j].gt, top) /\ ~ IsChange(wire, 1, j) => Carries(wire', j, inf[j].gt, top)
    <3>1. wire \in Seq(Event) /\ inf[j].gt \in Nat /\ InLine(wire, j, inf[j].gt)
      BY <2>1, <2>2
    <3>2. ~ IsChange(wire, 1, j) => InLine(wire', j, inf[j].gt)
      BY <3>1, Taken
    <3>3. UpTo(wire, j, top) => UpTo(wire', j, top)
      BY <3>1, TakenUpTo
    <3>4. Carries(wire, j, inf[j].gt, top) /\ ~ IsChange(wire, 1, j) => Carries(wire', j, inf[j].gt, top)
      BY <3>1, Taken
    <3> QED
      BY <3>2, <3>3, <3>4
  <2> QED
    BY <2>1, <2>2, <2>3, <2>4
<1> QED
  BY <1>0, <1>1 DEF Rows

\* The tail, and the events that end the stream.
LEMMA TailInv == ASSUME IInv, HandleTail PROVE IInv'
<1>0. Types /\ Stream /\ Rows /\ Loop /\ Calm
  BY DEF IInv
<1> DEFINE k == wire[1].kind
<1>1. /\ run.at = "receive" /\ wire # <<>> /\ wire' = SubSeq(wire, 2, Len(wire))
      /\ UNCHANGED <<written, server, stream, restarting, main, got, resets, failures, run>>
      /\ Head(wire).type = "tail"
      /\ inf' = [inf EXCEPT ![Head(wire).kind] = IF @.tail THEN @ ELSE Tailed(@)]
      /\ changed' = IF inf[Head(wire).kind].tail THEN changed ELSE changed \cup {Head(wire).kind}
      /\ crashed' = Panics(inf[Head(wire).kind])
  BY DEF HandleTail, Receiving, loop
<1>2. Head(wire) = wire[1] /\ wire[1].type = "tail" /\ k \in Kinds /\ Stream'
  <2>1. Head(wire) = wire[1] /\ wire[1] \in Event
    BY <1>1, Received
  <2>2. wire[1].type = "tail" /\ wire[1].type \notin Ends
    BY <1>1, <2>1 DEF Ends
  <2>3. wire[1].kind \in Kinds /\ Stream'
    BY <1>1, <2>2, Received
  <2> QED
    BY <2>1, <2>2, <2>3
<1>3. /\ inf' = [inf EXCEPT ![k] = IF inf[k].tail THEN inf[k] ELSE Tailed(inf[k])]
      /\ crashed' = Panics(inf[k]) /\ changed' \subseteq Kinds
  BY <1>0, <1>1, <1>2 DEF Types
<1> HIDE DEF k
<1>4. inf \in [Kinds -> InformerState]
  BY <1>0 DEF Types
<1>5. /\ Tailed(inf[k]) \in InformerState /\ Tailed(inf[k]).gt = inf[k].gt /\ Tailed(inf[k]).data = inf[k].data
      /\ Tailed(inf[k]).tail /\ Tailed(inf[k]).closed /\ Tailed(inf[k]).err = inf[k].err
  <2>1. inf[k] \in InformerState
    BY <1>2, <1>4
  <2> QED
    BY <2>1 DEF Tailed, InformerState
<1>6. /\ inf' \in [Kinds -> InformerState]
      /\ \A j \in Kinds : /\ inf'[j].gt = inf[j].gt /\ inf'[j].data = inf[j].data /\ inf'[j].err = inf[j].err
                          /\ inf[j].tail => inf'[j].tail
                          /\ inf'[j] = inf[j] \/ (inf'[j].tail /\ inf'[j].closed)
  BY <1>2, <1>3, <1>4, <1>5
<1>7. crashed' \in BOOLEAN
  BY <1>3 DEF Panics
<1>8. Types'
  BY <1>0, <1>1, <1>3, <1>6, <1>7 DEF Types
<1>9. Rows'
  BY <1>1, <1>2, <1>6, RowsReceived
<1>10. Loop'
  BY <1>0, <1>1, <1>6 DEF Loop, Types
<1>11. Calm'
  <2>1. \A i \in 1 .. Len(wire') : i + 1 \in 1 .. Len(wire) /\ wire'[i] = wire[i + 1]
    BY <1>1, Received
  <2>2. failures = 0 => ~ crashed'
    BY <1>0, <1>2, <1>3, <1>4 DEF Calm, Panics, InformerState
  <2>3. failures = 0 => \A j \in Kinds : ~ inf'[j].err /\ inf'[j].closed = inf'[j].tail
    <3> SUFFICES ASSUME failures = 0, NEW j \in Kinds PROVE ~ inf'[j].err /\ inf'[j].closed = inf'[j].tail
      OBVIOUS
    <3>1. inf'[j] \in InformerState /\ ~ inf[j].err /\ inf[j].closed = inf[j].tail
      BY <1>0, <1>6 DEF Calm
    <3>2. CASE inf'[j] = inf[j]
      BY <3>1, <3>2
    <3>3. CASE inf'[j].tail /\ inf'[j].closed
      <4>1. inf'[j].tail \in BOOLEAN /\ inf'[j].closed \in BOOLEAN
        BY <3>1 DEF InformerState
      <4> QED
        BY <1>6, <3>1, <3>3, <4>1
    <3> QED
      BY <1>6, <3>2, <3>3
  <2>4. ASSUME failures = 0
        PROVE  /\ ~ crashed' /\ run'.at # "handle"
               /\ \A i \in 1 .. Len(wire') : wire'[i].type # "failure"
    BY <1>0, <1>1, <2>1, <2>2, <2>4 DEF Calm
  <2>5. ASSUME failures = 0
        PROVE  /\ \A j \in Kinds : got'[j] \in {"nothing", "list"}
               /\ main'.at = "return" => \A j \in main'.kind : inf'[j].tail
    <3>1. \A j \in Kinds : got[j] \in {"nothing", "list"} /\ (inf[j].tail => inf'[j].tail)
      BY <1>0, <1>6, <2>5 DEF Calm
    <3>2. main.kind \subseteq Kinds
      BY <1>0 DEF Types
    <3>3. main.at = "return" => \A j \in main.kind : inf[j].tail
      BY <1>0, <2>5 DEF Calm
    <3> QED
      BY <1>1, <3>1, <3>2, <3>3
  <2> QED
    BY <1>1, <2>3, <2>4, <2>5 DEF Calm
<1> QED
  BY <1>2, <1>8, <1>9, <1>10, <1>11 DEF IInv

\* An event that ends the stream: the receiver is at its end, the wire is empty.
LEMMA EndingInv ==
  ASSUME IInv, ReceiveErrorEvent \/ ReceiveReset \/ ReceiveFailure
  PROVE  IInv'
<1>0. Types /\ Stream /\ Rows /\ Loop /\ Calm
  BY DEF IInv
<1>1. /\ run.at = "receive" /\ wire # <<>> /\ wire' = SubSeq(wire, 2, Len(wire))
      /\ UNCHANGED <<written, server, stream, restarting, main, got, resets, failures, inf, changed, crashed>>
      /\ Head(wire).type \in Ends
      /\ \/ run'.at = "end"
         \/ run'.at = "endToRestart" /\ Head(wire).type = "reset"
         \/ run'.at = "handle" /\ Head(wire).type = "failure"
      /\ run' \in [at : {"off", "receive", "handle", "end", "endToRestart"}, todo : SUBSET Kinds]
  BY DEF ReceiveErrorEvent, ReceiveReset, ReceiveFailure, Receiving, loop, Ends
<1>2. /\ Head(wire) = wire[1] /\ wire' = <<>> /\ ~ server.up
      /\ wire[1].type = "reset" => restarting < resets
  <2>1. Head(wire) = wire[1]
    BY <1>1, Received
  <2>2. wire[1].type \in Ends
    BY <1>1, <2>1
  <2> QED
    BY <1>1, <2>1, <2>2, Received
<1>3. wire' \in Seq(Event) /\ Len(wire') = 0 /\ 1 \in 1 .. Len(wire)
  <2>1. wire \in Seq(Event) /\ wire # <<>>
    BY <1>0, <1>1 DEF Stream
  <2>2. 1 \in 1 .. Len(wire)
    BY <2>1, RestIs
  <2>3. wire' \in Seq(Event) /\ Len(wire') = 0
    BY <1>2
  <2> QED
    BY <2>2, <2>3
<1>4. Types'
  BY <1>0, <1>1 DEF Types
<1>5. Stream'
  BY <1>0, <1>1, <1>2, <1>3, InformerAssumption DEF Stream
<1>6. Rows'
  <2>1. wire[1].type # "change"
    BY <1>1, <1>2 DEF Ends
  <2> QED
    BY <1>1, <2>1, RowsReceived
<1>7. Loop'
  BY <1>0, <1>1 DEF Loop
<1>8. Calm'
  <2>1. failures = 0 => run'.at # "handle"
    BY <1>0, <1>1, <1>2, <1>3 DEF Calm
  <2> QED
    BY <1>0, <1>1, <1>3, <2>1 DEF Calm
<1> QED
  BY <1>4, <1>5, <1>6, <1>7, <1>8 DEF IInv

\* An informer is told of a failure: there has been one.
LEMMA FailureInv == ASSUME IInv, NEW k \in Kinds, HandleFailure(k) PROVE IInv'
<1>0. Types /\ Stream /\ Rows /\ Loop /\ Calm
  BY DEF IInv
<1>1. /\ run.at = "handle"
      /\ inf' = [inf EXCEPT ![k] = setError(inf[k])]
      /\ changed' = changed \cup {k}
      /\ crashed' = Panics(inf[k])
      /\ run' = IF run.todo = {k} THEN [at |-> "end", todo |-> {}] ELSE [run EXCEPT !.todo = @ \ {k}]
      /\ UNCHANGED <<written, server, wire, stream, restarting, main, got, resets, failures>>
  BY DEF HandleFailure, loop
<1>2. /\ inf' \in [Kinds -> InformerState]
      /\ \A j \in Kinds : inf'[j].gt = inf[j].gt /\ inf'[j].data = inf[j].data /\ inf'[j].tail = inf[j].tail
  <2>1. inf \in [Kinds -> InformerState]
    BY <1>0 DEF Types
  <2> QED
    BY <1>0, <1>1, <2>1, Informers
<1>3. /\ run' \in [at : {"off", "receive", "handle", "end", "endToRestart"}, todo : SUBSET Kinds]
      /\ run'.at \in {"handle", "end"}
  BY <1>0, <1>1 DEF Types
<1>4. crashed' \in BOOLEAN
  BY <1>1 DEF Panics
<1>5. Types'
  BY <1>0, <1>1, <1>2, <1>3, <1>4 DEF Types
<1>6. Stream'
  BY <1>0, <1>1, <1>3 DEF Stream
<1>7. Rows'
  BY <1>0, <1>1, <1>2, RowsKept
<1>8. Loop'
  BY <1>0, <1>1, <1>2 DEF Loop, Types
<1>9. Calm'
  BY <1>0, <1>1 DEF Calm
<1> QED
  BY <1>5, <1>6, <1>7, <1>8, <1>9 DEF IInv

\* The stream is given up.
LEMMA EndRunInv == ASSUME IInv, EndRun PROVE IInv'
<1>0. Types /\ Stream /\ Rows /\ Loop /\ Calm
  BY DEF IInv
<1>1. /\ run.at \in {"end", "endToRestart"}
      /\ stream' = FALSE /\ run' = Off /\ server' = Down /\ wire' = <<>>
      /\ restarting' = restarting + (IF run.at = "endToRestart" THEN 1 ELSE 0)
      /\ UNCHANGED <<written, inf, changed, crashed, main, got, resets, failures>>
  BY DEF EndRun, loop
<1>2. resets \in Nat /\ restarting \in Nat /\ MaxWire \in Nat
  BY <1>0, InformerAssumption DEF Types
<1>3. restarting' \in Nat /\ restarting' <= resets
  BY <1>0, <1>1, <1>2 DEF Stream
<1>4. /\ Down \in [up : BOOLEAN, gt : [Kinds -> Nat], tail : [Kinds -> BOOLEAN]] /\ ~ Down.up
      /\ Off \in [at : {"off", "receive", "handle", "end", "endToRestart"}, todo : SUBSET Kinds]
      /\ Off.at = "off" /\ Len(<<>>) = 0 /\ <<>> \in Seq(Event)
  BY DEF Down, Off
<1>5. Types'
  BY <1>0, <1>1, <1>3, <1>4 DEF Types
<1>6. Stream'
  BY <1>1, <1>2, <1>3, <1>4 DEF Stream
<1>7. Rows'
  BY <1>0, <1>1, <1>4 DEF Rows, InLine, UpTo
<1>8. Loop' /\ Calm'
  BY <1>0, <1>1, <1>4 DEF Loop, Calm
<1> QED
  BY <1>5, <1>6, <1>7, <1>8 DEF IInv

-----------------------------------------------------------------------------
\* A row is written, and sent; so is the tail; the stream breaks.
LEMMA WriteInv == ASSUME IInv, NEW k \in Kinds, Write(k) PROVE IInv'
<1>0. Types /\ Stream /\ Rows /\ Loop /\ Calm
  BY DEF IInv
<1>1. /\ written[k] < MaxRows /\ written' = [written EXCEPT ![k] = @ + 1]
      /\ UNCHANGED <<server, wire, stream, run, restarting, inf, changed, crashed, main, got, resets, failures>>
  BY DEF Write, loop, client
<1>2. /\ written' \in [Kinds -> 0 .. MaxRows]
      /\ \A j \in Kinds : written[j] <= written'[j] /\ written[j] \in Nat /\ written'[j] \in Nat
  BY <1>0, <1>1, InformerAssumption DEF Types
<1>3. Types' /\ Stream' /\ Loop' /\ Calm'
  BY <1>0, <1>1, <1>2 DEF Types, Stream, Loop, Calm
<1>4. Rows'
  <2> SUFFICES ASSUME NEW j \in Kinds
               PROVE  /\ inf[j].gt <= written'[j] /\ UpTo(wire, j, written'[j])
                      /\ server.up => server.gt[j] <= written'[j]
    BY <1>0, <1>1 DEF Rows
  <2>1. inf[j].gt \in Nat /\ server.gt[j] \in Nat /\ \A i \in 1 .. Len(wire) : wire[i].rev \in Nat
    <3>1. \A i \in 1 .. Len(wire) : wire[i] \in Event
      BY <1>0, ElementOfSeq DEF Stream
    <3> QED
      BY <1>0, <3>1, Informers DEF Types, Event
  <2>2. inf[j].gt <= written[j] /\ UpTo(wire, j, written[j]) /\ (server.up => server.gt[j] <= written[j])
    BY <1>0 DEF Rows
  <2> QED
    BY <1>2, <2>1, <2>2 DEF UpTo
<1> QED
  BY <1>3, <1>4 DEF IInv

\* The server puts e on the wire.
LEMMA SendInv ==
  ASSUME IInv, NEW e \in Event, Sending, wire' = Append(wire, e),
         server' \in [up : BOOLEAN, gt : [Kinds -> Nat], tail : [Kinds -> BOOLEAN]],
         failures' \in Nat, failures' = 0 => failures = 0,
         e.type \in {"change", "tail", "error"}, e.type # "error" => e.kind \in Kinds,
         e.type = "error" <=> ~ server'.up,
         \A k \in Kinds : /\ server'.gt[k] <= written[k]
                          /\ IF e.type = "change" /\ e.kind = k
                             THEN e.rev = server.gt[k] + 1 /\ server'.gt[k] = server.gt[k] + 1
                             ELSE server'.gt[k] = server.gt[k]
  PROVE  IInv'
<1>0. Types /\ Stream /\ Rows /\ Loop /\ Calm
  BY DEF IInv
<1>1. /\ server.up /\ Len(wire) < MaxWire /\ wire \in Seq(Event)
      /\ UNCHANGED <<written, stream, run, restarting, inf, changed, crashed, main, got, resets>>
  BY <1>0 DEF Sending, loop, client, Stream
<1>2. /\ wire' \in Seq(Event) /\ Len(wire') = Len(wire) + 1 /\ Len(wire) \in Nat
      /\ \A i \in 1 .. Len(wire) : wire'[i] = wire[i]
      /\ wire'[Len(wire) + 1] = e
  BY <1>1, AddedIs
<1>3. \A i \in 1 .. Len(wire') : i \in 1 .. Len(wire) \/ i = Len(wire) + 1
  BY <1>2
<1>4. Types'
  BY <1>0, <1>1 DEF Types
<1>5. Stream'
  <2>1. \A i \in 1 .. Len(wire) : wire[i].type \notin Ends
    BY <1>0, <1>1 DEF Stream
  <2>2. \A i \in 1 .. Len(wire') : wire'[i].type \notin Ends => wire'[i].kind \in Kinds
    BY <1>0, <1>2, <1>3 DEF Stream, Ends
  <2>3. \A i \in 1 .. Len(wire') : wire'[i].type \in Ends => i = Len(wire') /\ ~ server'.up
    BY <1>2, <1>3, <2>1 DEF Ends
  <2>4. \A i \in 1 .. Len(wire') : wire'[i].type # "reset"
    BY <1>2, <1>3, <2>1 DEF Ends
  <2>5. Len(wire') <= MaxWire
    BY <1>1, <1>2, InformerAssumption
  <2>6. Len(wire') <= MaxWire + 1
    BY <1>2, <2>5, InformerAssumption
  <2>7. run.at = "receive"
    BY <1>0, <1>1 DEF Stream
  <2> QED
    BY <1>0, <1>1, <1>2, <2>2, <2>3, <2>4, <2>5, <2>6, <2>7 DEF Stream
<1>6. Rows'
  <2>1. ASSUME NEW k \in Kinds
        PROVE  /\ InLine(wire', k, inf[k].gt) /\ UpTo(wire', k, written[k]) /\ UpTo(wire', k, server'.gt[k])
               /\ Carries(wire', k, inf[k].gt, server'.gt[k]) /\ inf[k].gt <= server'.gt[k]
    <3>1. /\ InLine(wire, k, inf[k].gt) /\ inf[k].gt <= server.gt[k] /\ server.gt[k] <= written[k]
          /\ UpTo(wire, k, server.gt[k]) /\ Carries(wire, k, inf[k].gt, server.gt[k])
      BY <1>0, <1>1 DEF Rows
    <3>2. inf[k].gt \in Nat /\ server.gt[k] \in Nat /\ server'.gt[k] \in Nat /\ written[k] \in Nat
      BY <1>0, Informers DEF Types
    <3>3. IF e.type = "change" /\ e.kind = k THEN e.rev = server.gt[k] + 1 /\ server'.gt[k] = server.gt[k] + 1
          ELSE server'.gt[k] = server.gt[k]
      OBVIOUS
    <3>4. InLine(wire', k, inf[k].gt) /\ UpTo(wire', k, server'.gt[k]) /\ Carries(wire', k, inf[k].gt, server'.gt[k])
      <4>1. PICK gt \in Nat : gt = inf[k].gt
        BY <3>2
      <4>2. PICK top \in Nat : top = server.gt[k]
        BY <3>2
      <4>3. PICK next \in Nat : next = server'.gt[k]
        BY <3>2
      <4>4. InLine(wire, k, gt) /\ UpTo(wire, k, top) /\ Carries(wire, k, gt, top) /\ gt <= top
        BY <3>1, <4>1, <4>2
      <4>5. IF e.type = "change" /\ e.kind = k THEN e.rev = top + 1 /\ next = top + 1 ELSE next = top
        BY <3>3, <4>2, <4>3
      <4>6. InLine(Append(wire, e), k, gt) /\ UpTo(Append(wire, e), k, next) /\ Carries(Append(wire, e), k, gt, next)
        BY <1>1, <4>4, <4>5, Sent
      <4> QED
        BY <4>1, <4>3, <4>6
    <3>5. inf[k].gt <= server'.gt[k]
      <4>1. server'.gt[k] = server.gt[k] + 1 \/ server'.gt[k] = server.gt[k]
        BY <3>3
      <4> QED
        BY <3>1, <3>2, <4>1
    <3>6. UpTo(wire', k, written[k])
      <4>1. \A i \in 1 .. Len(wire') : wire'[i].rev \in Nat
        <5>1. \A i \in 1 .. Len(wire') : wire'[i] \in Event
          BY <1>2, ElementOfSeq
        <5> QED
          BY <5>1 DEF Event
      <4>2. server'.gt[k] <= written[k]
        OBVIOUS
      <4> QED
        BY <3>2, <3>4, <4>1, <4>2 DEF UpTo
    <3> QED
      BY <3>4, <3>5, <3>6
  <2> QED
    BY <1>0, <1>1, <2>1 DEF Rows
<1>7. Loop'
  BY <1>0, <1>1 DEF Loop
<1>8. Calm'
  <2>1. failures' = 0 => \A i \in 1 .. Len(wire') : wire'[i].type # "failure"
    BY <1>0, <1>2, <1>3 DEF Calm
  <2> QED
    BY <1>0, <1>1, <2>1 DEF Calm
<1> QED
  BY <1>4, <1>5, <1>6, <1>7, <1>8 DEF IInv

\* The stream breaks: what is on its way ends somewhere.
LEMMA BreakInv == ASSUME IInv, Break PROVE IInv'
<1>0. Types /\ Stream /\ Rows /\ Loop /\ Calm
  BY DEF IInv
<1>1. /\ server.up /\ server' = [server EXCEPT !.up = FALSE]
      /\ UNCHANGED <<written, stream, run, restarting, inf, changed, crashed, main, got>>
      /\ wire \in Seq(Event)
  BY <1>0 DEF Break, loop, client, Stream
<1>2. PICK type \in {"reset", "failure"} :
        /\ Cut(type) /\ resets <= resets' /\ resets' \in 0 .. MaxResets /\ failures' \in Nat
        /\ type = "reset" => resets' = resets + 1 /\ failures' = failures
        /\ type = "failure" => resets' = resets /\ failures' = failures + 1
  <2>1. resets \in 0 .. MaxResets /\ MaxResets \in Nat /\ failures \in Nat
    BY <1>0, InformerAssumption DEF Types
  <2>2. CASE resets < MaxResets /\ resets' = resets + 1 /\ Cut("reset") /\ UNCHANGED failures
    BY <2>1, <2>2
  <2>3. CASE Fault /\ Cut("failure") /\ UNCHANGED resets
    BY <2>1, <2>3 DEF Fault
  <2> QED
    BY <2>2, <2>3 DEF Break
<1> DEFINE e == [type |-> type, kind |-> {}, rev |-> 0]
<1>3. PICK n \in 0 .. Len(wire) : wire' = Append(SubSeq(wire, 1, n), e)
  BY <1>2 DEF Cut
<1>4. e \in Event /\ e.type = type /\ e.type \in Ends
  BY DEF Event, Ends
<1> HIDE DEF e
<1>5. /\ wire' \in Seq(Event) /\ Len(wire') = n + 1 /\ Len(wire) \in Nat
      /\ \A i \in 1 .. n : wire'[i] = wire[i] /\ i \in 1 .. Len(wire)
      /\ wire'[n + 1] = e
  <2>1. Len(wire) \in Nat
    BY <1>1, LenProperties
  <2> QED
    BY <1>1, <1>3, <1>4, <2>1, CutIs
<1>6. \A i \in 1 .. Len(wire') : i \in 1 .. n \/ i = n + 1
  BY <1>5
<1>7. ~ server'.up /\ server' \in [up : BOOLEAN, gt : [Kinds -> Nat], tail : [Kinds -> BOOLEAN]]
  BY <1>0, <1>1 DEF Types
<1>8. Types'
  BY <1>0, <1>1, <1>2, <1>7 DEF Types
<1>9. Stream'
  <2>1. \A i \in 1 .. Len(wire) : wire[i].type \notin Ends
    BY <1>0, <1>1 DEF Stream
  <2>2. \A i \in 1 .. Len(wire') : wire'[i].type \notin Ends => wire'[i].kind \in Kinds
    BY <1>0, <1>4, <1>5, <1>6 DEF Stream
  <2>3. \A i \in 1 .. Len(wire') : wire'[i].type \in Ends => i = Len(wire')
    BY <1>5, <1>6, <2>1
  <2>4. resets \in Nat /\ resets' \in Nat /\ restarting \in Nat
    BY <1>0, <1>2, InformerAssumption DEF Types
  <2>5. \A i \in 1 .. Len(wire') : wire'[i].type = "reset" => restarting < resets'
    BY <1>0, <1>2, <1>4, <1>5, <1>6, <2>1, <2>4 DEF Stream, Ends
  <2>6. restarting <= resets' /\ run.at = "receive"
    BY <1>0, <1>1, <1>2, <2>4 DEF Stream
  <2>7. Len(wire') <= MaxWire + 1
    BY <1>0, <1>1, <1>5, InformerAssumption DEF Stream
  <2> QED
    BY <1>0, <1>1, <1>5, <1>7, <2>2, <2>3, <2>5, <2>6, <2>7 DEF Stream
<1>10. Rows'
  <2>1. ASSUME NEW k \in Kinds PROVE InLine(wire', k, inf[k].gt) /\ UpTo(wire', k, written[k])
    <3>1. InLine(wire, k, inf[k].gt) /\ UpTo(wire, k, written[k]) /\ inf[k].gt \in Nat
      BY <1>0, Informers DEF Rows
    <3> QED
      <4>1. PICK gt \in Nat : gt = inf[k].gt
        BY <3>1
      <4>2. PICK top \in Nat : top = written[k]
        BY <1>0, Informers
      <4>3. InLine(wire, k, gt) /\ UpTo(wire, k, top)
        BY <3>1, <4>1, <4>2
      <4>4. InLine(Append(SubSeq(wire, 1, n), e), k, gt) /\ UpTo(Append(SubSeq(wire, 1, n), e), k, top)
        BY <1>1, <1>4, <4>3, CutInLine
      <4> QED
        BY <1>3, <4>1, <4>2, <4>4
  <2> QED
    BY <1>0, <1>1, <1>7, <2>1 DEF Rows
<1>11. Loop'
  BY <1>0, <1>1 DEF Loop
<1>12. Calm'
  <2>1. failures \in Nat
    BY <1>0 DEF Types
  <2>2. failures' = 0 => failures = 0 /\ \A i \in 1 .. Len(wire') : wire'[i].type # "failure"
    BY <1>0, <1>2, <1>4, <1>5, <1>6, <2>1 DEF Calm
  <2> QED
    BY <1>0, <1>1, <2>2 DEF Calm
<1> QED
  BY <1>8, <1>9, <1>10, <1>11, <1>12 DEF IInv

\* The server's steps: it sends a change, the tail or an error, or the stream breaks.
LEMMA ServerInv ==
  ASSUME IInv, (\E k \in Kinds : SendChange(k) \/ SendTail(k)) \/ SendError
  PROVE  IInv'
<1>0. Types /\ Rows
  BY DEF IInv
<1>1. ASSUME Sending PROVE \A k \in Kinds : server.gt[k] \in Nat /\ server.gt[k] <= written[k] /\ written[k] \in Nat
  BY <1>0, <1>1, Informers DEF Types, Rows, Sending
<1>2. ASSUME NEW k \in Kinds, SendChange(k) PROVE IInv'
  <2>1. /\ Sending /\ server.gt[k] < written[k] /\ server' = [server EXCEPT !.gt[k] = @ + 1]
        /\ wire' = Append(wire, [type |-> "change", kind |-> k, rev |-> server'.gt[k]]) /\ failures' = failures
    BY <1>2 DEF SendChange
  <2>2. /\ server'.up /\ server' \in [up : BOOLEAN, gt : [Kinds -> Nat], tail : [Kinds -> BOOLEAN]]
        /\ server'.gt[k] = server.gt[k] + 1 /\ \A j \in Kinds \ {k} : server'.gt[j] = server.gt[j]
    <3>1. server \in [up : BOOLEAN, gt : [Kinds -> Nat], tail : [Kinds -> BOOLEAN]] /\ server.up
      BY <1>0, <2>1 DEF Types, Sending
    <3>2. server.gt \in [Kinds -> Nat] /\ server'.gt = [server.gt EXCEPT ![k] = @ + 1]
          /\ server'.up /\ server' = [server EXCEPT !.gt = server'.gt]
      BY <2>1, <3>1
    <3>3. server'.gt \in [Kinds -> Nat] /\ server'.gt[k] = server.gt[k] + 1
          /\ \A j \in Kinds \ {k} : server'.gt[j] = server.gt[j]
      BY <3>2
    <3> QED
      BY <3>1, <3>2, <3>3
  <2> DEFINE e == [type |-> "change", kind |-> k, rev |-> server.gt[k] + 1]
  <2>3. e \in Event /\ e.type = "change" /\ e.kind = k /\ e.rev = server.gt[k] + 1 /\ wire' = Append(wire, e)
    BY <1>1, <2>1, <2>2 DEF Event
  <2> HIDE DEF e
  <2>4. \A j \in Kinds : /\ server'.gt[j] <= written[j]
                         /\ IF e.type = "change" /\ e.kind = j
                            THEN e.rev = server.gt[j] + 1 /\ server'.gt[j] = server.gt[j] + 1
                            ELSE server'.gt[j] = server.gt[j]
    BY <1>1, <2>1, <2>2, <2>3
  <2>5. failures \in Nat
    BY <1>0 DEF Types
  <2> QED
    BY <2>1, <2>2, <2>3, <2>4, <2>5, SendInv
<1>3. ASSUME NEW k \in Kinds, SendTail(k) PROVE IInv'
  <2>1. /\ Sending /\ server' = [server EXCEPT !.tail[k] = TRUE]
        /\ wire' = Append(wire, [type |-> "tail", kind |-> k, rev |-> 0]) /\ failures' = failures
    BY <1>3 DEF SendTail
  <2>2. /\ server'.up /\ server' \in [up : BOOLEAN, gt : [Kinds -> Nat], tail : [Kinds -> BOOLEAN]]
        /\ server'.gt = server.gt
    BY <1>0, <2>1 DEF Types, Sending
  <2> DEFINE e == [type |-> "tail", kind |-> k, rev |-> 0]
  <2>3. e \in Event /\ e.type = "tail" /\ e.kind = k /\ wire' = Append(wire, e)
    BY <2>1 DEF Event
  <2> HIDE DEF e
  <2>4. failures \in Nat
    BY <1>0 DEF Types
  <2> QED
    BY <1>1, <2>1, <2>2, <2>3, <2>4, SendInv
<1>4. ASSUME SendError PROVE IInv'
  <2>1. /\ Sending /\ server' = [server EXCEPT !.up = FALSE]
        /\ wire' = Append(wire, [type |-> "error", kind |-> {}, rev |-> 0]) /\ failures' = failures + 1
    BY <1>4 DEF SendError, Fault
  <2>2. /\ ~ server'.up /\ server' \in [up : BOOLEAN, gt : [Kinds -> Nat], tail : [Kinds -> BOOLEAN]]
        /\ server'.gt = server.gt
    BY <1>0, <2>1 DEF Types
  <2> DEFINE e == [type |-> "error", kind |-> {}, rev |-> 0]
  <2>3. e \in Event /\ e.type = "error" /\ wire' = Append(wire, e)
    BY <2>1 DEF Event, Ends
  <2> HIDE DEF e
  <2>4. failures' \in Nat /\ failures' # 0
    BY <1>0, <2>1 DEF Types
  <2> QED
    BY <1>1, <2>1, <2>2, <2>3, <2>4, SendInv
<1> QED
  BY <1>2, <1>3, <1>4

-----------------------------------------------------------------------------
\* The initial states, and every step.
LEMMA InitInv == Init => IInv
<1> SUFFICES ASSUME Init PROVE IInv
  OBVIOUS
<1>1. /\ Len(<<>>) = 0 /\ <<>> \in Seq(Event) /\ ~ Down.up /\ Off.at = "off" /\ Idle.at = "idle"
      /\ Down \in [up : BOOLEAN, gt : [Kinds -> Nat], tail : [Kinds -> BOOLEAN]]
      /\ Off \in [at : {"off", "receive", "handle", "end", "endToRestart"}, todo : SUBSET Kinds]
      /\ Idle \in [at : {"idle", "start", "wait", "return"}, kind : SUBSET Kinds, tailed : BOOLEAN]
      /\ ~ Idle.tailed
  BY DEF Down, Off, Idle
<1>2. \A k \in Kinds : /\ inf[k].gt = 0 /\ inf[k].data = {} /\ ~ inf[k].err /\ inf[k].closed = FALSE
                       /\ inf[k].tail = FALSE /\ got[k] = "nothing" /\ written[k] \in Nat
  BY InformerAssumption DEF Init
<1>s. /\ written \in [Kinds -> 0 .. MaxRows] /\ server = Down /\ wire = <<>> /\ stream = FALSE /\ run = Off
      /\ restarting = 0 /\ changed = {} /\ main = Idle /\ crashed = FALSE /\ resets = 0 /\ failures = 0
  BY DEF Init
<1>3. Types
  <2>1. inf \in [Kinds -> InformerState] /\ got \in [Kinds -> {"nothing", "error", "list", "partial"}]
    BY DEF Init, InformerState
  <2>2. 0 \in 0 .. MaxResets
    BY InformerAssumption
  <2> QED
    BY <1>1, <1>s, <2>1, <2>2 DEF Types
<1>4. Stream
  BY <1>1, <1>s, InformerAssumption DEF Stream
<1>5. Rows
  <2>1. 1 .. 0 = {} /\ ~ server.up
    BY <1>1, <1>s
  <2>2. ASSUME NEW k \in Kinds PROVE inf[k].data = 1 .. inf[k].gt /\ inf[k].gt <= written[k]
    <3>1. inf[k].gt = 0 /\ inf[k].data = {} /\ written[k] \in Nat
      BY <1>2
    <3>2. 1 .. inf[k].gt = 1 .. 0
      BY <3>1
    <3> QED
      BY <2>1, <3>1, <3>2
  <2>3. Len(wire) = 0
    BY <1>1, <1>s
  <2>4. \A k \in Kinds : InLine(wire, k, inf[k].gt) /\ UpTo(wire, k, written[k])
    BY <2>3 DEF InLine, UpTo
  <2> QED
    BY <2>1, <2>2, <2>4 DEF Rows
<1>6. Loop /\ Calm
  <2>1. \A k \in Kinds : inf[k].closed = inf[k].tail
    BY <1>2
  <2> QED
    BY <1>1, <1>s, <1>2, <2>1 DEF Loop, Calm
<1> QED
  BY <1>3, <1>4, <1>5, <1>6 DEF IInv

\* Every step keeps the invariant.
LEMMA NextInv == IInv /\ [Next]_vars => IInv'
<1> SUFFICES ASSUME IInv, [Next]_vars PROVE IInv'
  OBVIOUS
<1>0. Types
  BY DEF IInv
<1>1. CASE (\E k \in Kinds : Execute(k)) \/ ExecuteWait \/ ExecuteReturn
  BY <1>1, ExecuteInv
<1>2. CASE ExecuteStart
  <2>1. /\ start /\ main.at = "start" /\ main' = [main EXCEPT !.at = "wait"]
        /\ UNCHANGED <<written, restarting, got, resets>>
    BY <1>2 DEF ExecuteStart
  <2>2. /\ main' \in [at : {"idle", "start", "wait", "return"}, kind : SUBSET Kinds, tailed : BOOLEAN]
        /\ main'.kind = main.kind /\ main'.tailed = main.tailed /\ main'.at = "wait"
        /\ restarting \in Nat
    BY <1>0, <2>1 DEF Types
  <2> QED
    BY <2>1, <2>2, StartInv
<1>3. CASE Restart
  <2>1. start /\ restarting > 0 /\ restarting' = restarting - 1 /\ UNCHANGED <<written, main, got, resets>>
    BY <1>3 DEF Restart, loop
  <2>2. /\ main \in [at : {"idle", "start", "wait", "return"}, kind : SUBSET Kinds, tailed : BOOLEAN]
        /\ restarting' \in Nat /\ restarting' <= restarting
    BY <1>0, <2>1 DEF Types
  <2> QED
    BY <2>1, <2>2, StartInv
<1>4. CASE Receive
  BY <1>4, ChangeInv, TailInv, EndingInv, FailureInv, EndRunInv DEF Receive
<1>5. CASE \E k \in Kinds : Write(k) \/ SendChange(k) \/ SendTail(k)
  BY <1>5, WriteInv, ServerInv
<1>6. CASE SendError \/ Break
  BY <1>6, ServerInv, BreakInv
<1>7. CASE UNCHANGED vars
  BY <1>7 DEF IInv, Types, Stream, Rows, Loop, Calm, vars, loop, client
<1> QED
  BY <1>1, <1>2, <1>3, <1>4, <1>5, <1>6, <1>7 DEF Next

-----------------------------------------------------------------------------
\* The invariant holds throughout.
THEOREM Invariance == Spec => []IInv
BY InitInv, NextInv, PTL DEF Spec

\* The variables keep their types, the wire its bound, and the loader has a stream
\* exactly while a goroutine receives.
THEOREM TypeCorrect == Spec => []TypeOK
<1>1. IInv => TypeOK
  <2> SUFFICES ASSUME IInv PROVE TypeOK
    OBVIOUS
  <2>1. Types /\ Stream
    BY DEF IInv
  <2>2. restarting \in 0 .. MaxResets
    BY <2>1, InformerAssumption DEF Types, Stream
  <2> QED
    BY <2>1, <2>2 DEF Types, Stream, TypeOK
<1> QED
  BY <1>1, Invariance, PTL

\* No informer has a hole; without failures Execute returns whole lists alone and the
\* agent does not panic.
THEOREM WholeLists == Spec => []ListIsWhole
<1>1. IInv => ListIsWhole
  BY DEF IInv, Rows, Calm, ListIsWhole
<1> QED
  BY <1>1, Invariance, PTL

-----------------------------------------------------------------------------
(* Peering.                                                                 *)

\* The records of the cache; a function of peers holds records of such a set.
Device == [id : Nat, is : UNION {DeviceKinds[p] : p \in Peers}]
Ages == {"zero", "fresh", "old"}
Entry == [dev : Device, derp : BOOLEAN, method : None .. ViaDerp, tried : Ages,
          healthy : BOOLEAN, healthyAt : Ages]
OfPeers(f, S) == DOMAIN f \subseteq Peers /\ \A p \in DOMAIN f : f[p] \in S

\* What the variables hold, peer by peer; a loopback address is leased to a peer, and
\* no peer has two.
LoopsOK(l) == /\ DOMAIN l.mapping \subseteq 1 .. Octets /\ l.last \in 1 .. Octets
              /\ \A a \in DOMAIN l.mapping : l.mapping[a] \in Peers
              /\ \A a, b \in DOMAIN l.mapping : l.mapping[a] = l.mapping[b] => a = b
EntryOK(p, e) == /\ e \in Entry /\ e.dev.is \in DeviceKinds[p]
                 /\ e.healthy => e.healthyAt # "zero"
Shapes ==
  /\ devices \in [Peers -> Device \cup {Gone}]
  /\ DOMAIN cache \subseteq Peers /\ \A p \in DOMAIN cache : EntryOK(p, cache[p])
  /\ OfPeers(config, Configs) /\ OfPeers(tunnel, Configs)
  /\ LoopsOK(loops)

\* Only a peer that is not a relay is behind one.
RelayedPlain(c) == \A p \in DOMAIN c : c[p].method = ViaRelay => c[p].dev.is.relay = "no"

\* A loopback address that f has for a peer is leased to that peer.
LoopsLeased(f, l) ==
  \A p \in DOMAIN f : f[p].to # <<>> /\ f[p].to[1] = "loop"
     => f[p].to[2] \in DOMAIN l.mapping /\ l.mapping[f[p].to[2]] = p

\* The inductive invariant.
PeeringInv ==
  /\ PeeringTypeOK /\ Shapes
  /\ ConfigIsTrue /\ RelayedPlain(cache)
  /\ LoopsLeased(config, loops) /\ LoopsLeased(tunnel, loops)

-----------------------------------------------------------------------------
\* What the operators on functions return.
LEMMA PutIs ==
  ASSUME NEW f, NEW g
  PROVE  /\ DOMAIN Put(f, g) = DOMAIN f \cup DOMAIN g
         /\ \A x \in DOMAIN g : Put(f, g)[x] = g[x]
         /\ \A x \in DOMAIN f \ DOMAIN g : Put(f, g)[x] = f[x]
BY DEF Put

\* The same of the operator that leaves places out.
LEMMA WithoutIs ==
  ASSUME NEW f, NEW S
  PROVE  /\ DOMAIN Without(f, S) = DOMAIN f \ S
         /\ \A x \in DOMAIN f \ S : Without(f, S)[x] = f[x]
BY DEF Without

\* A set of natural numbers that is not empty has a least member: this is what
\* induction on the position in a sequence rests on.
LEMMA LeastMember ==
  ASSUME NEW T, T \subseteq Nat, T # {}
  PROVE  Least(T) \in T /\ \A y \in T : Least(T) =< y
<1>1. \E x \in T : \A y \in T : ~ (<<y, x>> \in OpToRel(<, Nat))
  BY NatLessThanWellFounded, WFMin
<1>2. PICK x \in T : \A y \in T : ~ (<<y, x>> \in OpToRel(<, Nat))
  BY <1>1
<1>3. \A y \in T : ~ (y < x)
  BY <1>2 DEF OpToRel
<1>4. \A y \in T : x =< y
  BY <1>3
<1> QED BY <1>4 DEF Least

\* The places from lo to hi that S misses, if any, begin somewhere.
LEMMA FirstMissing ==
  ASSUME NEW hi \in Nat, NEW S, 0 \in S,
         \A i \in 1 .. hi : i - 1 \in S => i \in S
  PROVE  \A i \in 0 .. hi : i \in S
<1> DEFINE T == {i \in 0 .. hi : i \notin S}
<1> SUFFICES ASSUME T # {} PROVE FALSE
  OBVIOUS
<1>1. Least(T) \in T /\ \A y \in T : Least(T) =< y
  BY LeastMember
<1>2. PICK m : m = Least(T)
  OBVIOUS
<1>3. m \in 1 .. hi /\ m \notin S /\ m - 1 \in 0 .. hi /\ m - 1 \notin T
  BY <1>1, <1>2
<1> QED BY <1>3

\* m was made from l by leasing addresses: a lease is kept, a key that has an address
\* gets no other.
Grown(l, m) ==
  /\ DOMAIN l.mapping \subseteq DOMAIN m.mapping
  /\ \A a \in DOMAIN l.mapping : m.mapping[a] = l.mapping[a]
  /\ \A q \in Peers : LoopOf(l, q) # {} => LoopOf(m, q) = LoopOf(l, q)

\* The address that LoopOf names is leased to the key.
LEMMA LoopOfIs ==
  ASSUME NEW l, LoopsOK(l), NEW p, LoopOf(l, p) # {}
  PROVE  Least(LoopOf(l, p)) \in DOMAIN l.mapping /\ l.mapping[Least(LoopOf(l, p))] = p
<1>1. LoopOf(l, p) \subseteq Nat
  BY DEF LoopOf, LoopsOK
<1> QED BY <1>1, LeastMember DEF LoopOf

\* One lease.
LEMMA LeaseGrows ==
  ASSUME PeeringAssumption, NEW l, LoopsOK(l), NEW p \in Peers
  PROVE  LoopsOK(Lease(l, p)) /\ Grown(l, Lease(l, p))
<1> DEFINE free == {a \in 1 .. (Octets - l.last) : a \notin DOMAIN l.mapping}
           a0 == Least(free)
           one == [a \in {a0} |-> p]
           m == [mapping |-> Put(l.mapping, one), last |-> a0]
<1>1. CASE LoopOf(l, p) # {} \/ free = {}
  <2>1. Lease(l, p) = l
    BY <1>1 DEF Lease
  <2> QED BY <2>1 DEF Grown
<1>2. CASE LoopOf(l, p) = {} /\ free # {}
  <2>1. Lease(l, p) = m
    BY <1>2 DEF Lease
  <2>2. a0 \in free
    <3>1. free \subseteq Nat
      OBVIOUS
    <3> HIDE DEF free
    <3> QED BY <1>2, <3>1, LeastMember
  <2> HIDE DEF a0
  <2>3. a0 \in 1 .. Octets /\ a0 \notin DOMAIN l.mapping
    BY <2>2 DEF LoopsOK, PeeringAssumption
  <2> HIDE DEF free
  <2>a. DOMAIN one = {a0} /\ one[a0] = p
    OBVIOUS
  <2>b. m.mapping = Put(l.mapping, one) /\ m.last = a0
    OBVIOUS
  <2> HIDE DEF m, one
  <2>c. /\ DOMAIN m.mapping = DOMAIN l.mapping \cup DOMAIN one
        /\ \A x \in DOMAIN one : m.mapping[x] = one[x]
        /\ \A x \in DOMAIN l.mapping \ DOMAIN one : m.mapping[x] = l.mapping[x]
    <3> DEFINE f == l.mapping
    <3> HIDE DEF f
    <3>1. m.mapping = Put(f, one)
      BY <2>b DEF f
    <3>2. /\ DOMAIN Put(f, one) = DOMAIN f \cup DOMAIN one
          /\ \A x \in DOMAIN one : Put(f, one)[x] = one[x]
          /\ \A x \in DOMAIN f \ DOMAIN one : Put(f, one)[x] = f[x]
      BY PutIs, Zenon
    <3> QED BY <3>1, <3>2 DEF f
  <2>4. DOMAIN m.mapping = DOMAIN l.mapping \cup {a0} /\ m.mapping[a0] = p /\ m.last = a0
    BY <2>a, <2>b, <2>c
  <2>5. \A a \in DOMAIN l.mapping : m.mapping[a] = l.mapping[a]
    BY <2>3, <2>a, <2>c
  <2>6. LoopsOK(m)
    <3>1. \A a \in DOMAIN l.mapping : l.mapping[a] # p
      BY <1>2 DEF LoopOf
    <3>2. \A a, b \in DOMAIN m.mapping : m.mapping[a] = m.mapping[b] => a = b
      BY <3>1, <2>3, <2>4, <2>5 DEF LoopsOK
    <3> QED BY <3>2, <2>3, <2>4, <2>5 DEF LoopsOK
  <2>7. \A q \in Peers : LoopOf(l, q) # {} => LoopOf(m, q) = LoopOf(l, q)
    BY <1>2, <2>3, <2>4, <2>5 DEF LoopOf
  <2> QED BY <2>1, <2>4, <2>5, <2>6, <2>7 DEF Grown
<1> QED BY <1>1, <1>2

\* Growing is transitive.
LEMMA GrownTwice ==
  ASSUME NEW l, NEW m, NEW n, Grown(l, m), Grown(m, n)
  PROVE  Grown(l, n)
<1>1. \A a \in DOMAIN l.mapping : a \in DOMAIN n.mapping /\ n.mapping[a] = l.mapping[a]
  BY DEF Grown
<1>2. \A q \in Peers : LoopOf(l, q) # {} => LoopOf(n, q) = LoopOf(l, q)
  BY DEF Grown
<1> QED BY <1>1, <1>2 DEF Grown

\* The leases after the first i of order, as long as there are so many.
IsRun(f, l, order, i) ==
  f = [j \in 0 .. i |-> IF j = 0 THEN l ELSE Lease(f[j - 1], order[j])]

\* There is such a run of any length: the recursion of Leased is well defined.
LEMMA RunExists ==
  ASSUME NEW l, NEW order, NEW n \in Nat
  PROVE  \E f : IsRun(f, l, order, n)
<1> DEFINE S == {i \in Nat : \E f : IsRun(f, l, order, i)}
<1>1. 0 \in S
  <2> DEFINE f == [j \in 0 .. 0 |-> l]
  <2>1. f = [j \in 0 .. 0 |-> IF j = 0 THEN l ELSE Lease(f[j - 1], order[j])]
    OBVIOUS
  <2> HIDE DEF f
  <2> QED BY <2>1 DEF IsRun
<1>2. ASSUME NEW i \in 1 .. n, i - 1 \in S PROVE i \in S
  <2>1. PICK f : IsRun(f, l, order, i - 1)
    BY <1>2
  <2> DEFINE g == [j \in 0 .. i |-> IF j = i THEN Lease(f[i - 1], order[i]) ELSE f[j]]
  <2>2. \A j \in 0 .. i - 1 : f[j] = IF j = 0 THEN l ELSE Lease(f[j - 1], order[j])
    BY <2>1 DEF IsRun
  <2>3. \A j \in 0 .. i - 1 : g[j] = f[j]
    OBVIOUS
  <2>4. g[i] = Lease(f[i - 1], order[i])
    OBVIOUS
  <2>5. \A j \in 0 .. i : g[j] = IF j = 0 THEN l ELSE Lease(g[j - 1], order[j])
    <3> TAKE j \in 0 .. i
    <3>1. CASE j = i
      <4>1. j # 0 /\ g[j - 1] = f[j - 1]
        BY <3>1, <2>3
      <4> HIDE DEF g
      <4> QED BY <3>1, <4>1, <2>4
    <3>2. CASE j # i
      <4>1. j \in 0 .. i - 1 /\ (j # 0 => j - 1 \in 0 .. i - 1)
        BY <3>2
      <4> HIDE DEF g
      <4> QED BY <4>1, <2>2, <2>3
    <3> QED BY <3>1, <3>2
  <2>6. g = [j \in 0 .. i |-> g[j]]
    OBVIOUS
  <2> HIDE DEF g
  <2>7. g = [j \in 0 .. i |-> IF j = 0 THEN l ELSE Lease(g[j - 1], order[j])]
    BY <2>5, <2>6
  <2> QED BY <2>7 DEF IsRun
<1> HIDE DEF S
<1>3. n \in S
  BY <1>1, <1>2, FirstMissing
<1> QED BY <1>3 DEF S

\* Leased is the last of a run.
LEMMA LeasedIsRun ==
  ASSUME NEW l, NEW order, Len(order) \in Nat
  PROVE  \E f : /\ f[0] = l /\ Leased(l, order) = f[Len(order)]
                /\ \A i \in 1 .. Len(order) : f[i] = Lease(f[i - 1], order[i])
<1> DEFINE n == Len(order)
           g == CHOOSE f : IsRun(f, l, order, n)
<1>1. IsRun(g, l, order, n)
  BY RunExists
<1>2. Leased(l, order) = g[n]
  BY DEF Leased, IsRun
<1> HIDE DEF g, n
<1>3. n \in Nat
  BY DEF n
<1>4. g[0] = l /\ \A i \in 1 .. n : g[i] = Lease(g[i - 1], order[i])
  BY <1>1, <1>3 DEF IsRun
<1> QED BY <1>2, <1>4 DEF n

\* Leasing addresses to keys one after the other.
LEMMA LeasedGrows ==
  ASSUME PeeringAssumption, NEW l, LoopsOK(l), NEW order \in Seq(Peers)
  PROVE  LoopsOK(Leased(l, order)) /\ Grown(l, Leased(l, order))
<1>1. PICK f : /\ f[0] = l /\ Leased(l, order) = f[Len(order)]
               /\ \A i \in 1 .. Len(order) : f[i] = Lease(f[i - 1], order[i])
  BY LeasedIsRun
<1> DEFINE S == {i \in Nat : LoopsOK(f[i]) /\ Grown(l, f[i])}
<1>2. 0 \in S
  BY <1>1 DEF Grown
<1>3. ASSUME NEW i \in 1 .. Len(order), i - 1 \in S PROVE i \in S
  <2>1. order[i] \in Peers
    OBVIOUS
  <2>2. f[i] = Lease(f[i - 1], order[i])
    BY <1>1
  <2>3. LoopsOK(f[i - 1]) /\ Grown(l, f[i - 1])
    BY <1>3
  <2>4. LoopsOK(f[i]) /\ Grown(f[i - 1], f[i])
    BY <2>1, <2>2, <2>3, LeaseGrows
  <2> QED BY <2>3, <2>4, GrownTwice
<1> HIDE DEF S
<1>4. PICK n \in Nat : n = Len(order)
  OBVIOUS
<1>5. \A i \in 1 .. n : i - 1 \in S => i \in S
  BY <1>3, <1>4
<1>6. n \in S
  BY SMTT(30), <1>2, <1>5, FirstMissing
<1> QED BY <1>1, <1>4, <1>6 DEF S

\* An order of a set is a sequence of its members.
LEMMA OrdersOf ==
  ASSUME NEW S, NEW order \in SetToSeqs(S)
  PROVE  order \in [1 .. Cardinality(S) -> S]
BY DEF SetToSeqs

\* Every way a pass may hand out addresses.
LEMMA LeasesGrow ==
  ASSUME PeeringAssumption, LoopsOK(loops), NEW choice, DOMAIN choice \subseteq Peers,
         NEW m \in Leases(choice)
  PROVE  LoopsOK(m) /\ Grown(loops, m)
<1> DEFINE S == {p \in DOMAIN choice : choice[p].build = ViaDerp /\ LoopOf(loops, p) = {}}
<1>1. PICK order \in SetToSeqs(S) : m = Leased(loops, order)
  BY DEF Leases
<1>2. S \subseteq Peers
  OBVIOUS
<1> HIDE DEF S
<1>3. IsFiniteSet(S) /\ Cardinality(S) \in Nat
  BY <1>2, FS_Subset, FS_CardinalityType DEF PeeringAssumption
<1>4. order \in [1 .. Cardinality(S) -> S]
  BY <1>1, OrdersOf
<1>5. order \in Seq(Peers)
  BY <1>2, <1>3, <1>4
<1> QED BY <1>1, <1>5, LeasedGrows

-----------------------------------------------------------------------------
\* The decision for one peer.

\* The methods that need no relay with WireGuard.
Direct(p, d) == Available(p, d, FALSE, FALSE)

\* The methods are numbers; only a peer that is no relay is reached through one.
LEMMA AvailableIs ==
  ASSUME NEW p, NEW d, NEW hr, NEW wr
  PROVE  /\ Available(p, d, hr, wr) \subseteq 0 .. ViaDerp
         /\ Direct(p, d) \subseteq 0 .. ViaDerp
         /\ ViaRelay \in Available(p, d, hr, wr) => d.relay = "no"
         /\ ViaRelay \notin Direct(p, d)
         /\ Direct(p, d) \subseteq Available(p, d, hr, wr) \cup {ViaDerp}
BY DEF Direct, Available, ViaRelay, ViaDerp

\* What is built is available, or nothing is; the entry is the peer's or is reset; a
\* healthy peer whose method needs no relay keeps it, and if its method is not
\* available any more nothing is built.
LEMMA RebuildIs ==
  \A q : \A b \in Entry : \A h, w \in BOOLEAN :
    LET z == rebuildPeerConfig(q, b, h, w)
    IN  /\ z.build \in {None} \cup Available(q, b.dev.is, h, w)
        /\ z.entry = b \/ z.entry = peeringReset(b)
        /\ b.healthy => z.entry = b
        /\ b.healthy /\ b.method \in Direct(q, b.dev.is)
             => z.build \in {None, b.method}
<1> SUFFICES ASSUME NEW p, NEW e \in Entry, NEW hr \in BOOLEAN, NEW wr \in BOOLEAN
    PROVE  LET x == rebuildPeerConfig(p, e, hr, wr)
           IN  /\ x.build \in {None} \cup Available(p, e.dev.is, hr, wr)
               /\ x.entry = e \/ x.entry = peeringReset(e)
               /\ e.healthy => x.entry = e
               /\ e.healthy /\ e.method \in Direct(p, e.dev.is)
                    => x.build \in {None, e.method}
  OBVIOUS
<1> DEFINE x == rebuildPeerConfig(p, e, hr, wr)
<1> DEFINE avail == Available(p, e.dev.is, hr, wr)
           direct == Direct(p, e.dev.is)
           failed == peeringFailed(e, hr)
           reset == failed /\ shouldResetPeering(e, avail)
           copy == IF reset THEN peeringReset(e) ELSE e
           next == {i \in avail : /\ i >= copy.method
                                  /\ (failed /\ ~reset) => i # copy.method}
           build == IF next = {} THEN None
                    ELSE IF Least(next) = ViaRelay /\ copy.method = ViaRelay
                         THEN None ELSE Least(next)
<1>1. x = [entry |-> copy, build |-> build]
  BY DEF rebuildPeerConfig
<1>a. avail \subseteq 0 .. ViaDerp /\ direct \subseteq 0 .. ViaDerp
  BY AvailableIs
<1>b. direct \subseteq avail \cup {ViaDerp}
  BY AvailableIs
<1>2. next \subseteq Nat /\ next \subseteq avail
  <2>1. avail \subseteq Nat
    BY <1>a DEF ViaDerp
  <2> HIDE DEF avail, copy, failed, reset
  <2>2. next \subseteq avail
    OBVIOUS
  <2> QED BY <2>1, <2>2
<1>3. next # {} => Least(next) \in next /\ \A i \in next : Least(next) =< i
  <2> HIDE DEF next
  <2> QED BY <1>2, LeastMember
<1>4. build \in {None} \cup avail
  <2> HIDE DEF next, copy, avail
  <2> QED BY <1>2, <1>3
<1>5. copy = e \/ copy = peeringReset(e)
  <2> HIDE DEF reset
  <2> QED OBVIOUS
<1>6. e.healthy => ~ failed /\ copy = e
  <2>1. e.healthy => ~ failed
    BY DEF peeringFailed
  <2> HIDE DEF failed
  <2> QED BY <2>1
<1>7. ASSUME e.healthy, e.method \in direct
      PROVE  build \in {None, e.method}
  <2>1. copy = e /\ ~ failed
    BY <1>6, <1>7
  <2>2. next = {i \in avail : i >= e.method}
    BY <2>1
  <2>3. e.method \in 0 .. ViaDerp
    BY <1>7, <1>a
  <2> HIDE DEF next, copy, failed, avail, direct
  <2>4. CASE e.method \in avail
    <3>1. e.method \in next
      BY <2>2, <2>3, <2>4 DEF ViaDerp
    <3>2. Least(next) = e.method
      <4>1. Least(next) \in next /\ Least(next) =< e.method
        BY <1>3, <3>1
      <4> QED BY <4>1, <2>2, <1>2, <2>3 DEF ViaDerp
    <3>3. next # {}
      BY <3>1
    <3> QED BY <3>2, <3>3
  <2>5. CASE e.method \notin avail
    <3>1. e.method = ViaDerp
      BY <1>7, <2>5, <1>b
    <3>2. \A i \in avail : ~ (i >= e.method)
      BY <2>5, <3>1, <1>a DEF ViaDerp
    <3>3. next = {}
      BY <2>2, <3>2
    <3> QED BY <3>3
  <2> QED BY <2>4, <2>5
<1> HIDE DEF copy, build
<1>8. x.entry = copy /\ x.build = build
  BY <1>1
<1>9. e.healthy /\ e.method \in direct => build \in {None, e.method}
  BY <1>7
<1> QED BY <1>4, <1>5, <1>6, <1>8, <1>9

\* A reset entry is that of a device nothing has been tried with.
LEMMA ResetIs ==
  ASSUME NEW e \in Entry
  PROVE  /\ peeringReset(e) \in Entry /\ peeringReset(e).dev = e.dev
         /\ peeringReset(e).method = None /\ ~ peeringReset(e).healthy
<1>1. None \in None .. ViaDerp
  BY DEF None, ViaDerp
<1> DEFINE z == Reset(e.dev)
<1>2. z \in Entry /\ z.dev = e.dev /\ z.method = None /\ ~ z.healthy
  BY <1>1 DEF Reset, Entry, Ages
<1>3. peeringReset(e) = [z EXCEPT !.derp = e.derp] /\ e.derp \in BOOLEAN
  BY DEF peeringReset, Entry
<1> HIDE DEF z
<1> QED BY <1>2, <1>3 DEF Entry

-----------------------------------------------------------------------------
\* The parts of a pass: what the LETs of Reconcile and buildPeersConfig name.
IsPass(x) ==
  /\ \E s : x.c = Refreshed(s)
  /\ x.r = Gone \/ x.r \in Relays(x.c)
  /\ x.choice = Decisions(x.c, x.r)
  /\ x.leased \in Leases(x.choice)

Made(x, p) ==
  IF x.choice[p].build # None
  THEN IF x.choice[p].build = ViaDerp /\ p \notin x.usable THEN Empty
       ELSE Build(x.choice[p].build, p, x.c[p].dev.is, x.leased, Region(x.c, x.r))
  ELSE IF p \in DOMAIN config THEN config[p] ELSE Empty
MethodOf(x, p) == IF x.choice[p].build # None THEN x.choice[p].build
                  ELSE x.choice[p].entry.method
Updated(x) == {p \in DOMAIN x.c : p \in DOMAIN config => config[p] # Made(x, p)}
Relayed(x) == {p \in Updated(x) : MethodOf(x, p) = ViaRelay}
Children(x) == {p \in DOMAIN x.c : x.choice[p].build = ViaRelay /\ x.c[p].dev.is.routes}
StoredOf(x) == Stored(Relayed(x), [p \in Updated(x) \ Relayed(x) |-> Made(x, p)])
RelayOf(x) == [(IF x.r \in DOMAIN StoredOf(x) THEN StoredOf(x)[x.r] ELSE Empty)
                 EXCEPT !.allowed = {"vpc"} \cup Children(x)]
EntriesOf(x) == [p \in DOMAIN x.c |->
                   IF p \notin Updated(x) THEN x.c[p]
                   ELSE [x.choice[p].entry EXCEPT !.method = MethodOf(x, p),
                                                  !.tried = "fresh"]]
PeersOf(x) == IF x.r # Gone /\ x.c[x.r].healthy /\ Children(x) # {}
              THEN Put(StoredOf(x), [q \in {x.r} |-> RelayOf(x)]) ELSE StoredOf(x)

\* They are those parts.
LEMMA BuiltIs ==
  ASSUME NEW x
  PROVE  buildPeersConfig(x.c, x.r, x.choice, x.leased, x.usable)
           = [entries |-> EntriesOf(x), peers |-> PeersOf(x), updated |-> Updated(x),
              cut |-> Relayed(x) \cap DOMAIN config]
BY DEF buildPeersConfig, EntriesOf, PeersOf, RelayOf, StoredOf, Children, Relayed, Updated,
       MethodOf, Made

\* What a pass does, once it has decided.
Deployed(x, cut, done, removed, ok) ==
  /\ cut \subseteq Relayed(x) /\ removed \subseteq DOMAIN x.c
  /\ done \subseteq Updated(x) \cap DOMAIN PeersOf(x)
  /\ ok => done = Updated(x) \cap DOMAIN PeersOf(x)
  /\ config' = IF ok THEN PeersOf(x) ELSE No
  /\ cache' = Without(EntriesOf(x), removed)
  /\ tunnel' = Without(Put(Without(tunnel, cut),
                           [p \in {q \in done : PeersOf(x)[q].to # <<>>} |-> PeersOf(x)[p]]),
                       removed)
  /\ shaken' = shaken \ (cut \cup removed)

-----------------------------------------------------------------------------
\* A refreshed entry is a new one, with no method and no handshake, or the peer's of
\* the last pass with its device and method.
LEMMA RefreshedIs ==
  ASSUME PeeringInv, NEW s, NEW c, c = Refreshed(s)
  PROVE  /\ DOMAIN c \subseteq Peers
         /\ \A p \in DOMAIN c : EntryOK(p, c[p])
         /\ \A p \in DOMAIN c :
              \/ c[p].method = None /\ ~ c[p].healthy
              \/ p \in DOMAIN cache /\ c[p].method = cache[p].method /\ c[p].dev = cache[p].dev
         /\ RelayedPlain(c)
<1> DEFINE noted(p) == [cache[p] EXCEPT
                          !.derp = devices[p].is.relay = "derp", !.healthy = p \in shaken,
                          !.healthyAt = IF p \in shaken THEN "fresh" ELSE @]
<1>1. DOMAIN c = DOMAIN cache \cup {q \in Peers : devices[q] # Gone}
  BY DEF Refreshed
<1>2. DOMAIN c \subseteq Peers
  BY <1>1 DEF PeeringInv, Shapes
<1>3. ASSUME NEW p \in DOMAIN c
      PROVE  /\ EntryOK(p, c[p])
             /\ \/ c[p].method = None /\ ~ c[p].healthy
                \/ p \in DOMAIN cache /\ c[p].method = cache[p].method /\ c[p].dev = cache[p].dev
  <2>1. \/ c[p] = Reset(devices[p]) /\ devices[p] # Gone
        \/ c[p] = cache[p] /\ p \in DOMAIN cache
        \/ c[p] = noted(p) /\ p \in DOMAIN cache
    BY <1>1 DEF Refreshed
  <2>2. CASE c[p] = Reset(devices[p]) /\ devices[p] # Gone
    <3>1. devices[p] \in Device /\ devices[p].is \in DeviceKinds[p]
      BY <2>2, <1>2 DEF PeeringInv, Shapes, PeeringTypeOK
    <3> DEFINE d == devices[p]
    <3> HIDE DEF d
    <3>2. Reset(d) = [dev |-> d, derp |-> FALSE, method |-> None, tried |-> "zero",
                      healthy |-> FALSE, healthyAt |-> "zero"]
      BY DEF Reset
    <3>3. None \in None .. ViaDerp
      BY DEF None, ViaDerp
    <3>4. d \in Device /\ d.is \in DeviceKinds[p] /\ c[p] = Reset(d)
      BY <2>2, <3>1 DEF d
    <3> QED BY <3>2, <3>3, <3>4 DEF EntryOK, Entry, Ages
  <2>3. CASE c[p] = cache[p] /\ p \in DOMAIN cache
    BY <2>3 DEF PeeringInv, Shapes
  <2>4. CASE c[p] = noted(p) /\ p \in DOMAIN cache
    <3> DEFINE e == cache[p]
               relay == devices[p].is.relay = "derp"
               well == p \in shaken
    <3>1. EntryOK(p, e)
      BY <2>4 DEF PeeringInv, Shapes
    <3>2. relay \in BOOLEAN /\ well \in BOOLEAN
      OBVIOUS
    <3>3. c[p] = [e EXCEPT !.derp = relay, !.healthy = well,
                           !.healthyAt = IF well THEN "fresh" ELSE @]
      BY <2>4, Zenon
    <3> HIDE DEF e, relay, well
    <3>4. /\ c[p].dev = e.dev /\ c[p].method = e.method /\ c[p].tried = e.tried
          /\ c[p].derp = relay /\ c[p].healthy = well
          /\ c[p].healthyAt = IF well THEN "fresh" ELSE e.healthyAt
      BY <3>1, <3>3 DEF EntryOK, Entry
    <3>5. c[p] \in Entry
      BY <3>1, <3>2, <3>3 DEF EntryOK, Entry, Ages
    <3> QED BY <2>4, <3>1, <3>4, <3>5 DEF EntryOK, e
  <2> QED BY <2>1, <2>2, <2>3, <2>4
<1>4. RelayedPlain(c)
  BY <1>3 DEF PeeringInv, RelayedPlain, None, ViaRelay
<1> QED BY <1>2, <1>3, <1>4

\* What every pass is about.
LEMMA PassIs ==
  ASSUME PeeringAssumption, PeeringInv, NEW x, IsPass(x)
  PROVE  /\ DOMAIN x.c \subseteq Peers /\ DOMAIN x.choice = DOMAIN x.c
         /\ \A p \in DOMAIN x.c :
              /\ EntryOK(p, x.c[p])
              /\ \/ x.c[p].method = None /\ ~ x.c[p].healthy
                 \/ /\ p \in DOMAIN cache
                    /\ x.c[p].method = cache[p].method /\ x.c[p].dev = cache[p].dev
         /\ RelayedPlain(x.c)
         /\ x.r = Gone \/ (x.r \in DOMAIN x.c /\ x.c[x.r].dev.is.relay # "no")
         /\ LoopsOK(x.leased) /\ Grown(loops, x.leased)
<1>1. PICK s : x.c = Refreshed(s)
  BY DEF IsPass
<1> DEFINE c == x.c
<1>2. c = Refreshed(s)
  BY <1>1
<1> HIDE DEF c
<1>3. /\ DOMAIN c \subseteq Peers
      /\ \A p \in DOMAIN c : EntryOK(p, c[p])
      /\ \A p \in DOMAIN c :
           \/ c[p].method = None /\ ~ c[p].healthy
           \/ p \in DOMAIN cache /\ c[p].method = cache[p].method /\ c[p].dev = cache[p].dev
      /\ RelayedPlain(c)
  BY <1>2, RefreshedIs
<1>4. DOMAIN x.choice = DOMAIN c
  BY DEF IsPass, Decisions, c
<1>5. LoopsOK(x.leased) /\ Grown(loops, x.leased)
  <2>1. LoopsOK(loops) /\ x.leased \in Leases(x.choice) /\ DOMAIN x.choice \subseteq Peers
    BY <1>3, <1>4 DEF IsPass, PeeringInv, Shapes
  <2> QED BY <2>1, LeasesGrow
<1>6. x.r = Gone \/ (x.r \in DOMAIN c /\ c[x.r].dev.is.relay # "no")
  BY DEF IsPass, Relays, c
<1> QED BY <1>3, <1>4, <1>5, <1>6 DEF c

\* What a pass decides of a peer.
LEMMA DecisionIs ==
  ASSUME PeeringAssumption, PeeringInv, NEW x, IsPass(x), NEW p \in DOMAIN x.c
  PROVE  /\ x.choice[p].build \in None .. ViaDerp
         /\ x.choice[p].build = ViaRelay => x.c[p].dev.is.relay = "no"
         /\ x.choice[p].entry = x.c[p] \/ x.choice[p].entry = peeringReset(x.c[p])
         /\ EntryOK(p, x.choice[p].entry) /\ x.choice[p].entry.dev = x.c[p].dev
         /\ x.choice[p].entry.method \in {None, x.c[p].method}
         /\ x.choice[p].entry.healthy => x.c[p].healthy
         /\ x.c[p].healthy => x.choice[p].entry = x.c[p]
         /\ x.c[p].healthy /\ x.c[p].method \in Direct(p, x.c[p].dev.is)
              => x.choice[p].build \in {None, x.c[p].method}
<1> DEFINE hr == x.r # Gone /\ x.c[x.r].healthy
           wr == x.r # Gone /\ ~ x.c[x.r].derp
<1>1. EntryOK(p, x.c[p]) /\ (x.r # Gone => x.r \in DOMAIN x.c /\ EntryOK(x.r, x.c[x.r]))
  BY PassIs
<1>2. hr \in BOOLEAN /\ wr \in BOOLEAN
  BY <1>1 DEF EntryOK, Entry
<1>3. PICK e \in Entry : e = x.c[p]
  BY <1>1 DEF EntryOK
<1>a. PICK y : y = x.choice[p]
  OBVIOUS
<1>4. PICK h \in BOOLEAN, w \in BOOLEAN : y = rebuildPeerConfig(p, e, h, w)
  BY <1>2, <1>3, <1>a DEF IsPass, Decisions
<1>5. /\ y.build \in {None} \cup Available(p, e.dev.is, h, w)
      /\ y.entry = e \/ y.entry = peeringReset(e)
      /\ e.healthy => y.entry = e
      /\ e.healthy /\ e.method \in Direct(p, e.dev.is)
              => y.build \in {None, e.method}
  BY <1>3, <1>4, RebuildIs
<1>6. y.build \in None .. ViaDerp /\ (y.build = ViaRelay => e.dev.is.relay = "no")
  <2>1. /\ Available(p, e.dev.is, h, w) \subseteq 0 .. ViaDerp
        /\ ViaRelay \in Available(p, e.dev.is, h, w) => e.dev.is.relay = "no"
    BY AvailableIs
  <2> QED BY <1>5, <2>1 DEF None, ViaDerp, ViaRelay
<1>7. /\ EntryOK(p, y.entry) /\ y.entry.dev = e.dev
      /\ y.entry.method \in {None, e.method} /\ (y.entry.healthy => e.healthy)
  <2>1. /\ peeringReset(e) \in Entry /\ peeringReset(e).dev = e.dev
        /\ peeringReset(e).method = None /\ ~ peeringReset(e).healthy
    BY ResetIs
  <2> QED BY <1>1, <1>3, <1>5, <2>1 DEF EntryOK
<1> QED BY <1>3, <1>a, <1>5, <1>6, <1>7

\* What a method configures for a peer: a loopback address is one leased to it.
LEMMA BuildIs ==
  ASSUME PeeringAssumption, NEW i, NEW p \in Peers, NEW d \in DeviceKinds[p], NEW l, LoopsOK(l),
         NEW z \in Regions
  PROVE  /\ Build(i, p, d, l, z) \in Configs
         /\ Build(i, p, d, l, z).to # <<>> /\ Build(i, p, d, l, z).to[1] = "loop"
              => /\ Build(i, p, d, l, z).to[2] \in DOMAIN l.mapping
                 /\ l.mapping[Build(i, p, d, l, z).to[2]] = p
<1> DEFINE b == Build(i, p, d, l, z)
           at == IF i = ViaDerp THEN Least(LoopOf(l, p)) ELSE d.at
           port == IF i = ViaDerp THEN z ELSE 0
           allowed == IF i \in {2, 3} THEN {"vpc"}
                      ELSE {"own"} \cup {x \in {"routes"} : d.routes}
<1>1. CASE i = ViaRelay \/ (i = ViaDerp /\ LoopOf(l, p) = {})
  <2>1. b = Empty
    BY <1>1 DEF Build
  <2> QED BY <2>1 DEF Empty, Configs
<1>2. CASE ~ (i = ViaRelay \/ (i = ViaDerp /\ LoopOf(l, p) = {}))
  <2>1. b = [to |-> <<Place(i, d), at, port>>, allowed |-> allowed]
    BY <1>2 DEF Build
  <2>2. Place(i, d) \in Places /\ (Place(i, d) = "loop" => i = ViaDerp)
    BY DEF Place, Places
  <2>3. i = ViaDerp => at \in DOMAIN l.mapping /\ l.mapping[at] = p
    BY <1>2, LoopOfIs
  <2>4. at \in Nat
    <3>1. d.at \in Nat
      BY DEF PeeringAssumption, KindOK
    <3>2. DOMAIN l.mapping \subseteq Nat
      BY DEF LoopsOK
    <3> QED BY <3>1, <3>2, <2>3
  <2>5. allowed \in SUBSET ({"vpc", "own", "routes"} \cup Peers)
    OBVIOUS
  <2>8. port \in Regions
    BY DEF Regions
  <2> HIDE DEF b, at, port, allowed
  <2>6. b \in Configs
    BY <2>1, <2>2, <2>4, <2>5, <2>8 DEF Configs
  <2>7. b.to[1] = Place(i, d) /\ b.to[2] = at
    BY <2>1
  <2> QED BY <2>2, <2>3, <2>6, <2>7 DEF b
<1> QED BY <1>1, <1>2

\* The region a pass uses is one.
LEMMA RegionIs ==
  ASSUME PeeringInv, NEW c, NEW r
  PROVE  Region(c, r) \in Regions
BY DEF Region, Regions, PeeringInv, PeeringTypeOK

\* What a pass makes of a peer's configuration.
LEMMA MadeIs ==
  ASSUME PeeringAssumption, PeeringInv, NEW x, IsPass(x), NEW p \in DOMAIN x.c
  PROVE  /\ Made(x, p) \in Configs
         /\ Made(x, p).to # <<>> /\ Made(x, p).to[1] = "loop"
              => /\ Made(x, p).to[2] \in DOMAIN x.leased.mapping
                 /\ x.leased.mapping[Made(x, p).to[2]] = p
<1> DEFINE d == x.c[p].dev.is
           l == x.leased
           i == x.choice[p].build
           z == Region(x.c, x.r)
<1>1. p \in Peers /\ d \in DeviceKinds[p] /\ LoopsOK(l) /\ Grown(loops, l)
  BY PassIs DEF EntryOK
<1>2. CASE Made(x, p) = Empty
  BY <1>2 DEF Empty, Configs
<1>3. CASE Made(x, p) = Build(i, p, d, l, z)
  <2>1. z \in Regions
    BY RegionIs
  <2> HIDE DEF i, d, l, z
  <2> QED BY <1>1, <1>3, <2>1, BuildIs DEF l
<1>4. CASE p \in DOMAIN config /\ Made(x, p) = config[p]
  <2>1. config[p] \in Configs
    BY <1>4 DEF PeeringInv, Shapes, OfPeers
  <2>2. config[p].to # <<>> /\ config[p].to[1] = "loop"
          => config[p].to[2] \in DOMAIN loops.mapping /\ loops.mapping[config[p].to[2]] = p
    BY <1>4 DEF PeeringInv, LoopsLeased
  <2> HIDE DEF l
  <2>3. config[p].to # <<>> /\ config[p].to[1] = "loop"
          => config[p].to[2] \in DOMAIN l.mapping /\ l.mapping[config[p].to[2]] = p
    BY <1>1, <2>2 DEF Grown
  <2> QED BY <1>4, <2>1, <2>3 DEF l
<1> QED BY <1>2, <1>3, <1>4 DEF Made

\* The configuration a pass stores: a peer behind the relay is left out.
LEMMA StoredIs ==
  ASSUME NEW x
  PROVE  /\ DOMAIN StoredOf(x) = (DOMAIN config \cup Updated(x)) \ Relayed(x)
         /\ Relayed(x) \subseteq Updated(x) /\ Updated(x) \subseteq DOMAIN x.c
         /\ DOMAIN x.c \ Updated(x) \subseteq DOMAIN config
         /\ \A p \in Updated(x) \ Relayed(x) : StoredOf(x)[p] = Made(x, p)
         /\ \A p \in DOMAIN config \ Updated(x) : StoredOf(x)[p] = config[p]
<1> DEFINE kept == Without(config, Relayed(x))
           new == [p \in Updated(x) \ Relayed(x) |-> Made(x, p)]
<1>1. StoredOf(x) = Put(kept, new)
  BY DEF StoredOf, Stored
<1>2. /\ DOMAIN kept = DOMAIN config \ Relayed(x)
      /\ \A p \in DOMAIN config \ Relayed(x) : kept[p] = config[p]
  BY WithoutIs, Zenon
<1>3. /\ DOMAIN new = Updated(x) \ Relayed(x)
      /\ \A p \in Updated(x) \ Relayed(x) : new[p] = Made(x, p)
  OBVIOUS
<1>4. Relayed(x) \subseteq Updated(x) /\ Updated(x) \subseteq DOMAIN x.c
  BY DEF Relayed, Updated
<1>5. DOMAIN x.c \ Updated(x) \subseteq DOMAIN config
  BY DEF Updated
<1> HIDE DEF kept, new
<1>6. /\ DOMAIN Put(kept, new) = DOMAIN kept \cup DOMAIN new
      /\ \A p \in DOMAIN new : Put(kept, new)[p] = new[p]
      /\ \A p \in DOMAIN kept \ DOMAIN new : Put(kept, new)[p] = kept[p]
  BY PutIs, Zenon
<1>7. DOMAIN StoredOf(x) = (DOMAIN config \cup Updated(x)) \ Relayed(x)
  BY <1>1, <1>2, <1>3, <1>4, <1>6
<1>8. \A p \in Updated(x) \ Relayed(x) : StoredOf(x)[p] = Made(x, p)
  BY <1>1, <1>3, <1>6
<1>9. \A p \in DOMAIN config \ Updated(x) : StoredOf(x)[p] = config[p]
  BY <1>1, <1>2, <1>3, <1>4, <1>6
<1> QED BY <1>4, <1>5, <1>7, <1>8, <1>9

\* The method a pass leaves a peer with.
LEMMA MethodIs ==
  ASSUME PeeringAssumption, PeeringInv, NEW x, IsPass(x), NEW p \in DOMAIN x.c
  PROVE  /\ MethodOf(x, p) \in None .. ViaDerp
         /\ MethodOf(x, p) = ViaRelay => x.c[p].dev.is.relay = "no"
<1> DEFINE y == x.choice[p]
<1>1. /\ y.build \in None .. ViaDerp /\ (y.build = ViaRelay => x.c[p].dev.is.relay = "no")
      /\ EntryOK(p, y.entry) /\ y.entry.method \in {None, x.c[p].method}
  BY DecisionIs
<1>2. x.c[p].method = ViaRelay => x.c[p].dev.is.relay = "no"
  BY PassIs DEF RelayedPlain
<1>3. y.entry.method \in None .. ViaDerp
  BY <1>1 DEF EntryOK, Entry
<1> HIDE DEF y
<1> QED BY <1>1, <1>2, <1>3 DEF MethodOf, y, None, ViaRelay

\* The configuration of a pass, peer by peer: the relay's may get an entry that reaches
\* nowhere, and a peer behind the relay has none.
LEMMA PeersIs ==
  ASSUME PeeringAssumption, PeeringInv, NEW x, IsPass(x)
  PROVE  /\ DOMAIN PeersOf(x) \subseteq Peers
         /\ Updated(x) \ Relayed(x) \subseteq DOMAIN PeersOf(x)
         /\ Relayed(x) \cap DOMAIN PeersOf(x) = {}
         /\ \A p \in DOMAIN PeersOf(x) :
              /\ PeersOf(x)[p] \in Configs
              /\ \/ PeersOf(x)[p].to = <<>>
                 \/ p \in Updated(x) \ Relayed(x) /\ PeersOf(x)[p].to = Made(x, p).to
                 \/ p \in DOMAIN config \ Updated(x) /\ PeersOf(x)[p].to = config[p].to
              /\ p \in Updated(x) => PeersOf(x)[p].to = Made(x, p).to
<1> DEFINE st == StoredOf(x)
           old == IF x.r \in DOMAIN st THEN st[x.r] ELSE Empty
           rel == [old EXCEPT !.allowed = {"vpc"} \cup Children(x)]
<1>1. /\ DOMAIN st = (DOMAIN config \cup Updated(x)) \ Relayed(x)
      /\ Relayed(x) \subseteq Updated(x) /\ Updated(x) \subseteq DOMAIN x.c
      /\ \A p \in Updated(x) \ Relayed(x) : st[p] = Made(x, p)
      /\ \A p \in DOMAIN config \ Updated(x) : st[p] = config[p]
  BY StoredIs
<1>2. DOMAIN x.c \subseteq Peers /\ DOMAIN config \subseteq Peers
  BY PassIs DEF PeeringInv, Shapes, OfPeers
<1>3. x.r = Gone \/ (x.r \in DOMAIN x.c /\ x.r \notin Relayed(x))
  BY PassIs, MethodIs DEF Relayed
<1>4. DOMAIN st \subseteq Peers
  BY <1>1, <1>2
<1>5. \A p \in DOMAIN st : st[p] \in Configs
  <2>1. \A p \in DOMAIN x.c : Made(x, p) \in Configs
    BY MadeIs
  <2>2. \A p \in DOMAIN config : config[p] \in Configs
    BY DEF PeeringInv, Shapes, OfPeers
  <2> HIDE DEF st
  <2> QED BY <1>1, <2>1, <2>2
<1>6. Children(x) \subseteq Peers
  BY <1>2 DEF Children
<1>7. old \in Configs /\ (x.r \notin DOMAIN st => old.to = <<>>)
  <2>1. Empty \in Configs /\ Empty.to = <<>>
    BY DEF Empty, Configs
  <2> HIDE DEF st
  <2> QED BY <1>5, <2>1
<1>8. rel \in Configs /\ rel.to = old.to
  <2> HIDE DEF old
  <2> QED BY <1>6, <1>7 DEF Configs
<1>9. CASE PeersOf(x) = st
  <2> HIDE DEF st
  <2> QED BY <1>1, <1>2, <1>4, <1>5, <1>9
<1>10. CASE x.r # Gone /\ PeersOf(x) = Put(st, [q \in {x.r} |-> RelayOf(x)])
  <2> DEFINE one == [q \in {x.r} |-> RelayOf(x)]
  <2>1. RelayOf(x) = rel
    BY DEF RelayOf
  <2>2. DOMAIN one = {x.r} /\ one[x.r] = rel
    BY <2>1
  <2> HIDE DEF st, one, rel
  <2>3. /\ DOMAIN Put(st, one) = DOMAIN st \cup DOMAIN one
        /\ \A q \in DOMAIN one : Put(st, one)[q] = one[q]
        /\ \A q \in DOMAIN st \ DOMAIN one : Put(st, one)[q] = st[q]
    BY PutIs, Zenon
  <2>4. PeersOf(x) = Put(st, one)
    BY <1>10 DEF one
  <2>5. /\ DOMAIN PeersOf(x) = DOMAIN st \cup {x.r} /\ PeersOf(x)[x.r] = rel
        /\ \A q \in DOMAIN st \ {x.r} : PeersOf(x)[q] = st[q]
    BY <2>2, <2>3, <2>4
  <2>6. DOMAIN PeersOf(x) \subseteq Peers /\ Relayed(x) \cap DOMAIN PeersOf(x) = {}
        /\ Updated(x) \ Relayed(x) \subseteq DOMAIN PeersOf(x)
    BY <1>1, <1>2, <1>3, <1>4, <1>10, <2>5
  <2>7. rel.to = <<>> \/ (x.r \in DOMAIN st /\ rel.to = st[x.r].to)
    BY <1>7, <1>8
  <2>8. \A q \in DOMAIN PeersOf(x) : PeersOf(x)[q] \in Configs
    BY <1>5, <1>8, <2>5
  <2>9. \A q \in DOMAIN st : PeersOf(x)[q].to = st[q].to
    BY <1>8, <2>5
  <2>10. \A q \in DOMAIN PeersOf(x) \ DOMAIN st : PeersOf(x)[q].to = <<>>
    BY <1>7, <1>8, <2>5
  <2>11. \A q \in DOMAIN st :
           \/ q \in Updated(x) \ Relayed(x) /\ PeersOf(x)[q].to = Made(x, q).to
           \/ q \in DOMAIN config \ Updated(x) /\ PeersOf(x)[q].to = config[q].to
    BY <1>1, <2>9
  <2>12. \A q \in DOMAIN PeersOf(x) : q \in Updated(x) => PeersOf(x)[q].to = Made(x, q).to
    BY <1>1, <2>6, <2>11
  <2> QED BY <2>6, <2>8, <2>10, <2>11, <2>12
<1> QED BY <1>9, <1>10 DEF PeersOf

\* The entries of a pass: what was not updated is as it was refreshed.
LEMMA EntriesIs ==
  ASSUME PeeringAssumption, PeeringInv, NEW x, IsPass(x)
  PROVE  /\ DOMAIN EntriesOf(x) = DOMAIN x.c
         /\ \A p \in DOMAIN x.c :
              /\ EntryOK(p, EntriesOf(x)[p]) /\ EntriesOf(x)[p].dev = x.c[p].dev
              /\ EntriesOf(x)[p].healthy => x.c[p].healthy
              /\ p \in Updated(x) => EntriesOf(x)[p].method = MethodOf(x, p)
              /\ p \notin Updated(x) => EntriesOf(x)[p] = x.c[p]
<1>1. DOMAIN EntriesOf(x) = DOMAIN x.c
  BY DEF EntriesOf
<1>2. ASSUME NEW p \in DOMAIN x.c
      PROVE  /\ EntryOK(p, EntriesOf(x)[p]) /\ EntriesOf(x)[p].dev = x.c[p].dev
             /\ EntriesOf(x)[p].healthy => x.c[p].healthy
             /\ p \in Updated(x) => EntriesOf(x)[p].method = MethodOf(x, p)
             /\ p \notin Updated(x) => EntriesOf(x)[p] = x.c[p]
  <2>1. CASE p \notin Updated(x)
    <3>1. EntriesOf(x)[p] = x.c[p]
      BY <2>1 DEF EntriesOf
    <3> QED BY <2>1, <3>1, PassIs
  <2>2. CASE p \in Updated(x)
    <3>1. PICK e : e = x.choice[p].entry
      OBVIOUS
    <3>2. PICK m : m = MethodOf(x, p)
      OBVIOUS
    <3>3. EntriesOf(x)[p] = [e EXCEPT !.method = m, !.tried = "fresh"]
      BY <2>2, <3>1, <3>2 DEF EntriesOf
    <3>4. /\ EntryOK(p, e) /\ e.dev = x.c[p].dev /\ (e.healthy => x.c[p].healthy)
          /\ m \in None .. ViaDerp
      BY <3>1, <3>2, DecisionIs, MethodIs
    <3>5. [e EXCEPT !.method = m, !.tried = "fresh"] \in Entry
      BY <3>4 DEF EntryOK, Entry, Ages
    <3>6. LET z == [e EXCEPT !.method = m, !.tried = "fresh"]
          IN z.dev = e.dev /\ z.healthy = e.healthy /\ z.healthyAt = e.healthyAt /\ z.method = m
      BY <3>4 DEF EntryOK, Entry
    <3> QED BY <2>2, <3>2, <3>3, <3>4, <3>5, <3>6 DEF EntryOK
  <2> QED BY <2>1, <2>2
<1> QED BY <1>1, <1>2

-----------------------------------------------------------------------------
\* A pass is one of those.
LEMMA ReconcileIs ==
  ASSUME NEW fault \in BOOLEAN, Reconcile(fault)
  PROVE  \E x, cut, done, removed : \E ok \in BOOLEAN :
           /\ IsPass(x) /\ Deployed(x, cut, done, removed, ok) /\ loops' = x.leased
           /\ myDerp' = Region(x.c, x.r)
<1>1. PICK c \in {Refreshed(s) : s \in {DOMAIN tunnel} \cup {t \in {{}} : fault}} :
        \E r \in IF Relays(c) = {} THEN {Gone} ELSE LastRelays(c) :
          \E leased \in Leases(Decisions(c, r)), usable \in Some(fault, DOMAIN c) :
            /\ loops' = leased /\ myDerp' = Region(c, r)
            /\ Deploy(buildPeersConfig(c, r, Decisions(c, r), leased, usable), fault)
  BY DEF Reconcile
<1>a. PICK r \in IF Relays(c) = {} THEN {Gone} ELSE LastRelays(c) :
        \E leased \in Leases(Decisions(c, r)), usable \in Some(fault, DOMAIN c) :
          /\ loops' = leased /\ myDerp' = Region(c, r)
          /\ Deploy(buildPeersConfig(c, r, Decisions(c, r), leased, usable), fault)
  BY <1>1
<1>2. PICK leased \in Leases(Decisions(c, r)), usable \in Some(fault, DOMAIN c) :
          /\ loops' = leased /\ myDerp' = Region(c, r)
          /\ Deploy(buildPeersConfig(c, r, Decisions(c, r), leased, usable), fault)
  BY <1>a
<1>3. PICK x : x = [c |-> c, r |-> r, choice |-> Decisions(c, r), leased |-> leased,
                    usable |-> usable]
  OBVIOUS
<1>4. x.c = c /\ x.r = r /\ x.choice = Decisions(c, r) /\ x.leased = leased /\ x.usable = usable
  BY <1>3
<1>5. \E s : c = Refreshed(s)
  BY <1>1
<1>6. r = Gone \/ r \in Relays(c)
  BY <1>a DEF LastRelays
<1>7. IsPass(x)
  BY <1>2, <1>4, <1>5, <1>6 DEF IsPass
<1>8. PICK b : b = buildPeersConfig(x.c, x.r, x.choice, x.leased, x.usable)
  OBVIOUS
<1>9. Deploy(b, fault)
  BY <1>2, <1>4, <1>8
<1>10. b = [entries |-> EntriesOf(x), peers |-> PeersOf(x), updated |-> Updated(x),
            cut |-> Relayed(x) \cap DOMAIN config]
  BY <1>8, BuiltIs
<1>11. /\ b.entries = EntriesOf(x) /\ b.peers = PeersOf(x) /\ b.updated = Updated(x)
       /\ b.cut = Relayed(x) \cap DOMAIN config
  BY <1>10
<1> DEFINE gone == {p \in DOMAIN b.entries :
                      devices[p] = Gone \/ devices[p].id # b.entries[p].dev.id}
<1>12. PICK cut \in Some(fault, b.cut), done \in Some(fault, b.updated \cap DOMAIN b.peers),
            removed \in Some(fault, gone), ok \in {TRUE, ~ fault} :
          /\ IF ok THEN done = b.updated \cap DOMAIN b.peers ELSE removed = {}
          /\ config' = Remembered(b.peers, ok)
          /\ cache' = Without(b.entries, removed)
          /\ tunnel' = Without(Put(Without(tunnel, cut),
                               [p \in {q \in done : Parses(b.peers[q])}
                                  |-> b.peers[p]]), removed)
          /\ shaken' = shaken \ (cut \cup removed)
  BY <1>9 DEF Deploy
<1>13. cut \subseteq Relayed(x) /\ removed \subseteq DOMAIN x.c
  <2>1. cut \subseteq b.cut /\ removed \subseteq gone
    BY <1>12 DEF Some
  <2>2. DOMAIN b.entries = DOMAIN x.c
    BY <1>11 DEF EntriesOf
  <2> QED BY <2>1, <2>2, <1>11
<1>14. done \subseteq Updated(x) \cap DOMAIN PeersOf(x)
  BY <1>11, <1>12 DEF Some
<1>15. ok => done = Updated(x) \cap DOMAIN PeersOf(x)
  BY <1>11, <1>12
<1>16. config' = IF ok THEN PeersOf(x) ELSE No
  BY <1>11, <1>12 DEF Remembered
<1>17. tunnel' = Without(Put(Without(tunnel, cut),
                           [p \in {q \in done : PeersOf(x)[q].to # <<>>} |-> PeersOf(x)[p]]),
                       removed)
  BY <1>11, <1>12 DEF Parses
<1>18. cache' = Without(EntriesOf(x), removed)
  BY <1>11, <1>12
<1>19. Deployed(x, cut, done, removed, ok)
  BY <1>12, <1>13, <1>14, <1>15, <1>16, <1>17, <1>18 DEF Deployed
<1>20. ok \in BOOLEAN
  BY <1>12
<1> QED BY <1>2, <1>4, <1>7, <1>19, <1>20

\* The interface after a pass: a peer that was deployed has its configuration, every
\* other one what it had.
LEMMA TunnelIs ==
  ASSUME NEW x, NEW cut, NEW done, NEW removed, NEW ok,
         Deployed(x, cut, done, removed, ok)
  PROVE  LET set == {q \in done : PeersOf(x)[q].to # <<>>}
         IN  /\ DOMAIN tunnel' = ((DOMAIN tunnel \ cut) \cup set) \ removed
             /\ \A p \in DOMAIN tunnel' :
                  tunnel'[p] = IF p \in set THEN PeersOf(x)[p] ELSE tunnel[p]
<1> DEFINE set == {q \in done : PeersOf(x)[q].to # <<>>}
           kept == Without(tunnel, cut)
           new == [p \in set |-> PeersOf(x)[p]]
           both == Put(kept, new)
<1>1. tunnel' = Without(both, removed)
  BY DEF Deployed
<1>2. DOMAIN new = set /\ \A p \in set : new[p] = PeersOf(x)[p]
  OBVIOUS
<1>3. /\ DOMAIN kept = DOMAIN tunnel \ cut
      /\ \A p \in DOMAIN tunnel \ cut : kept[p] = tunnel[p]
  BY WithoutIs, Zenon
<1> HIDE DEF set, kept, new
<1>4. /\ DOMAIN both = DOMAIN kept \cup DOMAIN new
      /\ \A p \in DOMAIN new : both[p] = new[p]
      /\ \A p \in DOMAIN kept \ DOMAIN new : both[p] = kept[p]
  BY PutIs, Zenon
<1> HIDE DEF both
<1>5. /\ DOMAIN Without(both, removed) = DOMAIN both \ removed
      /\ \A p \in DOMAIN both \ removed : Without(both, removed)[p] = both[p]
  BY WithoutIs, Zenon
<1>6. DOMAIN tunnel' = ((DOMAIN tunnel \ cut) \cup set) \ removed
  BY <1>1, <1>2, <1>3, <1>4, <1>5
<1>7. \A p \in DOMAIN tunnel' : tunnel'[p] = IF p \in set THEN PeersOf(x)[p] ELSE tunnel[p]
  BY <1>1, <1>2, <1>3, <1>4, <1>5
<1> QED BY <1>6, <1>7 DEF set

\* The cache after a pass.
LEMMA CacheIs ==
  ASSUME PeeringAssumption, PeeringInv, NEW x, IsPass(x),
         NEW cut, NEW done, NEW removed, NEW ok, Deployed(x, cut, done, removed, ok)
  PROVE  /\ DOMAIN cache' = DOMAIN x.c \ removed
         /\ \A p \in DOMAIN cache' : cache'[p] = EntriesOf(x)[p]
<1>1. PICK e : e = EntriesOf(x)
  OBVIOUS
<1>2. DOMAIN e = DOMAIN x.c
  BY <1>1, EntriesIs
<1>3. cache' = Without(e, removed)
  BY <1>1 DEF Deployed
<1>4. DOMAIN Without(e, removed) = DOMAIN e \ removed
      /\ \A p \in DOMAIN e \ removed : Without(e, removed)[p] = e[p]
  BY WithoutIs, Zenon
<1> QED BY <1>1, <1>2, <1>3, <1>4

\* A pass preserves what the variables hold.
LEMMA PassKeepsShapes ==
  ASSUME PeeringAssumption, PeeringInv, NEW x, IsPass(x),
         NEW cut, NEW done, NEW removed, NEW ok \in BOOLEAN,
         Deployed(x, cut, done, removed, ok),
         loops' = x.leased, myDerp' \in Regions,
         faults' \in 0 .. MaxFaults, UNCHANGED network
  PROVE  PeeringTypeOK' /\ Shapes' /\ RelayedPlain(cache')
<1>1. /\ DOMAIN x.c \subseteq Peers /\ RelayedPlain(x.c) /\ LoopsOK(x.leased)
  BY PassIs
<1>2. /\ DOMAIN cache' = DOMAIN x.c \ removed
      /\ \A p \in DOMAIN cache' : cache'[p] = EntriesOf(x)[p]
  BY CacheIs
<1>3. /\ \A p \in DOMAIN x.c :
           /\ EntryOK(p, EntriesOf(x)[p]) /\ EntriesOf(x)[p].dev = x.c[p].dev
           /\ p \in Updated(x) => EntriesOf(x)[p].method = MethodOf(x, p)
           /\ p \notin Updated(x) => EntriesOf(x)[p] = x.c[p]
  BY EntriesIs
<1>4. /\ DOMAIN PeersOf(x) \subseteq Peers
      /\ \A p \in DOMAIN PeersOf(x) : PeersOf(x)[p] \in Configs
  BY PeersIs
<1> DEFINE set == {q \in done : PeersOf(x)[q].to # <<>>}
<1>5. /\ DOMAIN tunnel' = ((DOMAIN tunnel \ cut) \cup set) \ removed
      /\ \A p \in DOMAIN tunnel' :
           tunnel'[p] = IF p \in set THEN PeersOf(x)[p] ELSE tunnel[p]
  BY TunnelIs
<1>6. DOMAIN cache' \subseteq Peers /\ \A p \in DOMAIN cache' : EntryOK(p, cache'[p])
  BY <1>1, <1>2, <1>3
<1>7. OfPeers(config', Configs)
  <2>1. config' = IF ok THEN PeersOf(x) ELSE No
    BY DEF Deployed
  <2>2. DOMAIN No = {}
    BY DEF No
  <2>3. CASE ok
    BY <2>1, <2>3, <1>4 DEF OfPeers
  <2>4. CASE ~ ok
    BY <2>1, <2>2, <2>4 DEF OfPeers
  <2> QED BY <2>3, <2>4
<1>8. \A q \in set : q \in DOMAIN PeersOf(x) /\ PeersOf(x)[q].to # <<>>
  BY DEF Deployed
<1>9. /\ DOMAIN tunnel' \subseteq Peers
      /\ \A p \in DOMAIN tunnel' : tunnel'[p] \in Configs /\ tunnel'[p].to # <<>>
  <2>1. /\ DOMAIN tunnel \subseteq Peers
        /\ \A p \in DOMAIN tunnel : tunnel[p] \in Configs /\ tunnel[p].to # <<>>
    BY DEF PeeringInv, PeeringTypeOK, Shapes, OfPeers
  <2> HIDE DEF set
  <2> QED BY <1>4, <1>5, <1>8, <2>1
<1>10. shaken' \subseteq DOMAIN tunnel'
  <2>1. shaken' = shaken \ (cut \cup removed) /\ shaken \subseteq DOMAIN tunnel
    BY DEF Deployed, PeeringInv, PeeringTypeOK
  <2> HIDE DEF set
  <2> QED BY <1>5, <2>1
<1>11. LoopsOK(loops')
  BY <1>1
<1>12. /\ self' \in Selves /\ near' \in SUBSET Peers /\ changes' \in 0 .. MaxChanges
       /\ \A p \in Peers : devices'[p] # Gone => devices'[p].is \in DeviceKinds[p]
       /\ devices' \in [Peers -> Device \cup {Gone}]
  BY DEF PeeringInv, PeeringTypeOK, Shapes, network
<1>13. \A p \in DOMAIN cache' :
         /\ cache'[p].method \in None .. ViaDerp
         /\ {cache'[p].tried, cache'[p].healthyAt} \subseteq {"zero", "fresh", "old"}
         /\ cache'[p].healthy => cache'[p].healthyAt # "zero"
  BY <1>6 DEF EntryOK, Entry, Ages
<1>14. RelayedPlain(cache')
  <2> SUFFICES ASSUME NEW p \in DOMAIN cache', cache'[p].method = ViaRelay
               PROVE  cache'[p].dev.is.relay = "no"
    BY DEF RelayedPlain
  <2>1. p \in DOMAIN x.c /\ cache'[p].dev = x.c[p].dev
    BY <1>2, <1>3
  <2>2. CASE p \in Updated(x)
    <3>1. MethodOf(x, p) = ViaRelay
      BY <1>2, <1>3, <2>1, <2>2
    <3> QED BY <2>1, <3>1, MethodIs
  <2>3. CASE p \notin Updated(x)
    <3>1. x.c[p].method = ViaRelay
      BY <1>2, <1>3, <2>1, <2>3
    <3> QED BY <1>1, <2>1, <3>1 DEF RelayedPlain
  <2> QED BY <2>2, <2>3
<1>15. PeeringTypeOK'
  <2>1. \A p \in DOMAIN config' : config'[p] \in Configs
    BY <1>7 DEF OfPeers
  <2>2. DOMAIN loops'.mapping \subseteq 1 .. Octets /\ loops'.last \in 1 .. Octets
    BY <1>11 DEF LoopsOK
  <2> QED BY <1>9, <1>10, <1>12, <1>13, <2>1, <2>2 DEF PeeringTypeOK
<1>16. Shapes'
  <2>1. OfPeers(tunnel', Configs)
    BY <1>9 DEF OfPeers
  <2> QED BY <1>6, <1>7, <1>11, <1>12, <2>1 DEF Shapes
<1> QED BY <1>14, <1>15, <1>16

\* A pass hands out no loopback address twice, and keeps those it handed out.
LEMMA PassKeepsLoops ==
  ASSUME PeeringAssumption, PeeringInv, NEW x, IsPass(x),
         NEW cut, NEW done, NEW removed, NEW ok \in BOOLEAN,
         Deployed(x, cut, done, removed, ok), loops' = x.leased
  PROVE  LoopsLeased(config', loops') /\ LoopsLeased(tunnel', loops')
<1> DEFINE l == x.leased
           fine(to, p) == to # <<>> /\ to[1] = "loop"
                            => to[2] \in DOMAIN l.mapping /\ l.mapping[to[2]] = p
<1>1. \A p \in DOMAIN x.c : fine(Made(x, p).to, p)
  BY MadeIs
<1>2. Grown(loops, l)
  BY PassIs
<1>3. \A p \in DOMAIN config : fine(config[p].to, p)
  <2> HIDE DEF l
  <2> QED BY <1>2 DEF PeeringInv, LoopsLeased, Grown
<1>4. \A p \in DOMAIN tunnel : fine(tunnel[p].to, p)
  <2> HIDE DEF l
  <2> QED BY <1>2 DEF PeeringInv, LoopsLeased, Grown
<1>5. \A p \in DOMAIN PeersOf(x) :
        \/ PeersOf(x)[p].to = <<>>
        \/ p \in Updated(x) /\ PeersOf(x)[p].to = Made(x, p).to
        \/ p \in DOMAIN config /\ PeersOf(x)[p].to = config[p].to
  BY PeersIs
<1>6. Updated(x) \subseteq DOMAIN x.c
  BY StoredIs
<1>7. \A p \in DOMAIN PeersOf(x) : fine(PeersOf(x)[p].to, p)
  BY <1>1, <1>3, <1>5, <1>6
<1>8. LoopsLeased(config', loops')
  <2>1. config' = IF ok THEN PeersOf(x) ELSE No
    BY DEF Deployed
  <2>2. DOMAIN No = {}
    BY DEF No
  <2>3. CASE ok
    BY <2>1, <2>3, <1>7 DEF LoopsLeased
  <2>4. CASE ~ ok
    BY <2>1, <2>2, <2>4 DEF LoopsLeased
  <2> QED BY <2>3, <2>4
<1>9. LoopsLeased(tunnel', loops')
  <2> DEFINE set == {q \in done : PeersOf(x)[q].to # <<>>}
  <2>1. /\ DOMAIN tunnel' = ((DOMAIN tunnel \ cut) \cup set) \ removed
        /\ \A p \in DOMAIN tunnel' :
             tunnel'[p] = IF p \in set THEN PeersOf(x)[p] ELSE tunnel[p]
    BY TunnelIs
  <2>2. set \subseteq DOMAIN PeersOf(x)
    BY DEF Deployed
  <2> HIDE DEF set
  <2>3. \A p \in DOMAIN tunnel' : fine(tunnel'[p].to, p)
    BY <2>1, <2>2, <1>4, <1>7
  <2> QED BY <2>3 DEF LoopsLeased
<1> QED BY <1>8, <1>9

\* A pass keeps the record of the interface true: a peer that was updated is deployed
\* or the record is forgotten, and one that was not was on the interface already.
LEMMA PassKeepsTrue ==
  ASSUME PeeringAssumption, PeeringInv, NEW x, IsPass(x),
         NEW cut, NEW done, NEW removed, NEW ok \in BOOLEAN,
         Deployed(x, cut, done, removed, ok)
  PROVE  ConfigIsTrue'
<1>1. /\ DOMAIN cache' = DOMAIN x.c \ removed
      /\ \A p \in DOMAIN cache' : cache'[p] = EntriesOf(x)[p]
  BY CacheIs
<1>2. /\ \A p \in DOMAIN x.c :
           /\ p \in Updated(x) => EntriesOf(x)[p].method = MethodOf(x, p)
           /\ p \notin Updated(x) => EntriesOf(x)[p] = x.c[p]
  BY EntriesIs
<1>3. /\ Relayed(x) \cap DOMAIN PeersOf(x) = {}
      /\ \A p \in DOMAIN PeersOf(x) :
           \/ PeersOf(x)[p].to = <<>>
           \/ p \in Updated(x)
           \/ p \in DOMAIN config \ Updated(x) /\ PeersOf(x)[p].to = config[p].to
  BY PeersIs
<1>4. \A p \in DOMAIN x.c :
        \/ x.c[p].method = None
        \/ p \in DOMAIN cache /\ x.c[p].method = cache[p].method
  BY PassIs
<1>5. config' = IF ok THEN PeersOf(x) ELSE No
  BY DEF Deployed
<1>6. DOMAIN No = {}
  BY DEF No
<1>7. ASSUME NEW p \in DOMAIN cache' \cap DOMAIN config',
             cache'[p].method # None, config'[p].to # <<>>
      PROVE  p \in DOMAIN tunnel' /\ tunnel'[p].to = config'[p].to
  <2> DEFINE set == {q \in done : PeersOf(x)[q].to # <<>>}
  <2>1. /\ DOMAIN tunnel' = ((DOMAIN tunnel \ cut) \cup set) \ removed
        /\ \A q \in DOMAIN tunnel' :
             tunnel'[q] = IF q \in set THEN PeersOf(x)[q] ELSE tunnel[q]
    BY TunnelIs
  <2>2. ok /\ config' = PeersOf(x)
    BY <1>5, <1>6, <1>7
  <2>3. /\ done = Updated(x) \cap DOMAIN PeersOf(x)
        /\ cut \subseteq Relayed(x) /\ Relayed(x) \subseteq Updated(x)
    BY <2>2, StoredIs DEF Deployed
  <2>4. p \in DOMAIN x.c /\ p \notin removed /\ p \in DOMAIN PeersOf(x)
    BY <1>1, <1>7, <2>2
  <2>5. CASE p \in Updated(x)
    <3>1. p \in set
      BY <2>2, <2>3, <2>4, <2>5, <1>7
    <3> HIDE DEF set
    <3> QED BY <2>1, <2>2, <2>4, <3>1
  <2>6. CASE p \notin Updated(x)
    <3>1. x.c[p].method # None
      BY <1>1, <1>2, <1>7, <2>4, <2>6
    <3>2. p \in DOMAIN cache /\ cache[p].method # None
      BY <1>4, <2>4, <3>1
    <3>3. p \in DOMAIN config /\ PeersOf(x)[p].to = config[p].to
      BY <1>3, <1>7, <2>2, <2>4, <2>6
    <3>4. p \in DOMAIN tunnel /\ tunnel[p].to = config[p].to
      BY <1>7, <2>2, <3>2, <3>3 DEF PeeringInv, ConfigIsTrue
    <3>5. p \notin set /\ p \notin cut
      BY <2>3, <2>6
    <3> HIDE DEF set
    <3> QED BY <2>1, <2>2, <2>4, <3>3, <3>4, <3>5
  <2> QED BY <2>5, <2>6
<1>8. ASSUME NEW p \in DOMAIN cache', cache'[p].method = ViaRelay
      PROVE  p \notin DOMAIN config'
  <2> SUFFICES ASSUME p \in DOMAIN config' PROVE FALSE
    OBVIOUS
  <2>1. config' = PeersOf(x) /\ p \in DOMAIN x.c
    BY <1>1, <1>5, <1>6, <1>8
  <2>2. CASE p \in Updated(x)
    <3>1. p \in Relayed(x)
      BY <1>1, <1>2, <1>8, <2>1, <2>2 DEF Relayed
    <3> QED BY <1>3, <2>1, <3>1
  <2>3. CASE p \notin Updated(x)
    <3>1. x.c[p].method = ViaRelay
      BY <1>1, <1>2, <1>8, <2>1, <2>3
    <3>2. p \in DOMAIN cache /\ cache[p].method = ViaRelay
      BY <1>4, <2>1, <3>1 DEF None, ViaRelay
    <3>3. p \notin DOMAIN config
      BY <3>2 DEF PeeringInv, ConfigIsTrue
    <3> QED BY <2>1, <2>3, <3>3, StoredIs
  <2> QED BY <2>2, <2>3
<1> QED BY <1>7, <1>8 DEF ConfigIsTrue

\* A pass preserves the invariant.
LEMMA ReconcileKeeps ==
  ASSUME PeeringAssumption, PeeringInv, NEW fault \in BOOLEAN, Reconcile(fault)
  PROVE  PeeringInv'
<1>1. PICK x, cut, done, removed :
        \E ok \in BOOLEAN :
          /\ IsPass(x) /\ Deployed(x, cut, done, removed, ok) /\ loops' = x.leased
          /\ myDerp' = Region(x.c, x.r)
  BY ReconcileIs
<1>2. PICK ok \in BOOLEAN :
        /\ IsPass(x) /\ Deployed(x, cut, done, removed, ok) /\ loops' = x.leased
        /\ myDerp' = Region(x.c, x.r)
  BY <1>1
<1>3. UNCHANGED network
  BY DEF Reconcile
<1>4. faults' \in 0 .. MaxFaults
  <2>1. faults \in 0 .. MaxFaults /\ MaxFaults \in Nat
    BY DEF PeeringInv, PeeringTypeOK, PeeringAssumption
  <2>2. /\ fault => faults < MaxFaults
        /\ faults' = IF fault THEN faults + 1 ELSE faults
    BY DEF Reconcile
  <2> QED BY <2>1, <2>2
<1>8. myDerp' \in Regions
  BY <1>2, RegionIs
<1>5. PeeringTypeOK' /\ Shapes' /\ RelayedPlain(cache')
  BY <1>2, <1>3, <1>4, <1>8, PassKeepsShapes
<1>6. LoopsLeased(config', loops') /\ LoopsLeased(tunnel', loops')
  BY <1>2, PassKeepsLoops
<1>7. ConfigIsTrue'
  BY <1>2, PassKeepsTrue
<1> QED BY <1>5, <1>6, <1>7 DEF PeeringInv

-----------------------------------------------------------------------------
\* The devices and the network are no part of the agent's state.
LEMMA ChangeKeeps ==
  ASSUME PeeringAssumption, PeeringInv, Changing, UNCHANGED <<self, agent>>,
         near' \in SUBSET Peers, devices' \in [Peers -> Device \cup {Gone}],
         \A p \in Peers : devices'[p] # Gone => devices'[p].is \in DeviceKinds[p]
  PROVE  PeeringInv'
<1>1. changes' \in 0 .. MaxChanges
  BY DEF Changing, PeeringInv, PeeringTypeOK, PeeringAssumption
<1>2. PeeringTypeOK'
  BY <1>1 DEF PeeringInv, PeeringTypeOK, agent
<1>3. Shapes'
  BY DEF PeeringInv, Shapes, agent
<1>4. ConfigIsTrue' /\ RelayedPlain(cache')
  BY DEF PeeringInv, ConfigIsTrue, agent
<1>5. LoopsLeased(config', loops') /\ LoopsLeased(tunnel', loops')
  BY DEF PeeringInv, agent
<1> QED BY <1>2, <1>3, <1>4, <1>5 DEF PeeringInv

\* A device registers.
LEMMA RegisterKeeps ==
  ASSUME PeeringAssumption, PeeringInv, NEW p \in Peers, Register(p)
  PROVE  PeeringInv'
<1>1. PICK k \in DeviceKinds[p] : devices' = [devices EXCEPT ![p] = [id |-> changes', is |-> k]]
  BY DEF Register
<1>2. changes' \in Nat
  BY DEF Register, Changing, PeeringInv, PeeringTypeOK
<1>3. PICK d : d = [id |-> changes', is |-> k]
  OBVIOUS
<1>4. d \in Device /\ d.is \in DeviceKinds[p]
  BY <1>2, <1>3 DEF Device
<1>5. devices' = [devices EXCEPT ![p] = d]
  BY <1>1, <1>3
<1>6. devices' \in [Peers -> Device \cup {Gone}]
      /\ \A q \in Peers : devices'[q] # Gone => devices'[q].is \in DeviceKinds[q]
  BY <1>4, <1>5 DEF PeeringInv, PeeringTypeOK, Shapes
<1> QED BY <1>6, ChangeKeeps DEF Register, PeeringInv, PeeringTypeOK

\* A device is updated: it keeps its id.
LEMMA UpdateKeeps ==
  ASSUME PeeringAssumption, PeeringInv, NEW p \in Peers, Update(p)
  PROVE  PeeringInv'
<1>1. PICK k \in DeviceKinds[p] : devices' = [devices EXCEPT ![p].is = k]
  BY DEF Update
<1>2. devices[p] \in Device
  BY DEF Update, PeeringInv, Shapes
<1>3. PICK d : d = [devices[p] EXCEPT !.is = k]
  OBVIOUS
<1>4. d \in Device /\ d.is \in DeviceKinds[p]
  BY <1>2, <1>3 DEF Device
<1>5. devices' = [devices EXCEPT ![p] = d]
  BY <1>1, <1>3 DEF PeeringInv, Shapes
<1>6. devices' \in [Peers -> Device \cup {Gone}]
      /\ \A q \in Peers : devices'[q] # Gone => devices'[q].is \in DeviceKinds[q]
  BY <1>4, <1>5 DEF PeeringInv, PeeringTypeOK, Shapes
<1> QED BY <1>6, ChangeKeeps DEF Update, PeeringInv, PeeringTypeOK

\* A device is deleted, our address or the way to a peer changes.
LEMMA NetworkKeeps ==
  ASSUME PeeringAssumption, PeeringInv,
         \/ \E p \in Peers : Delete(p) \/ Reroute(p)
         \/ Rebind
  PROVE  PeeringInv'
<1>1. CASE \E p \in Peers : Delete(p)
  <2>1. PICK p \in Peers : Delete(p)
    BY <1>1
  <2>2. devices' \in [Peers -> Device \cup {Gone}]
        /\ \A q \in Peers : devices'[q] # Gone => devices'[q].is \in DeviceKinds[q]
    BY <2>1 DEF Delete, PeeringInv, PeeringTypeOK, Shapes
  <2> QED BY <2>1, <2>2, ChangeKeeps DEF Delete, PeeringInv, PeeringTypeOK
<1>2. CASE \E p \in Peers : Reroute(p)
  <2>1. PICK p \in Peers : Reroute(p)
    BY <1>2
  <2> QED BY <2>1, ChangeKeeps DEF Reroute, PeeringInv, PeeringTypeOK, Shapes
<1>3. CASE Rebind
  BY <1>3, ChangeKeeps DEF Rebind, PeeringInv, PeeringTypeOK, Shapes
<1> QED BY <1>1, <1>2, <1>3

\* A handshake is with a peer of the interface; that it lapses changes nothing else.
LEMMA HandshakeKeeps ==
  ASSUME PeeringInv, NEW p \in Peers, Handshake(p) \/ Lapse(p)
  PROVE  PeeringInv'
<1>1. UNCHANGED <<network, due, cache, config, tunnel, loops, myDerp, faults>>
  BY DEF Handshake, Lapse
<1>2. shaken' \subseteq DOMAIN tunnel
  BY DEF Handshake, Lapse, Reaches, PeeringInv, PeeringTypeOK
<1>3. PeeringTypeOK'
  BY <1>1, <1>2 DEF PeeringInv, PeeringTypeOK, network
<1>4. Shapes'
  BY <1>1 DEF PeeringInv, Shapes, network
<1>5. ConfigIsTrue' /\ RelayedPlain(cache')
  BY <1>1 DEF PeeringInv, ConfigIsTrue
<1> QED BY <1>1, <1>3, <1>4, <1>5 DEF PeeringInv

\* A time stamp grows old: the entry keeps its device and its method.
LEMMA TimeoutIs ==
  ASSUME PeeringInv, NEW p \in Peers, TryTimeout(p) \/ RestoreTimeout(p)
  PROVE  /\ DOMAIN cache' = DOMAIN cache
         /\ \A q \in DOMAIN cache :
              /\ EntryOK(q, cache'[q])
              /\ cache'[q].method = cache[q].method /\ cache'[q].dev = cache[q].dev
         /\ UNCHANGED <<network, due, config, tunnel, shaken, loops, myDerp, faults>>
<1>1. UNCHANGED <<network, due, config, tunnel, shaken, loops, myDerp, faults>> /\ p \in DOMAIN cache
  BY DEF TryTimeout, RestoreTimeout
<1>2. PICK e : /\ cache' = [cache EXCEPT ![p] = e]
               /\ \/ e = [cache[p] EXCEPT !.tried = "old"]
                  \/ e = [cache[p] EXCEPT !.healthyAt = "old"]
  <2>1. CASE cache' = [cache EXCEPT ![p].tried = "old"]
    BY <2>1
  <2>2. CASE cache' = [cache EXCEPT ![p].healthyAt = "old"]
    BY <2>2
  <2> QED BY <2>1, <2>2 DEF TryTimeout, RestoreTimeout
<1>3. PICK b : b = cache[p]
  OBVIOUS
<1>4. EntryOK(p, b)
  BY <1>1, <1>3 DEF PeeringInv, Shapes
<1>5. EntryOK(p, e) /\ e.method = b.method /\ e.dev = b.dev
  BY <1>2, <1>3, <1>4 DEF EntryOK, Entry, Ages
<1>6. /\ DOMAIN cache' = DOMAIN cache
      /\ \A q \in DOMAIN cache :
           /\ EntryOK(q, cache'[q])
           /\ cache'[q].method = cache[q].method /\ cache'[q].dev = cache[q].dev
  BY <1>1, <1>2, <1>3, <1>5 DEF PeeringInv, Shapes
<1> QED BY <1>1, <1>6

\* It preserves the invariant.
LEMMA TimeoutKeeps ==
  ASSUME PeeringInv, NEW p \in Peers, TryTimeout(p) \/ RestoreTimeout(p)
  PROVE  PeeringInv'
<1>1. UNCHANGED <<network, due, config, tunnel, shaken, loops, myDerp, faults>>
  BY TimeoutIs
<1>2. /\ DOMAIN cache' = DOMAIN cache
      /\ \A q \in DOMAIN cache :
           /\ EntryOK(q, cache'[q])
           /\ cache'[q].method = cache[q].method /\ cache'[q].dev = cache[q].dev
  BY TimeoutIs
<1>3. PeeringTypeOK'
  <2>1. \A q \in DOMAIN cache' :
          /\ cache'[q].method \in None .. ViaDerp
          /\ {cache'[q].tried, cache'[q].healthyAt} \subseteq {"zero", "fresh", "old"}
          /\ cache'[q].healthy => cache'[q].healthyAt # "zero"
    BY <1>2 DEF EntryOK, Entry, Ages
  <2> QED BY <1>1, <2>1 DEF PeeringInv, PeeringTypeOK, network
<1>4. Shapes'
  BY <1>1, <1>2 DEF PeeringInv, Shapes, network
<1>5. ConfigIsTrue'
  BY <1>1, <1>2 DEF PeeringInv, ConfigIsTrue
<1>6. RelayedPlain(cache')
  BY <1>2 DEF PeeringInv, RelayedPlain
<1> QED BY <1>1, <1>3, <1>4, <1>5, <1>6 DEF PeeringInv

\* The ticker, and a step that changes nothing.
LEMMA TickKeeps ==
  ASSUME PeeringInv, Tick \/ UNCHANGED peeringVars
  PROVE  PeeringInv'
<1>1. UNCHANGED <<network, agent>>
  BY DEF Tick, peeringVars, network, agent
<1>2. PeeringTypeOK'
  BY <1>1 DEF PeeringInv, PeeringTypeOK, agent, network
<1>3. Shapes'
  BY <1>1 DEF PeeringInv, Shapes, agent, network
<1>4. ConfigIsTrue' /\ RelayedPlain(cache')
  BY <1>1 DEF PeeringInv, ConfigIsTrue, agent
<1>5. LoopsLeased(config', loops') /\ LoopsLeased(tunnel', loops')
  BY <1>1 DEF PeeringInv, agent
<1> QED BY <1>2, <1>3, <1>4, <1>5 DEF PeeringInv

\* An agent that starts has configured nothing.
LEMMA PeeringStarts ==
  ASSUME PeeringAssumption, PeeringInit
  PROVE  PeeringInv
<1>1. DOMAIN No = {}
  BY DEF No
<1>2. cache = No /\ config = No /\ tunnel = No /\ shaken = {}
  BY DEF PeeringInit
<1>3. LoopsOK(loops) /\ 1 \in 1 .. Octets
  <2>1. loops.mapping = No /\ loops.last = 1
    BY DEF PeeringInit
  <2> QED BY <1>1, <2>1 DEF LoopsOK, PeeringAssumption
<1>4. /\ devices \in [Peers -> Device \cup {Gone}]
      /\ \A p \in Peers : devices[p] # Gone => devices[p].is \in DeviceKinds[p]
  <2> DEFINE first == [id : {0}, is : UNION {DeviceKinds[p] : p \in Peers}]
  <2>1. first \subseteq Device
    BY DEF Device
  <2>2. /\ devices \in [Peers -> {Gone} \cup first]
        /\ \A p \in Peers : devices[p] # Gone => devices[p].is \in DeviceKinds[p]
    BY DEF PeeringInit
  <2> HIDE DEF first
  <2> QED BY <2>1, <2>2
<1>5. PeeringTypeOK
  BY <1>1, <1>2, <1>3, <1>4
     DEF PeeringInit, PeeringTypeOK, PeeringAssumption, LoopsOK, Regions
<1>6. Shapes
  BY <1>1, <1>2, <1>3, <1>4 DEF Shapes, OfPeers
<1>7. ConfigIsTrue /\ RelayedPlain(cache)
  BY <1>1, <1>2 DEF ConfigIsTrue, RelayedPlain
<1>8. LoopsLeased(config, loops) /\ LoopsLeased(tunnel, loops)
  BY <1>1, <1>2 DEF LoopsLeased
<1> QED BY <1>5, <1>6, <1>7, <1>8 DEF PeeringInv

\* The invariant holds in every state of an agent.
THEOREM PeeringInvariance == PeeringSpec => []PeeringInv
<1>1. PeeringInit => PeeringInv
  BY PeeringAssumption, PeeringStarts
<1>2. PeeringInv /\ [PeeringNext]_peeringVars => PeeringInv'
  <2> SUFFICES ASSUME PeeringInv, [PeeringNext]_peeringVars PROVE PeeringInv'
    OBVIOUS
  <2>1. CASE \E f \in BOOLEAN : Reconcile(f)
    BY <2>1, PeeringAssumption, ReconcileKeeps
  <2>2. CASE \E p \in Peers : Register(p)
    BY <2>2, PeeringAssumption, RegisterKeeps
  <2>3. CASE \E p \in Peers : Update(p)
    BY <2>3, PeeringAssumption, UpdateKeeps
  <2>4. CASE (\E p \in Peers : Delete(p) \/ Reroute(p)) \/ Rebind
    BY <2>4, PeeringAssumption, NetworkKeeps
  <2>5. CASE \E p \in Peers : Handshake(p) \/ Lapse(p)
    BY <2>5, HandshakeKeeps
  <2>6. CASE \E p \in Peers : TryTimeout(p) \/ RestoreTimeout(p)
    BY <2>6, TimeoutKeeps
  <2>7. CASE Tick \/ UNCHANGED peeringVars
    BY <2>7, TickKeeps
  <2> QED BY <2>1, <2>2, <2>3, <2>4, <2>5, <2>6, <2>7 DEF PeeringNext
<1> QED BY <1>1, <1>2, PTL DEF PeeringSpec

-----------------------------------------------------------------------------
(* The types, TLC run `peering'. *)
THEOREM PeeringTypeCorrect == PeeringSpec => []PeeringTypeOK
<1>1. PeeringInv => PeeringTypeOK
  BY DEF PeeringInv
<1> QED BY <1>1, PeeringInvariance, PTL

(* The agent's record of the WireGuard interface can be trusted, whatever   *)
(* failed in whichever pass: a peer with a direct method and an endpoint is *)
(* on the interface at that endpoint, and a peer behind the relay is not in *)
(* the record.                                                              *)
THEOREM ConfigTrue == PeeringSpec => []ConfigIsTrue
<1>1. PeeringInv => ConfigIsTrue
  BY DEF PeeringInv
<1> QED BY <1>1, PeeringInvariance, PTL

(* No two peers of the interface share a loopback address, and no key is    *)
(* leased two: the DERP proxy tells its peers apart by them.                *)
THEOREM OneLoopback == PeeringSpec => []LoopbackOfOne
<1>1. PeeringInv => LoopbackOfOne
  <2>0. ASSUME PeeringInv PROVE \A p \in Peers : \A a, b \in LoopOf(loops, p) : a = b
    BY <2>0 DEF PeeringInv, Shapes, LoopsOK, LoopOf
  <2> SUFFICES ASSUME PeeringInv, NEW p \in DOMAIN tunnel, NEW q \in DOMAIN tunnel,
                      tunnel[p].to[1] = "loop", tunnel[q].to[1] = "loop",
                      tunnel[p].to[2] = tunnel[q].to[2]
               PROVE  p = q
    BY <2>0 DEF LoopbackOfOne
  <2>1. tunnel[p].to # <<>> /\ tunnel[q].to # <<>> /\ LoopsLeased(tunnel, loops)
    BY DEF PeeringInv, PeeringTypeOK
  <2> QED BY <2>1 DEF LoopsLeased
<1> QED BY <1>1, PeeringInvariance, PTL

-----------------------------------------------------------------------------
\* A peer's endpoint on the interface does not change when more addresses are leased.
LEMMA BuildStays ==
  ASSUME NEW i, NEW p \in Peers, NEW d, NEW l, NEW m, Grown(l, m),
         NEW y, Build(i, p, d, l, y).to # <<>>, NEW z
  PROVE  Build(i, p, d, m, z) = Build(i, p, d, l, z)
<1>1. CASE i = ViaDerp
  <2>1. LoopOf(l, p) # {}
    BY <1>1 DEF Build, Empty
  <2>2. LoopOf(m, p) = LoopOf(l, p)
    BY <2>1 DEF Grown
  <2> QED BY <2>2 DEF Build
<1>2. CASE i # ViaDerp
  BY <1>2 DEF Build
<1> QED BY <1>1, <1>2

\* A pass leaves a peer with handshakes on its method and its endpoint.
LEMMA PassSpares ==
  ASSUME PeeringAssumption, PeeringInv, NEW x, IsPass(x),
         NEW cut, NEW done, NEW removed, NEW ok \in BOOLEAN,
         Deployed(x, cut, done, removed, ok), myDerp' = Region(x.c, x.r),
         NEW p \in DOMAIN cache \cap DOMAIN cache'
  PROVE  /\ cache[p].dev = cache'[p].dev /\ cache'[p].healthy
         /\ cache[p].method \in Direct(p, cache[p].dev.is)
         /\ p \in DOMAIN tunnel
         /\ \E z \in Regions : tunnel[p].to = EndpointOf(p, z)
         => /\ cache'[p].method = cache[p].method
            /\ p \in DOMAIN tunnel'
            /\ tunnel'[p].to \in {tunnel[p].to, EndpointOf(p, myDerp')}
<1> DEFINE set == {q \in done : PeersOf(x)[q].to # <<>>}
<1>9. /\ DOMAIN tunnel' = ((DOMAIN tunnel \ cut) \cup set) \ removed
      /\ \A q \in DOMAIN tunnel' :
           tunnel'[q] = IF q \in set THEN PeersOf(x)[q] ELSE tunnel[q]
  BY TunnelIs
<1>a. /\ DOMAIN cache' = DOMAIN x.c \ removed
      /\ \A q \in DOMAIN cache' : cache'[q] = EntriesOf(x)[q]
  BY CacheIs
<1> SUFFICES ASSUME cache[p].dev = cache'[p].dev, cache'[p].healthy,
                    cache[p].method \in Direct(p, cache[p].dev.is),
                    p \in DOMAIN tunnel,
                    \E z \in Regions : tunnel[p].to = EndpointOf(p, z)
             PROVE  /\ cache'[p].method = cache[p].method
                    /\ p \in DOMAIN tunnel'
                    /\ tunnel'[p].to \in {tunnel[p].to, EndpointOf(p, myDerp')}
  OBVIOUS
<1> DEFINE m == cache[p].method
           d == cache[p].dev.is
           y == x.choice[p]
<1>0. PICK z \in Regions : tunnel[p].to = EndpointOf(p, z)
  OBVIOUS
<1>b. PICK w : w = myDerp'
  OBVIOUS
<1>1. p \in DOMAIN x.c /\ p \notin removed /\ cache'[p] = EntriesOf(x)[p]
  BY <1>a
<1>2. x.c[p].healthy
  BY <1>1, EntriesIs
<1>3. x.c[p].method = m /\ x.c[p].dev = cache[p].dev /\ p \in Peers
  BY <1>1, <1>2, PassIs
<1>4. y.entry = x.c[p] /\ y.build \in {None, m}
  BY <1>1, <1>2, <1>3, DecisionIs
<1>5. m \in 0 .. ViaDerp /\ m # ViaRelay
  <2>1. Direct(p, d) \subseteq 0 .. ViaDerp /\ ViaRelay \notin Direct(p, d)
    <3> HIDE DEF d
    <3> QED BY AvailableIs
  <2> QED BY <2>1
<1>6. MethodOf(x, p) = m
  BY <1>3, <1>4 DEF MethodOf
<1>7. cache'[p].method = m
  BY <1>1, <1>3, <1>6, EntriesIs
<1>8. p \notin cut /\ done \subseteq Updated(x) \cap DOMAIN PeersOf(x)
  BY <1>5, <1>6 DEF Deployed, Relayed
<1>10. p \in DOMAIN tunnel'
  <2> HIDE DEF set
  <2> QED BY <1>1, <1>8, <1>9
<1>11. ASSUME p \in set PROVE PeersOf(x)[p].to = EndpointOf(p, w)
  <2>1. p \in Updated(x) /\ p \in DOMAIN PeersOf(x) /\ PeersOf(x)[p].to # <<>>
    BY <1>8, <1>11
  <2>2. PeersOf(x)[p].to = Made(x, p).to
    BY <2>1, PeersIs
  <2>3. Made(x, p) # Empty
    BY <2>1, <2>2 DEF Empty
  <2>4. ~ (p \in DOMAIN config /\ Made(x, p) = config[p])
    BY <2>1 DEF Updated
  <2>5. y.build = m /\ Made(x, p) = Build(m, p, d, x.leased, w)
    BY <1>3, <1>4, <1>b, <2>3, <2>4 DEF Made
  <2>6. Build(m, p, d, loops, z).to # <<>>
    BY <1>0 DEF PeeringInv, PeeringTypeOK, EndpointOf
  <2>7. Grown(loops, x.leased)
    BY PassIs
  <2> HIDE DEF m, d
  <2>8. Build(m, p, d, x.leased, w) = Build(m, p, d, loops, w)
    BY <1>3, <2>6, <2>7, BuildStays
  <2> QED BY <2>2, <2>5, <2>8 DEF m, d, EndpointOf
<1>12. tunnel'[p].to \in {tunnel[p].to, EndpointOf(p, w)}
  <2> HIDE DEF set
  <2> QED BY <1>9, <1>10, <1>11
<1> QED BY <1>7, <1>10, <1>12, <1>b

(* A pass leaves a peer alone that has handshakes, whatever happens to the  *)
(* other peers, to the relay and to the deployment: it keeps its method and *)
(* its endpoint, but for the port of one behind DERP, which follows the     *)
(* region in use.                                                           *)
THEOREM KeepsMethod == PeeringSpec => HealthyKeepsMethod
<1> DEFINE kept(p) == /\ cache'[p].method = cache[p].method
                      /\ p \in DOMAIN tunnel'
                      /\ tunnel'[p].to \in {tunnel[p].to, EndpointOf(p, myDerp')}
           spared(p) ==
             /\ cache[p].dev = cache'[p].dev /\ cache'[p].healthy
             /\ cache[p].method \in Available(p, cache[p].dev.is, FALSE, FALSE)
             /\ p \in DOMAIN tunnel
             /\ \E derp \in Regions : tunnel[p].to = EndpointOf(p, derp)
             => kept(p)
<1>1. PeeringInv /\ [PeeringNext]_peeringVars
        => [\A p \in DOMAIN cache \cap DOMAIN cache' : spared(p)]_peeringVars
  <2> SUFFICES ASSUME PeeringInv, PeeringNext, NEW p \in DOMAIN cache \cap DOMAIN cache'
               PROVE  spared(p)
    OBVIOUS
  <2>1. CASE \E f \in BOOLEAN : Reconcile(f)
    <3>1. PICK f \in BOOLEAN : Reconcile(f)
      BY <2>1
    <3>2. PICK x, cut, done, removed :
            \E ok \in BOOLEAN :
              /\ IsPass(x) /\ Deployed(x, cut, done, removed, ok) /\ loops' = x.leased
              /\ myDerp' = Region(x.c, x.r)
      BY <3>1, ReconcileIs
    <3>3. PICK ok \in BOOLEAN : /\ IsPass(x) /\ Deployed(x, cut, done, removed, ok)
                                /\ myDerp' = Region(x.c, x.r)
      BY <3>2
    <3> QED BY <3>3, PeeringAssumption, PassSpares DEF Direct
  <2>2. CASE \E q \in Peers : TryTimeout(q) \/ RestoreTimeout(q)
    <3>1. PICK q \in Peers : TryTimeout(q) \/ RestoreTimeout(q)
      BY <2>2
    <3>2. UNCHANGED tunnel /\ cache'[p].method = cache[p].method
      BY <3>1, TimeoutIs
    <3> QED BY <3>2
  <2>3. CASE UNCHANGED <<cache, tunnel>>
    BY <2>3
  <2> QED BY <2>1, <2>2, <2>3
       DEF PeeringNext, Register, Update, Delete, Reroute, Handshake, Lapse, Rebind, Tick, agent
<1>2. PeeringSpec => [][PeeringNext]_peeringVars
  BY DEF PeeringSpec
<1> HIDE DEF spared
<1>3. PeeringSpec => [][\A p \in DOMAIN cache \cap DOMAIN cache' : spared(p)]_peeringVars
  BY <1>1, <1>2, PeeringInvariance, PTL
<1> QED BY <1>3 DEF HealthyKeepsMethod, spared
==============================================================================
