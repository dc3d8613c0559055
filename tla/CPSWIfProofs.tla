----------------------------- MODULE CPSWIfProofs -----------------------------
(***************************************************************************)
(* Proofs about the Ethernet port, for every size of the two rings, every  *)
(* set of pbufs, every chain length, and every traffic and engine CPSWIf   *)
(* allows, but for the two timings that runs of TLC refute: a link read    *)
(* between the store that opens it and the one that closes it, and sending *)
(* slower than the handler's polls (Prompt).                               *)
(*                                                                         *)
(* The receive ring is seen without the link that cpswif_rxbd_alloc leaves *)
(* open between two stores (Closed): the first section shows what every    *)
(* step does to the ring seen so.                                          *)
(*                                                                         *)
(* The inductive invariant has one part per thing that can go wrong:       *)
(*   CpuOK   what the handler under way and the call it interrupted can be *)
(*   RxInv   the receive ring: the descriptors in use follow recv_head,    *)
(*           are linked in ring order, filled ones first, the engine is at *)
(*           the first one not filled, and a halted engine is noticed      *)
(*   RefInv  a posted pbuf has one owner, a queued packet a reference      *)
(*   TxInv   the transmit ring: the queue's packets lie back to back from  *)
(*           send_head, the engine is at the first one not sent, and the   *)
(*           EOQ of the last one says that the engine has stopped          *)
(* Each part has a lemma per action; the last sections put them together   *)
(* and read the properties off.                                            *)
(***************************************************************************)
EXTENDS CPSWIf, FiniteSetTheorems, SequenceTheorems, WellFoundedInduction, TLAPS

-----------------------------------------------------------------------------
(* Going round a ring.                                                     *)

\* i places on from descriptor b, going round a ring of n.
Rot(n, b, i) == IF b + i > n THEN b + i - n ELSE b + i

\* No place is outside the ring.
LEMMA RotType ==
    ASSUME NEW n \in Nat, NEW b \in 1 .. n, NEW i \in 0 .. n
    PROVE  Rot(n, b, i) \in 1 .. n
BY DEF Rot

\* Nowhere on, and once round, is where one started.
LEMMA RotRound ==
    ASSUME NEW n \in Nat, NEW b \in 1 .. n
    PROVE  Rot(n, b, 0) = b /\ Rot(n, b, n) = b
BY DEF Rot

\* Two moves that go round at most once are one.
LEMMA RotAdd ==
    ASSUME NEW n \in Nat, NEW b \in 1 .. n, NEW i \in 0 .. n, NEW j \in 0 .. n, i + j <= n
    PROVE  Rot(n, Rot(n, b, i), j) = Rot(n, b, i + j)
BY DEF Rot

\* Less than a round never comes back.
LEMMA RotInjective ==
    ASSUME NEW n \in Nat, NEW b \in 1 .. n, NEW i \in 0 .. n - 1, NEW j \in 0 .. n - 1,
           Rot(n, b, i) = Rot(n, b, j)
    PROVE  i = j
BY DEF Rot

\* One round visits every descriptor.
LEMMA RotOnto ==
    ASSUME NEW n \in Nat, NEW b \in 1 .. n, NEW c \in 1 .. n
    PROVE  \E i \in 0 .. n - 1 : c = Rot(n, b, i)
<1>1. CASE c >= b
  <2>1. c - b \in 0 .. n - 1 /\ c = Rot(n, b, c - b)
    BY <1>1 DEF Rot
  <2> QED BY <2>1
<1>2. CASE c < b
  <2>1. c - b + n \in 0 .. n - 1 /\ c = Rot(n, b, c - b + n)
    BY <1>2 DEF Rot
  <2> QED BY <2>1
<1> QED BY <1>1, <1>2

\* Only one descriptor comes before another.
LEMMA RotBefore ==
    ASSUME NEW n \in Nat, NEW b \in 1 .. n, NEW c \in 1 .. n,
           Rot(n, b, 1) = Rot(n, c, 1)
    PROVE  b = c
BY DEF Rot

\* The places u on from f, and those before them, seen from the place u on.
LEMMA RotRest ==
    ASSUME NEW n \in Nat, NEW f \in 1 .. n, NEW u \in 0 .. n, NEW j \in 0 .. n, j < u
    PROVE  Rot(n, f, j) = Rot(n, Rot(n, f, u), n - u + j)
BY DEF Rot

\* The place before f, where u places on from f the others begin.
LEMMA RotTail ==
    ASSUME NEW n \in Nat, NEW t \in 1 .. n, NEW u \in 0 .. n
    PROVE  t = Rot(n, Rot(n, Rot(n, t, 1), u), IF u = n THEN n - 1 ELSE n - u - 1)
BY DEF Rot

-----------------------------------------------------------------------------
(* Recursive functions.                                                    *)

\* Induction, with a set for the property.
LEMMA SetInduction ==
    ASSUME NEW S, 0 \in S, \A n \in Nat : n \in S => n + 1 \in S
    PROVE  Nat \subseteq S
<1> DEFINE T == Nat \ S
           R == OpToRel(<, Nat)
<1>1. SUFFICES ASSUME T # {} PROVE FALSE
  OBVIOUS
<1>2. PICK x \in T : \A y \in T : ~ (<<y, x>> \in R)
  <2>1. T \subseteq Nat
    OBVIOUS
  <2>2. IsWellFoundedOn(R, Nat)
    BY NatLessThanWellFounded
  <2> HIDE DEF T, R
  <2> QED BY <1>1, <2>1, <2>2, WFMin
<1>3. x \in Nat /\ x # 0 /\ x - 1 \in Nat /\ (x - 1) + 1 = x
  OBVIOUS
<1>4. x - 1 \notin S
  BY <1>3
<1>5. <<x - 1, x>> \in R
  BY <1>3 DEF OpToRel
<1> QED BY <1>2, <1>3, <1>4, <1>5

\* A walk is any function that starts at b and follows the links.
LEMMA WalkIs ==
    ASSUME NEW bd, NEW b, NEW n \in Nat, NEW p,
           p = [i \in 1 .. n |-> IF i = 1 THEN b
                                 ELSE IF p[i - 1] = NULL THEN NULL ELSE bd[p[i - 1]].next]
    PROVE  Walk(bd, b, n) = p
<1> DEFINE Next1(w) == [i \in 1 .. n |-> IF i = 1 THEN b
                           ELSE IF w[i - 1] = NULL THEN NULL ELSE bd[w[i - 1]].next]
<1>1. ASSUME NEW w, w = Next1(w)
      PROVE  w = p
  <2> DEFINE S == {i \in Nat : i \in 1 .. n => w[i] = p[i]}
  <2>1. 0 \in S
    OBVIOUS
  <2>2. ASSUME NEW i \in Nat, i \in S PROVE i + 1 \in S
    <3>1. SUFFICES ASSUME i + 1 \in 1 .. n PROVE w[i + 1] = p[i + 1]
      OBVIOUS
    <3>2. CASE i = 0
      <4>1. w[1] = b /\ p[1] = b
        BY <1>1, <3>1, <3>2
      <4> QED BY <3>2, <4>1
    <3>3. CASE i # 0
      <4>1. i \in 1 .. n /\ (i + 1) - 1 = i /\ i + 1 # 1
        BY <3>1, <3>3
      <4>2. w[i] = p[i]
        BY <2>2, <4>1
      <4>3. w[i + 1] = IF w[i] = NULL THEN NULL ELSE bd[w[i]].next
        <5>1. w[i + 1] = Next1(w)[i + 1]
          BY <1>1
        <5> QED BY <5>1, <4>1, <3>1
      <4>4. p[i + 1] = IF p[i] = NULL THEN NULL ELSE bd[p[i]].next
        <5>1. p[i + 1] = Next1(p)[i + 1]
          OBVIOUS
        <5> QED BY <5>1, <4>1, <3>1
      <4> QED BY <4>2, <4>3, <4>4
    <3> QED BY <3>2, <3>3
  <2>3. Nat \subseteq S
    <3> HIDE DEF S
    <3> QED BY <2>1, <2>2, SetInduction
  <2>4. ASSUME NEW i \in 1 .. n PROVE w[i] = p[i]
    <3>1. i \in Nat
      OBVIOUS
    <3>2. i \in S
      <4> HIDE DEF S
      <4> QED BY <2>3, <3>1
    <3> QED BY <3>2
  <2>5. w = [i \in 1 .. n |-> w[i]]
    BY <1>1
  <2>6. p = [i \in 1 .. n |-> p[i]]
    OBVIOUS
  <2> QED BY <2>4, <2>5, <2>6
<1>2. Walk(bd, b, n) = CHOOSE w : w = Next1(w)
  BY DEF Walk
<1>3. p = Next1(p)
  OBVIOUS
<1> HIDE DEF Next1
<1> QED BY <1>1, <1>2, <1>3

\* Offsets is any function with its recursion.
LEMMA OffsetsIs ==
    ASSUME NEW q, Len(q) \in Nat, NEW p,
           p = [k \in 0 .. Len(q) |-> IF k = 0 THEN 0 ELSE p[k - 1] + q[k].n]
    PROVE  Offsets(q) = p
<1> DEFINE N == Len(q)
           Next1(w) == [k \in 0 .. N |-> IF k = 0 THEN 0 ELSE w[k - 1] + q[k].n]
<1>1. ASSUME NEW w, w = Next1(w)
      PROVE  w = p
  <2> DEFINE S == {k \in Nat : k \in 0 .. N => w[k] = p[k]}
  <2>1. 0 \in S
    <3>1. w[0] = Next1(w)[0] /\ p[0] = Next1(p)[0]
      BY <1>1
    <3> QED BY <3>1
  <2>2. ASSUME NEW k \in Nat, k \in S PROVE k + 1 \in S
    <3>1. SUFFICES ASSUME k + 1 \in 0 .. N PROVE w[k + 1] = p[k + 1]
      OBVIOUS
    <3>2. k \in 0 .. N /\ (k + 1) - 1 = k /\ k + 1 # 0
      BY <3>1
    <3>3. w[k] = p[k]
      BY <2>2, <3>2
    <3>4. w[k + 1] = Next1(w)[k + 1] /\ p[k + 1] = Next1(p)[k + 1]
      BY <1>1
    <3>5. Next1(w)[k + 1] = w[k] + q[k + 1].n /\ Next1(p)[k + 1] = p[k] + q[k + 1].n
      BY <3>1, <3>2
    <3> QED BY <3>3, <3>4, <3>5
  <2>3. Nat \subseteq S
    <3> HIDE DEF S
    <3> QED BY <2>1, <2>2, SetInduction
  <2>4. ASSUME NEW k \in 0 .. N PROVE w[k] = p[k]
    <3>1. k \in Nat
      OBVIOUS
    <3>2. k \in S
      <4> HIDE DEF S
      <4> QED BY <2>3, <3>1
    <3> QED BY <3>2
  <2>5. w = [k \in 0 .. N |-> w[k]]
    BY <1>1
  <2>6. p = [k \in 0 .. N |-> p[k]]
    OBVIOUS
  <2> QED BY <2>4, <2>5, <2>6
<1>2. Offsets(q) = CHOOSE w : w = Next1(w)
  BY DEF Offsets
<1>3. p = Next1(p)
  OBVIOUS
<1> HIDE DEF Next1
<1> QED BY <1>1, <1>2, <1>3

Packets == [pbuf : Pbufs, n : 1 .. MaxChain]

\* Offsets adds up the lengths of the packets.
LEMMA OffsetsType ==
    ASSUME NEW q \in Seq(Packets)
    PROVE  /\ Offsets(q) \in [0 .. Len(q) -> Nat]
           /\ Offsets(q)[0] = 0
           /\ \A k \in 1 .. Len(q) : Offsets(q)[k] = Offsets(q)[k - 1] + q[k].n
<1> DEFINE Is(f, m) == f = [k \in 0 .. m |-> IF k = 0 THEN 0 ELSE f[k - 1] + q[k].n]
           S == {m \in Nat : m \in 0 .. Len(q) => \E f \in [0 .. m -> Nat] : Is(f, m)}
<1>1. 0 \in S
  <2>1. [k \in 0 .. 0 |-> 0] \in [0 .. 0 -> Nat] /\ Is([k \in 0 .. 0 |-> 0], 0)
    OBVIOUS
  <2> QED BY <2>1
<1>2. ASSUME NEW m \in Nat, m \in S PROVE m + 1 \in S
  <2>1. SUFFICES ASSUME m + 1 \in 0 .. Len(q)
                 PROVE  \E f \in [0 .. m + 1 -> Nat] : Is(f, m + 1)
    <3> HIDE DEF Is
    <3> QED OBVIOUS
  <2>2. PICK f \in [0 .. m -> Nat] : Is(f, m)
    BY <1>2, <2>1
  <2> DEFINE g == [k \in 0 .. m + 1 |-> IF k <= m THEN f[k] ELSE f[m] + q[m + 1].n]
  <2>3. q[m + 1] \in Packets
    BY <2>1
  <2>4. q[m + 1].n \in Nat
    BY <2>3 DEF Packets
  <2>5. g \in [0 .. m + 1 -> Nat]
    BY <2>4
  <2>6. ASSUME NEW k \in 0 .. m + 1
        PROVE  g[k] = IF k = 0 THEN 0 ELSE g[k - 1] + q[k].n
    <3>1. CASE k = 0
      <4>1. f[0] = 0
        BY <2>2
      <4> QED BY <3>1, <4>1
    <3>2. CASE k # 0 /\ k <= m
      <4>1. k \in 0 .. m /\ k - 1 \in 0 .. m
        BY <3>2
      <4>2. f[k] = f[k - 1] + q[k].n
        BY <2>2, <3>2, <4>1
      <4>3. g[k] = f[k] /\ g[k - 1] = f[k - 1]
        BY <4>1
      <4> QED BY <3>2, <4>2, <4>3
    <3>3. CASE k = m + 1
      BY <3>3
    <3> QED BY <3>1, <3>2, <3>3
  <2>7. Is(g, m + 1)
    <3>1. g = [k \in 0 .. m + 1 |-> g[k]]
      OBVIOUS
    <3> HIDE DEF g
    <3> QED BY <3>1, <2>6
  <2> QED BY <2>5, <2>7
<1>3. Len(q) \in Nat
  OBVIOUS
<1>4. Nat \subseteq S
  <2> HIDE DEF S
  <2> QED BY <1>1, <1>2, SetInduction
<1>5. Len(q) \in S
  <2> HIDE DEF S
  <2> QED BY <1>3, <1>4
<1>6. PICK f \in [0 .. Len(q) -> Nat] : Is(f, Len(q))
  BY <1>3, <1>5
<1>7. Offsets(q) = f
  BY <1>3, <1>6, OffsetsIs
<1>8. f[0] = 0
  BY <1>3, <1>6
<1>9. ASSUME NEW k \in 1 .. Len(q) PROVE f[k] = f[k - 1] + q[k].n
  BY <1>3, <1>6
<1> QED BY <1>7, <1>8, <1>9

\* A packet takes a descriptor at least.
LEMMA OffsetsGrow ==
    ASSUME NEW q \in Seq(Packets), NEW j \in 0 .. Len(q), NEW k \in 0 .. Len(q), j < k
    PROVE  Offsets(q)[j] < Offsets(q)[k]
<1> DEFINE O == Offsets(q)
           S == {m \in Nat : j + 1 + m \in 0 .. Len(q) => O[j] < O[j + 1 + m]}
<1>1. /\ O \in [0 .. Len(q) -> Nat]
      /\ \A i \in 1 .. Len(q) : O[i] = O[i - 1] + q[i].n
  BY OffsetsType
<1>2. ASSUME NEW i \in 1 .. Len(q) PROVE q[i].n \in Nat \ {0}
  <2>1. q[i] \in Packets
    OBVIOUS
  <2> QED BY <2>1 DEF Packets
<1> HIDE DEF O
<1>3. 0 \in S
  <2>1. SUFFICES ASSUME j + 1 \in 0 .. Len(q) PROVE O[j] < O[j + 1]
    OBVIOUS
  <2>2. O[j + 1] = O[j] + q[j + 1].n /\ q[j + 1].n \in Nat \ {0}
    BY <1>1, <1>2, <2>1
  <2>3. O[j] \in Nat
    BY <1>1
  <2> QED BY <2>2, <2>3
<1>4. ASSUME NEW m \in Nat, m \in S PROVE m + 1 \in S
  <2>1. SUFFICES ASSUME j + 1 + (m + 1) \in 0 .. Len(q) PROVE O[j] < O[j + 1 + (m + 1)]
    OBVIOUS
  <2> DEFINE i == j + 1 + (m + 1)
  <2>2. i \in 1 .. Len(q) /\ i - 1 = j + 1 + m /\ i - 1 \in 0 .. Len(q)
    BY <2>1
  <2>3. O[j] < O[i - 1]
    BY <1>4, <2>2
  <2>4. O[i] = O[i - 1] + q[i].n /\ q[i].n \in Nat \ {0}
    BY <1>1, <1>2, <2>2
  <2>5. O[j] \in Nat /\ O[i - 1] \in Nat /\ O[i] \in Nat
    <3>1. i \in 0 .. Len(q) /\ j \in 0 .. Len(q)
      BY <2>2
    <3> HIDE DEF i
    <3> QED BY <1>1, <2>2, <3>1
  <2>6. O[j] < O[i]
    <3> HIDE DEF i
    <3> QED BY <2>3, <2>4, <2>5
  <2> QED BY <2>6
<1>5. Nat \subseteq S
  <2> HIDE DEF S
  <2> QED BY <1>3, <1>4, SetInduction
<1>6. k - j - 1 \in Nat /\ j + 1 + (k - j - 1) = k
  OBVIOUS
<1>7. k - j - 1 \in S
  <2> HIDE DEF S
  <2> QED BY <1>5, <1>6
<1>8. O[j] < O[k]
  BY <1>6, <1>7
<1> QED BY <1>8 DEF O

\* A packet more.
LEMMA OffsetsAppend ==
    ASSUME NEW q \in Seq(Packets), NEW e \in Packets
    PROVE  /\ \A k \in 0 .. Len(q) : Offsets(Append(q, e))[k] = Offsets(q)[k]
           /\ Offsets(Append(q, e))[Len(q) + 1] = Offsets(q)[Len(q)] + e.n
<1> DEFINE O == Offsets(q)
           r == Append(q, e)
           p == [k \in 0 .. Len(r) |-> IF k <= Len(q) THEN O[k] ELSE O[Len(q)] + e.n]
<1>1. /\ Len(q) \in Nat
      /\ r \in Seq(Packets) /\ Len(r) = Len(q) + 1
      /\ \A i \in 1 .. Len(q) : r[i] = q[i]
      /\ r[Len(q) + 1] = e
  BY AppendProperties
<1>2. /\ O \in [0 .. Len(q) -> Nat] /\ O[0] = 0
      /\ \A k \in 1 .. Len(q) : O[k] = O[k - 1] + q[k].n
  BY OffsetsType
<1> HIDE DEF O, r
<1>3. ASSUME NEW k \in 0 .. Len(r)
      PROVE  p[k] = IF k = 0 THEN 0 ELSE p[k - 1] + r[k].n
  <2>1. CASE k = 0
    BY <1>1, <1>2, <2>1
  <2>2. CASE k \in 1 .. Len(q)
    <3>1. p[k] = O[k] /\ p[k - 1] = O[k - 1]
      BY <1>1, <2>2
    <3>2. O[k] = O[k - 1] + r[k].n
      BY <1>1, <1>2, <2>2
    <3> QED BY <2>2, <3>1, <3>2
  <2>3. CASE k = Len(q) + 1
    <3>1. p[k] = O[Len(q)] + e.n /\ p[k - 1] = O[Len(q)] /\ k # 0
      BY <1>1, <2>3
    <3> QED BY <1>1, <2>3, <3>1
  <2> QED BY <1>1, <2>1, <2>2, <2>3
<1>4. p = [k \in 0 .. Len(r) |-> p[k]]
  OBVIOUS
<1>5. Offsets(r) = p
  <2>1. Len(r) \in Nat
    BY <1>1
  <2> HIDE DEF p
  <2>2. p = [k \in 0 .. Len(r) |-> IF k = 0 THEN 0 ELSE p[k - 1] + r[k].n]
    BY <1>3, <1>4
  <2> QED BY <2>1, <2>2, OffsetsIs
<1> QED BY <1>1, <1>5 DEF O, r

\* A packet less.
LEMMA OffsetsTail ==
    ASSUME NEW q \in Seq(Packets), q # << >>
    PROVE  \A k \in 0 .. Len(q) - 1 : Offsets(Tail(q))[k] = Offsets(q)[k + 1] - q[1].n
<1> DEFINE O == Offsets(q)
           r == Tail(q)
           p == [k \in 0 .. Len(r) |-> O[k + 1] - q[1].n]
<1>1. /\ Len(q) \in Nat \ {0}
      /\ r \in Seq(Packets) /\ Len(r) = Len(q) - 1
      /\ \A i \in 1 .. Len(r) : r[i] = q[i + 1]
  BY HeadTailProperties, EmptySeq
<1>2. /\ O \in [0 .. Len(q) -> Nat] /\ O[0] = 0
      /\ \A k \in 1 .. Len(q) : O[k] = O[k - 1] + q[k].n
  BY OffsetsType
<1>3. ASSUME NEW k \in 1 .. Len(q) PROVE q[k].n \in Nat
  <2>1. q[k] \in Packets
    OBVIOUS
  <2> QED BY <2>1 DEF Packets
<1> HIDE DEF O, r
<1>4. ASSUME NEW k \in 0 .. Len(r)
      PROVE  p[k] = IF k = 0 THEN 0 ELSE p[k - 1] + r[k].n
  <2>1. CASE k = 0
    <3>1. O[1] = O[0] + q[1].n /\ q[1].n \in Nat
      BY <1>1, <1>2, <1>3
    <3>2. p[0] = O[1] - q[1].n
      BY <1>1
    <3> QED BY <1>2, <2>1, <3>1, <3>2
  <2>2. CASE k # 0
    <3>1. k \in 1 .. Len(r) /\ k + 1 \in 1 .. Len(q) /\ (k + 1) - 1 = k /\ k \in 1 .. Len(q)
          /\ (k - 1) + 1 = k /\ k - 1 \in 0 .. Len(r)
      BY <1>1, <2>2
    <3>2. p[k] = O[k + 1] - q[1].n /\ p[k - 1] = O[k] - q[1].n
      <4>1. p[k] = O[k + 1] - q[1].n
        OBVIOUS
      <4>2. p[k - 1] = O[(k - 1) + 1] - q[1].n
        <5>1. ASSUME NEW j \in 0 .. Len(r) PROVE p[j] = O[j + 1] - q[1].n
          OBVIOUS
        <5> HIDE DEF p
        <5> QED BY <3>1, <5>1
      <4> HIDE DEF p
      <4> QED BY <3>1, <4>1, <4>2
    <3>3. O[k + 1] = O[k] + q[k + 1].n /\ r[k] = q[k + 1]
      BY <1>1, <1>2, <3>1
    <3> HIDE DEF p
    <3>4. O[k] \in Nat /\ O[k + 1] \in Nat /\ q[1].n \in Nat /\ q[k + 1].n \in Nat
      <4>1. k \in 0 .. Len(q) /\ k + 1 \in 0 .. Len(q) /\ 1 \in 1 .. Len(q)
        BY <1>1, <3>1
      <4> QED BY <1>2, <1>3, <3>1, <4>1
    <3>5. p[k] = (O[k] + q[k + 1].n) - q[1].n
      BY <3>2, <3>3
    <3>6. (O[k] + q[k + 1].n) - q[1].n = (O[k] - q[1].n) + q[k + 1].n
      BY <3>4
    <3>7. p[k] = p[k - 1] + r[k].n
      BY <3>2, <3>3, <3>5, <3>6
    <3> QED BY <2>2, <3>7
  <2> QED BY <2>1, <2>2
<1>5. p = [k \in 0 .. Len(r) |-> p[k]]
  OBVIOUS
<1>6. Offsets(r) = p
  <2>1. Len(r) \in Nat
    BY <1>1
  <2> HIDE DEF p
  <2>2. p = [k \in 0 .. Len(r) |-> IF k = 0 THEN 0 ELSE p[k - 1] + r[k].n]
    BY <1>4, <1>5
  <2> QED BY <2>1, <2>2, OffsetsIs
<1> QED BY <1>1, <1>6 DEF O, r

-----------------------------------------------------------------------------
(* Pbufs.                                                                  *)

\* A finite set has an order.
LEMMA OrderType ==
    ASSUME NEW S, IsFiniteSet(S)
    PROVE  /\ Cardinality(S) \in Nat
           /\ Order(S) \in [1 .. Cardinality(S) -> S]
           /\ \A i, j \in 1 .. Cardinality(S) : Order(S)[i] = Order(S)[j] => i = j
<1>1. Cardinality(S) \in Nat /\ ExistsBijection(1 .. Cardinality(S), S)
  BY FS_CardinalityType
<1>2. PICK o \in Bijection(1 .. Cardinality(S), S) : TRUE
  BY <1>1 DEF ExistsBijection
<1>3. /\ o \in [1 .. Cardinality(S) -> S]
      /\ \A i, j \in 1 .. Cardinality(S) : o[i] = o[j] => i = j
  BY <1>2 DEF Bijection, Injection, IsInjective, Surjection
<1> QED BY <1>1, <1>3 DEF Order

\* The packets of a queue whose pbuf is p.
Of(q, p) == {k \in DOMAIN q : q[k].pbuf = p}

\* A queue has finitely many packets of a pbuf.
LEMMA OfType ==
    ASSUME NEW q \in Seq(Packets), NEW p
    PROVE  IsFiniteSet(Of(q, p)) /\ Cardinality(Of(q, p)) \in Nat
<1>1. Of(q, p) \subseteq 1 .. Len(q) /\ Len(q) \in Int /\ 1 \in Int
  BY DEF Of
<1>2. IsFiniteSet(1 .. Len(q))
  BY <1>1, FS_Interval
<1>3. IsFiniteSet(Of(q, p))
  BY <1>1, <1>2, FS_Subset
<1> QED BY <1>3, FS_CardinalityType

\* Queueing a packet adds one to its pbuf's and none to another's.
LEMMA OfAppend ==
    ASSUME NEW q \in Seq(Packets), NEW e \in Packets, NEW p
    PROVE  Cardinality(Of(Append(q, e), p))
               = Cardinality(Of(q, p)) + (IF e.pbuf = p THEN 1 ELSE 0)
<1> DEFINE r == Append(q, e)
<1>1. /\ Len(q) \in Nat /\ DOMAIN q = 1 .. Len(q)
      /\ r \in Seq(Packets) /\ Len(r) = Len(q) + 1 /\ DOMAIN r = 1 .. Len(r)
      /\ \A i \in 1 .. Len(q) : r[i] = q[i]
      /\ r[Len(q) + 1] = e
  BY AppendProperties, LenProperties
<1> HIDE DEF r
<1>2. IsFiniteSet(Of(q, p)) /\ Cardinality(Of(q, p)) \in Nat
  BY OfType
<1>3. Len(q) + 1 \notin Of(q, p)
  BY <1>1 DEF Of
<1>4. CASE e.pbuf = p
  <2>1. Of(r, p) = Of(q, p) \cup {Len(q) + 1}
    BY <1>1, <1>4 DEF Of
  <2>2. Cardinality(Of(q, p) \cup {Len(q) + 1}) = Cardinality(Of(q, p)) + 1
    BY <1>2, <1>3, FS_AddElement
  <2> QED BY <1>4, <2>1, <2>2 DEF r
<1>5. CASE e.pbuf # p
  <2>1. Of(r, p) = Of(q, p)
    BY <1>1, <1>5 DEF Of
  <2> QED BY <1>2, <1>5, <2>1 DEF r
<1> QED BY <1>4, <1>5

\* Taking the oldest packet off takes one from its pbuf's and none from another's.
LEMMA OfTail ==
    ASSUME NEW q \in Seq(Packets), q # << >>, NEW p
    PROVE  Cardinality(Of(Tail(q), p))
               = Cardinality(Of(q, p)) - (IF q[1].pbuf = p THEN 1 ELSE 0)
<1> DEFINE r == Tail(q)
           A == Of(q, p) \ {1}
           f == [k \in Of(r, p) |-> k + 1]
<1>1. /\ Len(q) \in Nat \ {0} /\ DOMAIN q = 1 .. Len(q)
      /\ r \in Seq(Packets) /\ Len(r) = Len(q) - 1 /\ DOMAIN r = 1 .. Len(r)
      /\ \A i \in 1 .. Len(r) : r[i] = q[i + 1]
  BY HeadTailProperties, EmptySeq, LenProperties
<1> HIDE DEF r
<1>2. IsFiniteSet(Of(q, p)) /\ Cardinality(Of(q, p)) \in Nat /\ IsFiniteSet(Of(r, p))
  BY <1>1, OfType
<1>3. f \in Bijection(Of(r, p), A)
  <2>1. \A k \in Of(r, p) : k \in Nat /\ k + 1 \in A
    BY <1>1 DEF Of
  <2>2. ASSUME NEW k \in A PROVE k - 1 \in Of(r, p) /\ (k - 1) + 1 = k
    <3>1. k \in 2 .. Len(q) /\ q[k].pbuf = p
      BY <1>1 DEF Of
    <3>2. k - 1 \in 1 .. Len(r) /\ (k - 1) + 1 = k
      BY <1>1, <3>1
    <3>3. r[k - 1] = q[k]
      BY <1>1, <3>2
    <3> QED BY <1>1, <3>1, <3>2, <3>3 DEF Of
  <2>3. f \in [Of(r, p) -> A]
    BY <2>1
  <2>4. \A i, j \in Of(r, p) : f[i] = f[j] => i = j
    BY <2>1
  <2>5. ASSUME NEW k \in A PROVE \E i \in Of(r, p) : f[i] = k
    BY <2>2
  <2> HIDE DEF f, A
  <2> QED BY <2>3, <2>4, <2>5 DEF Bijection, Injection, IsInjective, Surjection
<1>4. Cardinality(A) = Cardinality(Of(r, p))
  <2>1. ExistsBijection(Of(r, p), A)
    <3> HIDE DEF f, A
    <3> QED BY <1>3 DEF ExistsBijection
  <2> HIDE DEF A
  <2> QED BY <1>2, <2>1, FS_Bijection
<1>5. Cardinality(A) = Cardinality(Of(q, p)) - (IF q[1].pbuf = p THEN 1 ELSE 0)
  <2>1. Cardinality(A) = IF 1 \in Of(q, p) THEN Cardinality(Of(q, p)) - 1
                         ELSE Cardinality(Of(q, p))
    BY <1>2, FS_RemoveElement
  <2>2. 1 \in Of(q, p) <=> q[1].pbuf = p
    BY <1>1 DEF Of
  <2> QED BY <1>2, <2>1, <2>2
<1> QED BY <1>4, <1>5 DEF r

-----------------------------------------------------------------------------
(* The steps as the receive ring without its open link shows them.          *)

RxBdType == [next : RxBds \cup {NULL}, owner : BOOLEAN, eoq : BOOLEAN, pbuf : Pool]

\* The engine gets to no link between the store that opens it and the one that closes
\* it, and it sends what is queued before the transmit handler runs out of polls.
Prompt == \A e \in Environments : ~e.slow /\ ~e.swift

Timely == ~env.slow /\ ~env.swift

RxBeginSeen ==
    /\ rxdma.at # NULL
    /\ rxdma' = [rxdma EXCEPT !.latched = TRUE, !.next = Closed[rxdma.at].next]
    /\ UNCHANGED <<tx, Closed, rxch, filled, dry, ref, held, cpu, env>>

RxDoneSeen ==
    /\ rxdma.at # NULL /\ (env.ahead => rxdma.latched)
    /\ ~Overtakes
    /\ LET next == NextOf(rxdma, rxdma.at, Closed)
       IN  /\ rxdma' = Complete(rxdma, rxdma.at, next)
           /\ Closed' = [Closed EXCEPT ![rxdma.at].owner = FALSE,
                                       ![rxdma.at].eoq = (next = NULL)]
    /\ filled' = Append(filled, Closed[rxdma.at].pbuf)
    /\ UNCHANGED <<tx, rxch, dry, ref, held, cpu, env>>

RxPacketSeen ==
    /\ cpu.pc = "rx" /\ ~Closed[rxch.recv_head].owner
    /\ LET b == rxch.recv_head
       IN  /\ Closed' = [Closed EXCEPT ![b].owner = TRUE, ![b].eoq = FALSE]
           /\ held' = held \cup {Closed[b].pbuf}
    /\ filled' = Tail(filled)
    /\ cpu' = [cpu EXCEPT !.pc = "input"]
    /\ UNCHANGED <<tx, rxch, rxdma, dry, ref, env>>

RxNextSeen ==
    /\ cpu.pc = "input"
    /\ LET next == Closed[rxch.recv_head].next
       IN  /\ rxdma' = WriteCP(rxdma, rxch.recv_head)
           /\ rxch' = [rxch EXCEPT !.free_num = @ + 1,
                                   !.recv_head = IF next = NULL THEN rxch.free_head ELSE next]
           /\ cpu' = [cpu EXCEPT !.pc = IF next = NULL THEN "rx_eoi" ELSE "rx"]
    /\ UNCHANGED <<tx, Closed, filled, dry, ref, held, env>>

\* Three steps that read less of the ring, or nothing.
RxIsrSeen == RxIsr /\ UNCHANGED Closed

RxEndSeen ==
    /\ \/ cpu.pc = "rx" /\ Closed[rxch.recv_head].owner
       \/ cpu.pc = "rx_eoi"
    /\ rxdma' = WriteEOI(rxdma)
    /\ cpu' = [cpu EXCEPT !.pc = "alloc"]
    /\ UNCHANGED <<tx, Closed, rxch, filled, dry, ref, held, env>>

AllocNoneSeen == AllocNone /\ UNCHANGED Closed

\* Seen so, the chain never opens: the descriptors filled in are behind the old tail at
\* once, and the last of them ends it.
AllocOf(bd) ==
    /\ cpu.pc = "alloc" /\ rxch.free_num > 0 /\ Free # {}
    /\ LET k == IF Cardinality(Free) < rxch.free_num THEN Cardinality(Free)
                ELSE rxch.free_num
           b == Walk(bd, rxch.free_head, k + 1)
           curr_bd == b[k + 1]
           filledIn == [c \in RxBds |->
               IF \E i \in 1 .. k : b[i] = c
               THEN [bd[c] EXCEPT !.owner = TRUE, !.eoq = FALSE,
                                      !.pbuf = Order(Free)[CHOOSE i \in 1 .. k : b[i] = c]]
               ELSE bd[c]]
       IN  /\ rxbd' = [filledIn EXCEPT ![rxch.recv_tail].next = rxch.free_head]
           /\ ref' = [p \in Pbufs |-> IF \E i \in 1 .. k : Order(Free)[i] = p THEN 1 ELSE ref[p]]
           /\ rxch' = [rxch EXCEPT !.free_num = @ - k, !.recv_tail = b[k],
                                   !.free_head = IF curr_bd = NULL THEN @ ELSE curr_bd]
           /\ rxdma' = IF curr_bd = NULL THEN WriteHDP(rxdma, rxch.free_head) ELSE rxdma
           /\ dry' = (dry \/ k < rxch.free_num)
    /\ cpu' = [cpu EXCEPT !.pc = "linked", !.tail = rxch.recv_tail, !.head = rxch.free_head]
    /\ UNCHANGED <<tx, filled, held, env>>

AllocSeen == AllocOf(Closed) /\ Closed' = [rxbd' EXCEPT ![rxch'.recv_tail].next = NULL]

AllocKickSeen ==
    /\ cpu.pc = "posted"
    /\ rxdma' = IF Closed[cpu.tail].eoq THEN WriteHDP(rxdma, cpu.head) ELSE rxdma
    /\ cpu' = [cpu EXCEPT !.pc = "stack", !.tail = NULL, !.head = NULL]
    /\ UNCHANGED <<tx, Closed, rxch, filled, dry, ref, held, env>>

\* The link is all that is not seen.
LEMMA ClosedIs ==
    ASSUME TypeOK
    PROVE  /\ Closed \in [RxBds -> RxBdType]
           /\ \A b \in RxBds : /\ Closed[b].owner = rxbd[b].owner /\ Closed[b].eoq = rxbd[b].eoq
                               /\ Closed[b].pbuf = rxbd[b].pbuf
                               /\ Closed[b].next = IF cpu.pc = "linked" /\ b = rxch.recv_tail
                                                   THEN NULL ELSE rxbd[b].next
           /\ cpu.pc # "linked" => Closed = rxbd
<1>1. rxbd \in [RxBds -> RxBdType] /\ rxch.recv_tail \in RxBds
  BY DEF TypeOK, RxBdType
<1>2. CASE cpu.pc = "linked"
  <2>1. Closed = [rxbd EXCEPT ![rxch.recv_tail].next = NULL]
    BY <1>2 DEF Closed
  <2> QED BY <1>1, <1>2, <2>1 DEF RxBdType
<1>3. CASE cpu.pc # "linked"
  BY <1>1, <1>3 DEF Closed
<1> QED BY <1>2, <1>3

\* Neither the ring nor the link changes.
LEMMA ClosedSame ==
    ASSUME UNCHANGED <<rxbd, rxch>>, cpu'.pc = "linked" <=> cpu.pc = "linked"
    PROVE  UNCHANGED Closed
BY DEF Closed

\* The engine's steps.
LEMMA EngineSeen ==
    ASSUME TypeOK, Timely
    PROVE  /\ RxBegin => RxBeginSeen
           /\ RxDone => RxDoneSeen
<1>1. rxbd \in [RxBds -> RxBdType] /\ rxch.recv_tail \in RxBds /\ rxdma.at \in RxBds \cup {NULL}
  BY DEF TypeOK, RxBdType, DmaType
<1>2. ASSUME RxBegin PROVE RxBeginSeen
  <2>1. ~Overtakes /\ rxdma.at # NULL
    BY <1>2 DEF RxBegin, Timely
  <2>2. Closed[rxdma.at].next = rxbd[rxdma.at].next
    BY <1>1, <2>1, ClosedIs DEF Overtakes
  <2>3. UNCHANGED Closed
    BY <1>2, ClosedSame DEF RxBegin
  <2> QED BY <1>2, <2>1, <2>2, <2>3 DEF RxBegin, RxBeginSeen
<1>3. ASSUME RxDone PROVE RxDoneSeen
  <2> DEFINE e == rxdma.at
             next == NextOf(rxdma, e, rxbd)
             x == next = NULL
  <2>1. ~Overtakes /\ e # NULL /\ e \in RxBds
    BY <1>1, <1>3 DEF RxDone, Timely
  <2>2. Closed[e].next = rxbd[e].next /\ Closed[e].pbuf = rxbd[e].pbuf
    BY <1>1, <2>1, ClosedIs DEF Overtakes
  <2>3. next = NextOf(rxdma, e, Closed)
    BY <2>2 DEF NextOf
  <2>4. /\ rxbd' = [rxbd EXCEPT ![e].owner = FALSE, ![e].eoq = x]
        /\ UNCHANGED <<rxch, cpu>>
    BY <1>3 DEF RxDone
  <2>5. x \in BOOLEAN
    OBVIOUS
  <2> HIDE DEF x, e
  <2>6. Closed' = [Closed EXCEPT ![e].owner = FALSE, ![e].eoq = x]
    <3>1. CASE cpu.pc = "linked"
      <4> DEFINE t == rxch.recv_tail
      <4>1. t # e /\ t \in RxBds /\ e \in RxBds
        BY <1>1, <2>1, <3>1 DEF Overtakes, e
      <4>2. Closed = [rxbd EXCEPT ![t].next = NULL] /\ Closed' = [rxbd' EXCEPT ![t].next = NULL]
        BY <2>4, <3>1 DEF Closed
      <4> HIDE DEF t
      <4>3. rxbd' \in [RxBds -> RxBdType] /\ x \in BOOLEAN
        BY <1>1, <2>4, <4>1, <2>5 DEF RxBdType
      <4>4. ASSUME NEW b \in RxBds
            PROVE  Closed'[b] = [Closed EXCEPT ![e].owner = FALSE, ![e].eoq = x][b]
        <5>1. DOMAIN rxbd = RxBds /\ DOMAIN rxbd' = RxBds /\ DOMAIN Closed = RxBds
          BY <1>1, <4>2, <4>3
        <5>2. CASE b = e
          <6>1. rxbd'[b] = [rxbd[b] EXCEPT !.owner = FALSE, !.eoq = x] /\ Closed[b] = rxbd[b]
            BY <2>4, <4>1, <4>2, <5>1, <5>2
          <6>2. Closed'[b] = rxbd'[b]
            BY <4>1, <4>2, <5>1, <5>2
          <6> QED BY <4>1, <5>1, <5>2, <6>1, <6>2
        <5>3. CASE b # e
          <6>1. rxbd'[b] = rxbd[b]
            BY <2>4, <4>1, <5>1, <5>3
          <6>2. Closed'[b] = Closed[b]
            BY <4>1, <4>2, <5>1, <5>3, <6>1
          <6> QED BY <4>1, <5>1, <5>3, <6>2
        <5> QED BY <5>2, <5>3
      <4>5. DOMAIN Closed' = RxBds /\ DOMAIN Closed = RxBds
        BY <1>1, <4>2, <4>3
      <4> QED BY <4>1, <4>4, <4>5, <4>2, <4>3, <4>2, <4>3, <4>4 DEF RxBdType
    <3>2. CASE cpu.pc # "linked"
      BY <2>4, <3>2 DEF Closed
    <3> QED BY <3>1, <3>2
  <2> QED BY <1>3, <2>1, <2>2, <2>3, <2>6 DEF RxDone, RxDoneSeen, e, x
<1> QED BY <1>2, <1>3

\* The steps of the receive handler, and of cpswif_rxbd_alloc but the closing.
LEMMA HandlerSeen ==
    ASSUME TypeOK
    PROVE  /\ RxIsr => RxIsrSeen
           /\ RxPacket => RxPacketSeen
           /\ RxNext => RxNextSeen
           /\ RxEnd => RxEndSeen
           /\ AllocNone => AllocNoneSeen
           /\ AllocKick => AllocKickSeen
<1>1. cpu \in [pc : {"stack", "rx", "input", "rx_eoi", "tx", "giveup", "alloc", "linked",
                     "posted", "chained"},
               ret : {"stack", "input"}, tail : RxBds \cup {NULL}, head : RxBds \cup {NULL}]
  BY DEF TypeOK
<1>2. ASSUME RxIsr PROVE RxIsrSeen
  <2>1. cpu.pc = "stack" /\ cpu'.pc = "rx"
    BY <1>1, <1>2 DEF RxIsr
  <2> QED BY <1>2, <2>1, ClosedSame DEF RxIsr, RxIsrSeen
<1>3. ASSUME RxPacket PROVE RxPacketSeen
  <2>1. cpu.pc = "rx" /\ cpu'.pc = "input"
    BY <1>1, <1>3 DEF RxPacket
  <2>2. Closed = rxbd /\ Closed' = rxbd'
    BY <2>1 DEF Closed
  <2> QED BY <1>3, <2>2 DEF RxPacket, RxPacketSeen
<1>4. ASSUME RxNext PROVE RxNextSeen
  <2>1. cpu.pc = "input" /\ cpu'.pc \in {"rx_eoi", "rx"}
    BY <1>1, <1>4 DEF RxNext
  <2>2. Closed = rxbd /\ Closed' = rxbd'
    BY <2>1 DEF Closed
  <2> QED BY <1>4, <2>2 DEF RxNext, RxNextSeen
<1>5. ASSUME RxEnd PROVE RxEndSeen
  <2>1. cpu.pc \in {"rx_eoi", "rx"} /\ cpu'.pc = "alloc"
    BY <1>1, <1>5 DEF RxEnd
  <2>2. Closed = rxbd /\ Closed' = rxbd'
    BY <2>1 DEF Closed
  <2> QED BY <1>5, <2>2 DEF RxEnd, RxEndSeen
<1>6. ASSUME AllocNone PROVE AllocNoneSeen
  <2>1. cpu.pc = "alloc" /\ cpu'.pc = "stack"
    BY <1>1, <1>6 DEF AllocNone
  <2> QED BY <1>6, <2>1, ClosedSame DEF AllocNone, AllocNoneSeen
<1>7. ASSUME AllocKick PROVE AllocKickSeen
  <2>1. cpu.pc = "posted" /\ cpu'.pc = "stack"
    BY <1>1, <1>7 DEF AllocKick
  <2>2. Closed = rxbd /\ Closed' = rxbd'
    BY <2>1 DEF Closed
  <2> QED BY <1>7, <2>2 DEF AllocKick, AllocKickSeen
<1> QED BY <1>2, <1>3, <1>4, <1>5, <1>6, <1>7

\* The chaining of the descriptors filled in.
LEMMA AllocIsSeen == ASSUME TypeOK, Alloc PROVE AllocSeen
<1>1. cpu.pc = "alloc" /\ cpu'.pc = "linked"
  BY DEF Alloc, TypeOK
<1>2. Closed = rxbd /\ Closed' = [rxbd' EXCEPT ![rxch'.recv_tail].next = NULL]
  BY <1>1 DEF Closed
<1>3. AllocOf(rxbd)
  BY DEF Alloc, AllocOf
<1> QED BY <1>2, <1>3 DEF AllocSeen

-----------------------------------------------------------------------------
(* The invariant.                                                          *)

\* Only the transmit path interrupts ethernet_input, and returns to it.
CpuOK == cpu.ret = "input" => cpu.pc = "chained"

\* The handler has given the packet of recv_head to the stack and not moved on.
Given == IF cpu.pc = "input" \/ cpu.ret = "input" THEN 1 ELSE 0

\* The descriptors in use, those of them at the front that are dealt with or filled,
\* and the i-th one.
Posted == NumRx - rxch.free_num
Filled == Given + Len(filled)
RxSlot(i) == Rot(NumRx, rxch.recv_head, i)

\* The links follow the ring, cut behind recv_tail; the free descriptors come next,
\* and after them those in use.
RxRing ==
    /\ rxch.free_head = Rot(NumRx, rxch.recv_tail, 1)
    /\ rxch.recv_head = Rot(NumRx, rxch.free_head, rxch.free_num)
    /\ \A b \in RxBds :
           Closed[b].next = IF b = rxch.recv_tail THEN NULL ELSE Rot(NumRx, b, 1)

\* The filled descriptors are the first ones in use, in the order of their filling,
\* and the engine is at the one behind them.
RxFilled ==
    /\ Filled <= Posted
    /\ \A i \in 0 .. NumRx - 1 :
           Closed[RxSlot(i)].owner <=> ~(Given <= i /\ i < Filled)
    /\ \A i \in 1 .. Len(filled) : Closed[RxSlot(Given + i - 1)].pbuf = filled[i]
    /\ rxdma.at # NULL => Filled < Posted /\ rxdma.at = RxSlot(Filled)
    /\ rxdma.latched => rxdma.at # NULL
    /\ rxdma.latched /\ rxdma.next # NULL =>
           Filled + 1 < Posted /\ rxdma.next = RxSlot(Filled + 1)

\* EOQ marks filled descriptors at which the engine stood at the end of the chain;
\* on the tail, or the tail that was, it says that the engine still does.
RxEnds ==
    /\ \A b \in RxBds : Closed[b].eoq => ~Closed[b].owner
    /\ Closed[rxch.recv_tail].eoq => rxdma.at = NULL
    /\ ~Closed[rxch.recv_tail].owner => Closed[rxch.recv_tail].eoq
    /\ cpu.pc \in {"linked", "posted"} =>
           /\ cpu.tail \in RxBds
           /\ cpu.head = Rot(NumRx, cpu.tail, 1)
           /\ Closed[cpu.tail].eoq =>
                  /\ cpu.tail # rxch.recv_tail /\ rxdma.at = NULL
                  /\ Filled > 0 /\ cpu.tail = RxSlot(Filled - 1)

InRxHandler == cpu.pc \in {"rx", "input", "rx_eoi"} \/ cpu.ret = "input"

\* Outside the handler a filled descriptor has a pulse to come; the handler leaves
\* none behind; and an engine that has not run dry halts at the end of the ring only.
RxAwake ==
    /\ ~InRxHandler => /\ rxdma.armed \/ rxdma.pulse
                       /\ filled # << >> => rxdma.pulse
    /\ cpu.pc = "rx_eoi" => Posted = 0
    /\ rxdma.at = NULL /\ ~dry /\ ~env.ahead =>
           Filled = Posted \/ (cpu.pc \in {"linked", "posted"} /\ Closed[cpu.tail].eoq)

RxInv == RxRing /\ RxFilled /\ RxEnds /\ RxAwake

-----------------------------------------------------------------------------
(* The receive ring.                                                       *)

\* What the receive side of the type invariant says, field by field.
LEMMA RxTypes ==
    ASSUME TypeOK
    PROVE  /\ NumRx \in Nat \ {0} /\ RxBds = 1 .. NumRx /\ NULL \notin RxBds /\ NULL = 0
           /\ rxch.free_head \in RxBds /\ rxch.recv_head \in RxBds /\ rxch.recv_tail \in RxBds
           /\ rxch.free_num \in 0 .. NumRx /\ Posted \in 0 .. NumRx
           /\ rxch = [free_head |-> rxch.free_head, recv_head |-> rxch.recv_head,
                      recv_tail |-> rxch.recv_tail, free_num |-> rxch.free_num]
           /\ filled \in Seq(Pool) /\ Len(filled) \in Nat
           /\ Given \in {0, 1} /\ Filled \in Nat /\ Filled >= Given
           /\ rxdma.at \in RxBds \cup {NULL}
           /\ rxbd \in [RxBds -> RxBdType] /\ Closed \in [RxBds -> RxBdType]
<1>1. NumRx \in Nat \ {0} /\ RxBds = 1 .. NumRx /\ NULL \notin RxBds /\ NULL = 0
  BY SizesAssumption DEF RxBds, NULL
<1>2. filled \in Seq(Pool) /\ Len(filled) \in Nat
  BY DEF TypeOK
<1>3. Given \in {0, 1}
  BY DEF Given
<1>4. Filled \in Nat /\ Filled >= Given
  BY <1>2, <1>3 DEF Filled
<1>5. /\ rxch.free_head \in RxBds /\ rxch.recv_head \in RxBds /\ rxch.recv_tail \in RxBds
      /\ rxch.free_num \in 0 .. NumRx
      /\ rxch = [free_head |-> rxch.free_head, recv_head |-> rxch.recv_head,
                 recv_tail |-> rxch.recv_tail, free_num |-> rxch.free_num]
  BY DEF TypeOK
<1>6. Posted \in 0 .. NumRx
  BY <1>1, <1>5 DEF Posted
<1>7. rxdma.at \in RxBds \cup {NULL}
  BY DEF TypeOK, DmaType
<1>8. rxbd \in [RxBds -> RxBdType] /\ Closed \in [RxBds -> RxBdType]
  BY ClosedIs DEF TypeOK, RxBdType
<1> QED BY <1>1, <1>2, <1>3, <1>4, <1>5, <1>6, <1>7, <1>8

\* The descriptors seen from recv_head: first those in use, up to recv_tail, then the
\* free ones from free_head on.
LEMMA RxSlots ==
    ASSUME TypeOK, RxRing
    PROVE  /\ \A i \in 0 .. NumRx : RxSlot(i) \in RxBds
           /\ \A i, j \in 0 .. NumRx - 1 : RxSlot(i) = RxSlot(j) => i = j
           /\ \A c \in RxBds : \E i \in 0 .. NumRx - 1 : c = RxSlot(i)
           /\ RxSlot(0) = rxch.recv_head
           /\ \A i \in 0 .. NumRx - 1 : RxSlot(i + 1) = Rot(NumRx, RxSlot(i), 1)
           /\ Posted > 0 => rxch.recv_tail = RxSlot(Posted - 1)
           /\ Posted = 0 => rxch.recv_tail = RxSlot(NumRx - 1)
           /\ \A j \in 0 .. rxch.free_num - 1 :
                  Rot(NumRx, rxch.free_head, j) = RxSlot(Posted + j)
           /\ \A i \in 0 .. Posted - 1 :
                  Closed[RxSlot(i)].next = IF i = Posted - 1 THEN NULL ELSE RxSlot(i + 1)
<1>1. /\ NumRx \in Nat /\ NumRx # 0 /\ RxBds = 1 .. NumRx
      /\ rxch.free_head \in RxBds /\ rxch.recv_head \in RxBds /\ rxch.recv_tail \in RxBds
      /\ rxch.free_num \in 0 .. NumRx /\ Posted \in 0 .. NumRx
  BY RxTypes
<1>2. ASSUME NEW i \in 0 .. NumRx PROVE RxSlot(i) \in RxBds
  BY <1>1, RotType DEF RxSlot
<1>3. ASSUME NEW i \in 0 .. NumRx - 1, NEW j \in 0 .. NumRx - 1, RxSlot(i) = RxSlot(j)
      PROVE  i = j
  BY <1>1, <1>3, RotInjective DEF RxSlot
<1>4. ASSUME NEW c \in RxBds PROVE \E i \in 0 .. NumRx - 1 : c = RxSlot(i)
  BY <1>1, RotOnto DEF RxSlot
<1>5. RxSlot(0) = rxch.recv_head
  BY <1>1, RotRound DEF RxSlot
<1>6. ASSUME NEW i \in 0 .. NumRx - 1 PROVE RxSlot(i + 1) = Rot(NumRx, RxSlot(i), 1)
  BY <1>1, RotAdd DEF RxSlot
<1>7. rxch.recv_tail = RxSlot(IF Posted = 0 THEN NumRx - 1 ELSE Posted - 1)
  <2>1. rxch.recv_head = Rot(NumRx, Rot(NumRx, rxch.recv_tail, 1), rxch.free_num)
    BY DEF RxRing
  <2>2. /\ rxch.free_num = NumRx <=> Posted = 0
        /\ NumRx - rxch.free_num - 1 = Posted - 1
    BY <1>1 DEF Posted
  <2> QED BY <1>1, <2>1, <2>2, RotTail DEF RxSlot
<1>8. /\ Posted > 0 => rxch.recv_tail = RxSlot(Posted - 1)
      /\ Posted = 0 => rxch.recv_tail = RxSlot(NumRx - 1)
  BY <1>1, <1>7
<1>9. ASSUME NEW j \in 0 .. rxch.free_num - 1
      PROVE  Rot(NumRx, rxch.free_head, j) = RxSlot(Posted + j)
  <2>1. rxch.recv_head = Rot(NumRx, rxch.free_head, rxch.free_num)
    BY DEF RxRing
  <2>2. j \in 0 .. NumRx /\ j < rxch.free_num
    BY <1>1
  <2> QED BY <1>1, <2>1, <2>2, RotRest DEF RxSlot, Posted
<1>10. ASSUME NEW i \in 0 .. Posted - 1
       PROVE  Closed[RxSlot(i)].next = IF i = Posted - 1 THEN NULL ELSE RxSlot(i + 1)
  <2>1. i \in 0 .. NumRx - 1 /\ Posted - 1 \in 0 .. NumRx - 1 /\ i \in 0 .. NumRx
    BY <1>1
  <2>2. RxSlot(i) \in RxBds /\ RxSlot(i + 1) = Rot(NumRx, RxSlot(i), 1)
    BY <1>2, <1>6, <2>1
  <2>3. RxSlot(i) = rxch.recv_tail <=> i = Posted - 1
    BY <1>1, <1>3, <1>7, <2>1
  <2> QED BY <2>2, <2>3 DEF RxRing
<1> QED BY <1>2, <1>3, <1>4, <1>5, <1>6, <1>7, <1>8, <1>9, <1>10

\* What the transmit side and the other handlers do leaves the receive ring as it is.
LEMMA RxFrame ==
    ASSUME TypeOK, CpuOK, RxInv, UNCHANGED <<Closed, rxch, rxdma, filled, dry, env>>,
           Given' = Given, InRxHandler' <=> InRxHandler,
           cpu.pc \notin {"rx_eoi", "linked", "posted"},
           cpu'.pc \notin {"rx_eoi", "linked", "posted"}
    PROVE  RxInv'
<1>1. Posted' = Posted /\ Filled' = Filled /\ \A i : RxSlot(i)' = RxSlot(i)
  BY DEF Posted, Filled, RxSlot
<1>2. RxRing'
  BY DEF RxInv, RxRing
<1>3. RxFilled'
  BY <1>1 DEF RxInv, RxFilled
<1>4. RxEnds'
  BY DEF RxInv, RxEnds
<1>5. RxAwake'
  BY <1>1 DEF RxInv, RxAwake
<1> QED BY <1>2, <1>3, <1>4, <1>5 DEF RxInv

\* The engine latching the link of the descriptor it fills keeps the receive ring.
LEMMA RxBeginKeeps ==
    ASSUME TypeOK, CpuOK, RxInv, RxBeginSeen
    PROVE  RxInv'
<1>1. UNCHANGED <<Closed, rxch, filled, dry, cpu, env>>
  BY DEF RxBeginSeen
<1>2. /\ rxdma.at # NULL /\ rxdma'.at = rxdma.at /\ rxdma'.next = Closed[rxdma.at].next
      /\ rxdma'.latched /\ rxdma'.armed = rxdma.armed /\ rxdma'.pulse = rxdma.pulse
  BY DEF RxBeginSeen, TypeOK, DmaType
<1>3. Posted' = Posted /\ Filled' = Filled /\ Given' = Given /\ \A i : RxSlot(i)' = RxSlot(i)
  BY <1>1 DEF Posted, Filled, RxSlot, Given
<1>4. RxRing'
  BY <1>1 DEF RxInv, RxRing
<1>5. RxFilled'
  <2>1. Filled < Posted /\ rxdma.at = RxSlot(Filled) /\ Filled \in 0 .. Posted - 1
    BY <1>2, RxTypes DEF RxInv, RxFilled
  <2>2. Closed[RxSlot(Filled)].next = IF Filled = Posted - 1 THEN NULL ELSE RxSlot(Filled + 1)
    BY <2>1, RxSlots DEF RxInv
  <2>3. rxdma'.next # NULL => Filled + 1 < Posted /\ rxdma'.next = RxSlot(Filled + 1)
    <3>1. Filled \in Nat /\ Posted \in Nat
      BY RxTypes
    <3>2. rxdma'.next = IF Filled = Posted - 1 THEN NULL ELSE RxSlot(Filled + 1)
      BY <1>2, <2>1, <2>2
    <3> QED BY <2>1, <3>1, <3>2
  <2> QED BY <1>1, <1>2, <1>3, <2>3 DEF RxInv, RxFilled
<1>6. RxEnds'
  BY <1>1, <1>2, <1>3 DEF RxInv, RxEnds
<1>7. RxAwake'
  BY <1>1, <1>2, <1>3 DEF RxInv, RxAwake, InRxHandler
<1> QED BY <1>4, <1>5, <1>6, <1>7 DEF RxInv

\* The engine completing a descriptor keeps the receive ring.
LEMMA RxDoneKeeps ==
    ASSUME TypeOK, CpuOK, RxInv, RxDoneSeen
    PROVE  RxInv'
<1> DEFINE at == rxdma.at
           next == NextOf(rxdma, at, Closed)
<1>1. UNCHANGED <<rxch, dry, cpu, env>> /\ at # NULL /\ at \in RxBds
  BY RxTypes DEF RxDoneSeen
<1>2. /\ rxdma'.at = next /\ ~rxdma'.latched
      /\ rxdma'.pulse <=> rxdma.pulse \/ rxdma.armed
  BY DEF RxDoneSeen, Complete, TypeOK, DmaType
<1>3. /\ Closed' = [Closed EXCEPT ![at].owner = FALSE, ![at].eoq = (next = NULL)]
      /\ Closed \in [RxBds -> RxBdType]
  BY RxTypes DEF RxDoneSeen
<1> HIDE DEF next
<1>4. ASSUME NEW b \in RxBds
      PROVE  /\ Closed'[b].next = Closed[b].next /\ Closed'[b].pbuf = Closed[b].pbuf
             /\ Closed'[b].owner <=> b # at /\ Closed[b].owner
             /\ Closed'[b].eoq <=> IF b = at THEN next = NULL ELSE Closed[b].eoq
  BY <1>1, <1>3 DEF RxBdType
<1>5. Given' = Given /\ Posted' = Posted /\ \A i : RxSlot(i)' = RxSlot(i)
  BY <1>1 DEF Posted, RxSlot, Given
<1>6. /\ Len(filled') = Len(filled) + 1 /\ filled' # << >>
      /\ \A i \in 1 .. Len(filled) : filled'[i] = filled[i]
      /\ filled'[Len(filled) + 1] = Closed[at].pbuf
  <2>1. filled' = Append(filled, Closed[at].pbuf) /\ filled \in Seq(Pool)
    BY RxTypes DEF RxDoneSeen
  <2>2. Closed[at].pbuf \in Pool
    BY <1>1, <1>3 DEF RxBdType
  <2> QED BY <2>1, <2>2, AppendProperties
<1>7. /\ Filled' = Filled + 1 /\ Filled < Posted /\ at = RxSlot(Filled)
      /\ Filled \in 0 .. Posted - 1 /\ Filled \in 0 .. NumRx - 1
      /\ Posted - 1 \in 0 .. NumRx - 1 /\ Posted \in Nat /\ Posted > 0 /\ NumRx \in Nat
  BY <1>1, <1>5, <1>6, RxTypes DEF Filled, RxInv, RxFilled
<1>8. \/ next = NULL
      \/ next # NULL /\ Filled + 1 < Posted /\ next = RxSlot(Filled + 1)
  <2>1. CASE env.ahead
    BY <2>1 DEF next, NextOf, RxDoneSeen, RxInv, RxFilled
  <2>2. CASE ~env.ahead
    <3>1. Closed[RxSlot(Filled)].next = IF Filled = Posted - 1 THEN NULL ELSE RxSlot(Filled + 1)
      BY <1>7, RxSlots DEF RxInv
    <3> QED BY <1>7, <2>2, <3>1, RxTypes DEF next, NextOf
  <2> QED BY <2>1, <2>2
<1>9. ~env.ahead => next = Closed[at].next
  BY DEF next, NextOf
<1>10. at = rxch.recv_tail <=> Filled + 1 = Posted
  <2>1. rxch.recv_tail = RxSlot(Posted - 1)
    BY <1>7, RxSlots DEF RxInv
  <2>2. RxSlot(Filled) = RxSlot(Posted - 1) => Filled = Posted - 1
    BY <1>7, RxSlots DEF RxInv
  <2> QED BY <1>7, <2>1, <2>2
<1>11. RxRing'
  BY <1>1, <1>4 DEF RxInv, RxRing
<1>12. RxFilled'
  <2>1. Filled' <= Posted'
    BY <1>5, <1>7, RxTypes
  <2>2. ASSUME NEW i \in 0 .. NumRx - 1
        PROVE  Closed'[RxSlot(i)].owner <=> ~(Given <= i /\ i < Filled + 1)
    <3>1. RxSlot(i) \in RxBds /\ (RxSlot(i) = at <=> i = Filled)
      <4>1. i \in 0 .. NumRx
        BY <1>7
      <4> QED BY <1>7, <4>1, RxSlots DEF RxInv
    <3>2. Closed[RxSlot(i)].owner <=> ~(Given <= i /\ i < Filled)
      BY DEF RxInv, RxFilled
    <3> QED BY <1>4, <3>1, <3>2, RxTypes
  <2>3. ASSUME NEW i \in 1 .. Len(filled) + 1
        PROVE  Closed'[RxSlot(Given + i - 1)].pbuf = filled'[i]
    <3>1. Given + i - 1 \in 0 .. NumRx
      <4>1. /\ Given \in {0, 1} /\ Len(filled) \in Nat /\ NumRx \in Nat
            /\ Filled = Given + Len(filled) /\ Filled < NumRx
        BY <1>7, RxTypes DEF Filled
      <4> HIDE DEF next, at
      <4> QED BY <4>1
    <3>2. RxSlot(Given + i - 1) \in RxBds
      BY <3>1, RxSlots DEF RxInv
    <3>3. CASE i \in 1 .. Len(filled)
      BY <1>4, <1>6, <3>2, <3>3 DEF RxInv, RxFilled
    <3>4. CASE i = Len(filled) + 1
      <4>1. Given + i - 1 = Filled
        BY <3>4, RxTypes DEF Filled
      <4> QED BY <1>4, <1>6, <1>7, <3>2, <3>4, <4>1
    <3> QED BY <3>3, <3>4, RxTypes
  <2> QED BY <1>2, <1>5, <1>6, <1>7, <1>8, <2>1, <2>2, <2>3 DEF RxFilled
<1>13. RxEnds'
  <2>1. \A b \in RxBds : Closed'[b].eoq => ~Closed'[b].owner
    BY <1>4 DEF RxInv, RxEnds
  <2>2. Closed'[rxch.recv_tail].eoq => rxdma'.at = NULL
    BY <1>1, <1>2, <1>4, RxTypes DEF RxInv, RxEnds
  <2>3. ~Closed'[rxch.recv_tail].owner => Closed'[rxch.recv_tail].eoq
    BY <1>4, <1>8, <1>10, RxTypes DEF RxInv, RxEnds
  <2>4. CASE cpu.pc \in {"linked", "posted"}
    <3>1. cpu.tail \in RxBds /\ cpu.head = Rot(NumRx, cpu.tail, 1)
      BY <2>4 DEF RxInv, RxEnds
    <3>2. Closed'[cpu.tail].eoq => cpu.tail = at /\ next = NULL
      BY <1>1, <1>4, <2>4, <3>1 DEF RxInv, RxEnds
    <3>3. Closed'[cpu.tail].eoq =>
             rxdma'.at = NULL /\ Filled' > 0 /\ cpu.tail = RxSlot(Filled' - 1)
      <4>1. Filled' > 0 /\ Filled' - 1 = Filled
        BY <1>7
      <4> QED BY <1>2, <1>7, <3>2, <4>1
    <3>4. at = rxch.recv_tail => cpu.tail # rxch.recv_tail
      BY <2>4 DEF RxDoneSeen, Overtakes
    <3> QED BY <1>1, <1>5, <2>1, <2>2, <2>3, <2>4, <3>1, <3>2, <3>3, <3>4 DEF RxEnds
  <2> QED BY <1>1, <2>1, <2>2, <2>3, <2>4 DEF RxEnds
<1>14. RxAwake'
  <2>1. InRxHandler' <=> InRxHandler
    BY <1>1 DEF InRxHandler
  <2>2. ~InRxHandler => rxdma'.pulse
    BY <1>2 DEF RxInv, RxAwake
  <2>3. next = NULL /\ ~env.ahead => Filled + 1 = Posted
    <3>1. Closed[at].next = IF at = rxch.recv_tail THEN NULL ELSE Rot(NumRx, at, 1)
      BY <1>1 DEF RxInv, RxRing
    <3>2. Rot(NumRx, at, 1) # NULL
      <4>1. NumRx \in Nat /\ at \in 1 .. NumRx /\ 1 \in 0 .. NumRx
        BY <1>1, RxTypes
      <4>2. Rot(NumRx, at, 1) \in 1 .. NumRx
        <5> HIDE DEF at
        <5> QED BY <4>1, RotType
      <4> QED BY <4>2 DEF NULL
    <3> QED BY <1>9, <1>10, <3>1, <3>2
  <2> QED BY <1>1, <1>2, <1>5, <1>7, <2>1, <2>2, <2>3 DEF RxInv, RxAwake
<1> QED BY <1>11, <1>12, <1>13, <1>14 DEF RxInv

\* Entering the receive handler keeps the receive ring.
LEMMA RxIsrKeeps ==
    ASSUME TypeOK, CpuOK, RxInv, RxIsrSeen
    PROVE  RxInv'
<1>1. UNCHANGED <<Closed, rxch, filled, dry, env>>
  BY DEF RxIsrSeen, RxIsr
<1>2. cpu.pc = "stack" /\ cpu'.pc = "rx" /\ cpu'.ret = cpu.ret /\ cpu.ret # "input"
  BY DEF RxIsrSeen, RxIsr, CpuOK, TypeOK
<1>3. /\ rxdma'.at = rxdma.at /\ rxdma'.next = rxdma.next
      /\ rxdma'.latched <=> rxdma.latched
  BY DEF RxIsrSeen, RxIsr, TypeOK, DmaType
<1>4. Posted' = Posted /\ Filled' = Filled /\ Given' = Given /\ \A i : RxSlot(i)' = RxSlot(i)
  BY <1>1, <1>2 DEF Posted, Filled, RxSlot, Given
<1>5. RxRing'
  BY <1>1 DEF RxInv, RxRing
<1>6. RxFilled'
  BY <1>1, <1>3, <1>4 DEF RxInv, RxFilled
<1>7. RxEnds'
  BY <1>1, <1>2, <1>3 DEF RxInv, RxEnds
<1>8. RxAwake'
  BY <1>1, <1>2, <1>3, <1>4 DEF RxInv, RxAwake, InRxHandler
<1> QED BY <1>5, <1>6, <1>7, <1>8 DEF RxInv

\* Handing the oldest frame to the stack keeps the receive ring.
LEMMA RxPacketKeeps ==
    ASSUME TypeOK, CpuOK, RxInv, RxPacketSeen
    PROVE  RxInv' /\ filled # << >> /\ Given = 0 /\ Given' = 1 /\ 0 < Posted
<1> DEFINE b == rxch.recv_head
<1>1. UNCHANGED <<rxch, rxdma, dry, env>> /\ b \in RxBds /\ ~Closed[b].owner
  BY RxTypes DEF RxPacketSeen
<1>2. cpu.pc = "rx" /\ cpu'.pc = "input" /\ cpu.ret # "input"
  BY DEF RxPacketSeen, CpuOK, TypeOK
<1>3. Given = 0 /\ Given' = 1 /\ Posted' = Posted /\ \A i : RxSlot(i)' = RxSlot(i)
  BY <1>1, <1>2 DEF Given, Posted, RxSlot
<1>4. /\ Posted \in Nat /\ Filled \in Nat /\ Len(filled) \in Nat /\ NumRx \in Nat \ {0}
      /\ Filled = Len(filled) /\ Filled <= Posted /\ Posted <= NumRx
  BY <1>3, RxTypes DEF Filled, RxInv, RxFilled
<1>5. b = RxSlot(0) /\ 0 < Filled
  <2>1. b = RxSlot(0)
    BY RxSlots DEF RxInv
  <2>2. 0 \in 0 .. NumRx - 1
    BY <1>4
  <2>3. Closed[RxSlot(0)].owner <=> ~(Given <= 0 /\ 0 < Filled)
    BY <2>2 DEF RxInv, RxFilled
  <2> QED BY <1>1, <1>3, <2>1, <2>3
<1>6. filled # << >>
  BY <1>4, <1>5, EmptySeq
<1>7. Len(filled') = Len(filled) - 1 /\ \A i \in 1 .. Len(filled') : filled'[i] = filled[i + 1]
  <2>1. filled' = Tail(filled) /\ filled \in Seq(Pool)
    BY RxTypes DEF RxPacketSeen
  <2> QED BY <1>6, <2>1, HeadTailProperties
<1>8. Filled' = Filled
  BY <1>3, <1>4, <1>7 DEF Filled
<1>9. Closed' = [Closed EXCEPT ![b].owner = TRUE, ![b].eoq = FALSE] /\ Closed \in [RxBds -> RxBdType]
  BY RxTypes DEF RxPacketSeen
<1>10. ASSUME NEW c \in RxBds
       PROVE  /\ Closed'[c].next = Closed[c].next /\ Closed'[c].pbuf = Closed[c].pbuf
              /\ Closed'[c].owner <=> c = b \/ Closed[c].owner
              /\ Closed'[c].eoq <=> c # b /\ Closed[c].eoq
  BY <1>1, <1>9 DEF RxBdType
<1>11. RxRing'
  BY <1>1, <1>10 DEF RxInv, RxRing
<1>12. RxFilled'
  <2>1. ASSUME NEW i \in 0 .. NumRx - 1
        PROVE  Closed'[RxSlot(i)].owner <=> ~(1 <= i /\ i < Filled)
    <3>1. RxSlot(i) \in RxBds /\ (RxSlot(i) = b <=> i = 0)
      <4>1. i \in 0 .. NumRx /\ 0 \in 0 .. NumRx - 1
        BY <1>4
      <4> QED BY <1>5, <4>1, RxSlots DEF RxInv
    <3>2. Closed[RxSlot(i)].owner <=> ~(Given <= i /\ i < Filled)
      BY DEF RxInv, RxFilled
    <3> QED BY <1>3, <1>4, <1>10, <3>1, <3>2
  <2>2. ASSUME NEW i \in 1 .. Len(filled')
        PROVE  Closed'[RxSlot(1 + i - 1)].pbuf = filled'[i]
    <3>1. i + 1 \in 1 .. Len(filled) /\ Given + (i + 1) - 1 = 1 + i - 1 /\ i \in 0 .. NumRx
          /\ 1 + i - 1 = i
      BY <1>3, <1>4, <1>7
    <3>2. Closed[RxSlot(1 + i - 1)].pbuf = filled[i + 1]
      BY <3>1 DEF RxInv, RxFilled
    <3>3. RxSlot(1 + i - 1) \in RxBds
      BY <3>1, RxSlots DEF RxInv
    <3> QED BY <1>7, <1>10, <3>2, <3>3
  <2> QED BY <1>1, <1>3, <1>4, <1>8, <2>1, <2>2 DEF RxInv, RxFilled
<1>13. RxEnds'
  <2>1. rxch.recv_tail \in RxBds
    BY RxTypes
  <2> QED BY <1>1, <1>2, <1>10, <2>1 DEF RxInv, RxEnds
<1>14. RxAwake'
  BY <1>1, <1>2, <1>3, <1>8 DEF RxInv, RxAwake, InRxHandler
<1>15. 0 < Posted
  BY <1>4, <1>5
<1> QED BY <1>3, <1>6, <1>11, <1>12, <1>13, <1>14, <1>15 DEF RxInv

\* The descriptor given to the stack joins the free ones: the places in use move on.
LEMMA RxNextMoves ==
    ASSUME TypeOK, CpuOK, RxInv, RxNextSeen
    PROVE  /\ rxch.free_num + 1 <= NumRx /\ rxch'.recv_head \in RxBds
           /\ rxch'.recv_head = Rot(NumRx, rxch.free_head, rxch.free_num + 1)
           /\ rxch'.free_head = rxch.free_head /\ rxch'.recv_tail = rxch.recv_tail
           /\ rxch'.free_num = rxch.free_num + 1
           /\ Given = 1 /\ Given' = 0 /\ Posted \in Nat \ {0} /\ Posted' = Posted - 1
           /\ Filled \in Nat \ {0} /\ Filled' = Filled - 1 /\ Filled <= Posted /\ Posted <= NumRx
           /\ Closed[rxch.recv_head].next = NULL <=> Posted = 1
           /\ \A i \in 0 .. NumRx - 1 : RxSlot(i)' = RxSlot(i + 1)
           /\ UNCHANGED <<Closed, filled, dry, env>>
<1> DEFINE h == rxch.recv_head
           next == Closed[h].next
<1>1. UNCHANGED <<Closed, filled, dry, env>>
  BY DEF RxNextSeen
<1>2. cpu.pc = "input" /\ cpu'.pc \in {"rx", "rx_eoi"} /\ cpu'.ret = cpu.ret /\ cpu.ret # "input"
  BY DEF RxNextSeen, CpuOK, TypeOK
<1>3. Given = 1 /\ Given' = 0
  BY <1>2 DEF Given
<1>4. /\ Posted \in Nat \ {0} /\ Filled \in Nat \ {0} /\ Len(filled) \in Nat
      /\ NumRx \in Nat \ {0} /\ Filled = 1 + Len(filled) /\ Filled <= Posted /\ Posted <= NumRx
  BY <1>3, RxTypes DEF Filled, RxInv, RxFilled
<1>5. /\ rxch'.free_head = rxch.free_head /\ rxch'.recv_tail = rxch.recv_tail
      /\ rxch'.free_num = rxch.free_num + 1
      /\ rxch'.recv_head = IF next = NULL THEN rxch.free_head ELSE next
  BY RxTypes DEF RxNextSeen
<1>6. rxch.free_num \in 0 .. NumRx /\ rxch.free_num + 1 <= NumRx /\ Posted' = Posted - 1
  BY <1>4, <1>5, RxTypes DEF Posted
<1>7. Filled' = Filled - 1
  BY <1>1, <1>3, <1>4 DEF Filled
<1>8. h = RxSlot(0) /\ next = IF 0 = Posted - 1 THEN NULL ELSE RxSlot(0 + 1)
  <2>1. 0 \in 0 .. Posted - 1
    BY <1>4
  <2> QED BY <2>1, RxSlots DEF RxInv
<1>9. RxSlot(1) \in RxBds
  <2>1. 1 \in 0 .. NumRx
    BY <1>4
  <2> QED BY <2>1, RxSlots DEF RxInv
<1>10. next = NULL <=> Posted = 1
  BY <1>4, <1>8, <1>9, RxTypes
<1>11. rxch'.recv_head = RxSlot(1)
  <2>1. CASE Posted = 1
    <3>1. rxch.recv_tail = RxSlot(0)
      BY <2>1, RxSlots DEF RxInv
    <3>2. RxSlot(1) = Rot(NumRx, RxSlot(0), 1)
      <4>1. 0 \in 0 .. NumRx - 1 /\ 0 + 1 = 1
        BY <1>4
      <4> QED BY <4>1, RxSlots DEF RxInv
    <3> QED BY <1>5, <1>10, <2>1, <3>1, <3>2 DEF RxInv, RxRing
  <2>2. CASE Posted # 1
    BY <1>4, <1>5, <1>8, <1>10, <2>2
  <2> QED BY <2>1, <2>2
<1>12. rxch'.recv_head = Rot(NumRx, rxch.free_head, rxch.free_num + 1)
  <2>1. h = Rot(NumRx, rxch.free_head, rxch.free_num)
    BY DEF RxInv, RxRing
  <2>2. NumRx \in Nat /\ rxch.free_head \in 1 .. NumRx /\ rxch.free_num \in 0 .. NumRx
        /\ 1 \in 0 .. NumRx
    BY <1>4, RxTypes
  <2> QED BY <1>6, <1>11, <2>1, <2>2, RotAdd DEF RxSlot
<1>13. ASSUME NEW i \in 0 .. NumRx - 1 PROVE RxSlot(i)' = RxSlot(i + 1)
  <2>1. NumRx \in Nat /\ h \in 1 .. NumRx /\ 1 \in 0 .. NumRx /\ i \in 0 .. NumRx
        /\ 1 + i <= NumRx /\ 1 + i = i + 1
    BY <1>4, RxTypes
  <2>2. RxSlot(i)' = Rot(NumRx, Rot(NumRx, h, 1), i)
    BY <1>11 DEF RxSlot
  <2>3. Rot(NumRx, Rot(NumRx, h, 1), i) = Rot(NumRx, h, 1 + i)
    BY <2>1, RotAdd
  <2> QED BY <2>1, <2>2, <2>3 DEF RxSlot
<1> QED BY <1>1, <1>3, <1>4, <1>5, <1>6, <1>7, <1>9, <1>10, <1>11, <1>12, <1>13

\* Moving past the descriptor handed over keeps the receive ring.
LEMMA RxNextKeeps ==
    ASSUME TypeOK, CpuOK, RxInv, RxNextSeen
    PROVE  RxInv'
<1> DEFINE Slot(i) == Rot(NumRx, rxch'.recv_head, i)
<1>1. /\ rxch'.recv_head = Rot(NumRx, rxch.free_head, rxch.free_num + 1)
      /\ rxch'.free_head = rxch.free_head /\ rxch'.recv_tail = rxch.recv_tail
      /\ rxch'.free_num = rxch.free_num + 1
      /\ Given = 1 /\ Given' = 0 /\ Posted \in Nat \ {0} /\ Posted' = Posted - 1
      /\ Filled \in Nat \ {0} /\ Filled' = Filled - 1 /\ Filled <= Posted /\ Posted <= NumRx
      /\ Closed[rxch.recv_head].next = NULL <=> Posted = 1
      /\ \A i \in 0 .. NumRx - 1 : Slot(i) = RxSlot(i + 1)
      /\ UNCHANGED <<Closed, filled, dry, env>>
  BY RxNextMoves DEF RxSlot
<1>2. /\ rxdma'.at = rxdma.at /\ rxdma'.next = rxdma.next
      /\ rxdma'.latched <=> rxdma.latched
  BY DEF RxNextSeen, WriteCP, TypeOK, DmaType
<1>3. /\ cpu.pc = "input"
      /\ cpu'.pc = IF Closed[rxch.recv_head].next = NULL THEN "rx_eoi" ELSE "rx"
  BY DEF RxNextSeen, TypeOK
<1>4. NumRx \in Nat \ {0} /\ Len(filled) \in Nat /\ Filled = 1 + Len(filled)
  BY <1>1, RxTypes DEF Filled
<1> HIDE DEF Slot
<1>5. RxRing'
  BY <1>1 DEF RxInv, RxRing
<1>6. RxFilled'
  <2>1. ASSUME NEW i \in 0 .. NumRx - 1
        PROVE  Closed[RxSlot(i + 1)].owner <=> ~(0 <= i /\ i < Filled - 1)
    <3>1. CASE i + 1 \in 0 .. NumRx - 1
      <4>1. Closed[RxSlot(i + 1)].owner <=> ~(Given <= i + 1 /\ i + 1 < Filled)
        BY <3>1 DEF RxInv, RxFilled
      <4> QED BY <1>1, <4>1
    <3>2. CASE i + 1 = NumRx
      <4>1. RxSlot(i + 1) = RxSlot(0)
        <5>1. NumRx \in Nat /\ rxch.recv_head \in 1 .. NumRx
          BY RxTypes
        <5> QED BY <3>2, <5>1, RotRound DEF RxSlot
      <4>2. 0 \in 0 .. NumRx - 1
        BY <1>4
      <4>3. Closed[RxSlot(0)].owner <=> ~(Given <= 0 /\ 0 < Filled)
        BY <4>2 DEF RxInv, RxFilled
      <4> QED BY <1>1, <1>4, <3>2, <4>1, <4>3
    <3> QED BY <1>4, <3>1, <3>2
  <2>2. ASSUME NEW i \in 1 .. Len(filled)
        PROVE  Closed[Slot(0 + i - 1)].pbuf = filled[i]
    <3>1. 0 + i - 1 \in 0 .. NumRx - 1 /\ (0 + i - 1) + 1 = Given + i - 1
      BY <1>1, <1>4
    <3>2. Slot(0 + i - 1) = RxSlot(Given + i - 1)
      BY <1>1, <3>1
    <3> QED BY <3>2 DEF RxInv, RxFilled
  <2>3. rxdma.at # NULL => Filled' < Posted' /\ rxdma.at = Slot(Filled')
    <3>1. SUFFICES ASSUME rxdma.at # NULL PROVE Filled' < Posted' /\ rxdma.at = Slot(Filled')
      OBVIOUS
    <3>2. Filled < Posted /\ rxdma.at = RxSlot(Filled)
      BY <3>1 DEF RxInv, RxFilled
    <3>3. Filled - 1 \in 0 .. NumRx - 1 /\ (Filled - 1) + 1 = Filled /\ Filled - 1 < Posted - 1
      BY <1>1, <1>4, <3>2
    <3> QED BY <1>1, <3>2, <3>3
  <2>4. rxdma.latched /\ rxdma.next # NULL =>
            Filled' + 1 < Posted' /\ rxdma.next = Slot(Filled' + 1)
    <3>1. SUFFICES ASSUME rxdma.latched /\ rxdma.next # NULL
                   PROVE  Filled' + 1 < Posted' /\ rxdma.next = Slot(Filled' + 1)
      OBVIOUS
    <3>2. Filled + 1 < Posted /\ rxdma.next = RxSlot(Filled + 1)
      BY <3>1 DEF RxInv, RxFilled
    <3>3. Filled' + 1 \in 0 .. NumRx - 1 /\ (Filled' + 1) + 1 = Filled + 1
          /\ Filled' + 1 < Posted'
      BY <1>1, <1>4, <3>2
    <3> QED BY <1>1, <3>2, <3>3
  <2>5. Filled' <= Posted'
    BY <1>1
  <2>6. ASSUME NEW i \in 0 .. NumRx - 1
        PROVE  Closed'[Slot(i)].owner <=> ~(Given' <= i /\ i < Filled')
    BY <1>1, <2>1
  <2>7. ASSUME NEW i \in 1 .. Len(filled')
        PROVE  Closed'[Slot(Given' + i - 1)].pbuf = filled'[i]
    BY <1>1, <2>2
  <2>8. rxdma.latched => rxdma.at # NULL
    BY DEF RxInv, RxFilled
  <2> QED BY <1>2, <2>3, <2>4, <2>5, <2>6, <2>7, <2>8 DEF RxFilled, RxSlot, Slot
<1>7. RxEnds'
  BY <1>1, <1>2, <1>3 DEF RxInv, RxEnds
<1>8. RxAwake'
  BY <1>1, <1>2, <1>3 DEF RxInv, RxAwake, InRxHandler
<1> QED BY <1>5, <1>6, <1>7, <1>8 DEF RxInv

\* The end of the receive handler's loop, the EOI included, keeps the receive ring.
LEMMA RxEndKeeps ==
    ASSUME TypeOK, CpuOK, RxInv, RxEndSeen
    PROVE  RxInv'
<1>1. UNCHANGED <<Closed, rxch, filled, dry, env>>
  BY DEF RxEndSeen
<1>2. /\ cpu.pc \in {"rx", "rx_eoi"} /\ cpu'.pc = "alloc" /\ cpu'.ret = cpu.ret
      /\ cpu.ret # "input"
  BY DEF RxEndSeen, CpuOK, TypeOK
<1>3. /\ rxdma'.at = rxdma.at /\ rxdma'.next = rxdma.next
      /\ rxdma'.latched <=> rxdma.latched
      /\ rxdma'.armed \/ rxdma'.pulse
  BY DEF RxEndSeen, WriteEOI, TypeOK, DmaType
<1>4. /\ Given = 0 /\ Posted' = Posted /\ Filled' = Filled /\ Given' = Given
      /\ \A i : RxSlot(i)' = RxSlot(i)
  BY <1>1, <1>2 DEF Posted, Filled, RxSlot, Given
<1>5. filled = << >>
  <2>1. Filled = Len(filled) /\ Len(filled) \in Nat /\ NumRx \in Nat \ {0} /\ filled \in Seq(Pool)
    BY <1>4, RxTypes DEF Filled
  <2>2. CASE cpu.pc = "rx"
    <3>1. Closed[rxch.recv_head].owner /\ rxch.recv_head = RxSlot(0) /\ 0 \in 0 .. NumRx - 1
      BY <2>1, <2>2, RxSlots DEF RxEndSeen, RxInv
    <3>2. ~(Given <= 0 /\ 0 < Filled)
      BY <3>1 DEF RxInv, RxFilled
    <3>3. Len(filled) = 0
      BY <1>4, <2>1, <3>2
    <3> QED BY <2>1, <3>3, EmptySeq
  <2>3. CASE cpu.pc = "rx_eoi"
    <3>1. Posted = 0 /\ Filled <= Posted
      BY <2>3 DEF RxInv, RxAwake, RxFilled
    <3>2. Len(filled) = 0
      BY <2>1, <3>1
    <3> QED BY <2>1, <3>2, EmptySeq
  <2> QED BY <1>2, <2>2, <2>3
<1>6. RxRing'
  BY <1>1 DEF RxInv, RxRing
<1>7. RxFilled'
  BY <1>1, <1>3, <1>4 DEF RxInv, RxFilled
<1>8. RxEnds'
  BY <1>1, <1>2, <1>3 DEF RxInv, RxEnds
<1>9. RxAwake'
  BY <1>1, <1>2, <1>3, <1>4, <1>5 DEF RxInv, RxAwake, InRxHandler
<1> QED BY <1>6, <1>7, <1>8, <1>9 DEF RxInv

\* A refill that finds nothing to post keeps the receive ring.
LEMMA AllocNoneKeeps ==
    ASSUME TypeOK, CpuOK, RxInv, AllocNoneSeen
    PROVE  RxInv'
<1>1. UNCHANGED <<Closed, rxch, rxdma, filled, env>> /\ (dry => dry')
  BY DEF AllocNoneSeen, AllocNone
<1>2. cpu.pc = "alloc" /\ cpu'.pc = "stack" /\ cpu'.ret = cpu.ret
  BY DEF AllocNoneSeen, AllocNone, TypeOK
<1>3. Posted' = Posted /\ Filled' = Filled /\ Given' = Given /\ \A i : RxSlot(i)' = RxSlot(i)
  BY <1>1, <1>2 DEF Posted, Filled, RxSlot, Given
<1>4. RxRing'
  BY <1>1 DEF RxInv, RxRing
<1>5. RxFilled'
  BY <1>1, <1>3 DEF RxInv, RxFilled
<1>6. RxEnds'
  BY <1>1, <1>2 DEF RxInv, RxEnds
<1>7. RxAwake'
  BY <1>1, <1>2, <1>3 DEF RxInv, RxAwake, InRxHandler
<1> QED BY <1>4, <1>5, <1>6, <1>7 DEF RxInv

\* The refill restarting the engine keeps the receive ring, and starts it only halted.
LEMMA AllocKickKeeps ==
    ASSUME TypeOK, CpuOK, RxInv, AllocKickSeen
    PROVE  RxInv' /\ rxdma'.clobbered = rxdma.clobbered
<1>1. UNCHANGED <<Closed, rxch, filled, dry, env>>
  BY DEF AllocKickSeen
<1>2. cpu.pc = "posted" /\ cpu'.pc = "stack" /\ cpu'.ret = cpu.ret /\ cpu.ret # "input"
  BY DEF AllocKickSeen, CpuOK, TypeOK
<1>3. /\ Posted' = Posted /\ Filled' = Filled /\ Given = 0 /\ Given' = 0
      /\ \A i : RxSlot(i)' = RxSlot(i)
  BY <1>1, <1>2 DEF Posted, Filled, RxSlot, Given
<1>4. RxRing'
  BY <1>1 DEF RxInv, RxRing
<1>5. CASE ~Closed[cpu.tail].eoq
  <2>1. UNCHANGED rxdma
    BY <1>5 DEF AllocKickSeen
  <2>2. RxFilled'
    BY <1>1, <1>3, <2>1 DEF RxInv, RxFilled
  <2>3. RxEnds'
    BY <1>1, <1>2, <2>1 DEF RxInv, RxEnds
  <2>4. RxAwake'
    BY <1>1, <1>2, <1>3, <1>5, <2>1 DEF RxInv, RxAwake, InRxHandler
  <2> QED BY <1>4, <2>1, <2>2, <2>3, <2>4 DEF RxInv
<1>6. CASE Closed[cpu.tail].eoq
  <2>1. /\ rxdma'.at = cpu.head /\ ~rxdma'.latched
        /\ rxdma'.armed = rxdma.armed /\ rxdma'.pulse = rxdma.pulse
    BY <1>6 DEF AllocKickSeen, WriteHDP, TypeOK, DmaType
  <2>2. /\ cpu.tail \in RxBds \ {rxch.recv_tail} /\ cpu.head = Rot(NumRx, cpu.tail, 1)
        /\ rxdma.at = NULL /\ Filled > 0 /\ cpu.tail = RxSlot(Filled - 1)
    BY <1>2, <1>6 DEF RxInv, RxEnds
  <2>11. rxdma'.clobbered = rxdma.clobbered
    BY <1>6, <2>2 DEF AllocKickSeen, WriteHDP, TypeOK, DmaType
  <2>3. /\ Filled \in Nat /\ Posted \in Nat /\ NumRx \in Nat \ {0}
        /\ Filled <= Posted /\ Posted <= NumRx /\ Posted > 0
    BY <2>2, RxTypes DEF RxInv, RxFilled
  <2>4. rxch.recv_tail = RxSlot(Posted - 1) /\ Filled < Posted
    <3>1. rxch.recv_tail = RxSlot(Posted - 1)
      BY <2>3, RxSlots DEF RxInv
    <3> QED BY <2>2, <2>3, <3>1
  <2>5. cpu.head = RxSlot(Filled) /\ cpu.head \in RxBds
    <3>1. Filled - 1 \in 0 .. NumRx - 1 /\ (Filled - 1) + 1 = Filled /\ Filled \in 0 .. NumRx
      BY <2>2, <2>3
    <3> QED BY <2>2, <3>1, RxSlots DEF RxInv
  <2>6. rxdma'.at # NULL
    BY <2>1, <2>5, RxTypes
  <2>7. ~Closed[rxch.recv_tail].eoq
    <3>1. Posted - 1 \in 0 .. NumRx - 1 /\ ~(Posted - 1 < Filled)
      BY <2>3, <2>4
    <3>2. Closed[rxch.recv_tail].owner
      BY <2>4, <3>1 DEF RxInv, RxFilled
    <3>3. rxch.recv_tail \in RxBds
      BY RxTypes
    <3> QED BY <3>2, <3>3 DEF RxInv, RxEnds
  <2>8. RxFilled'
    BY <1>1, <1>3, <2>1, <2>4, <2>5 DEF RxInv, RxFilled
  <2>9. RxEnds'
    BY <1>1, <1>2, <2>7 DEF RxInv, RxEnds
  <2>10. RxAwake'
    BY <1>1, <1>2, <2>1, <2>6 DEF RxInv, RxAwake, InRxHandler
  <2> QED BY <1>4, <2>8, <2>9, <2>10, <2>11 DEF RxInv
<1> QED BY <1>5, <1>6

\* A walk from a descriptor m - 1 places in front of recv_tail.
LEMMA RxWalk ==
    ASSUME TypeOK, RxRing, NEW c \in RxBds, NEW n \in Nat, NEW m \in 1 .. NumRx,
           rxch.recv_tail = Rot(NumRx, c, m - 1)
    PROVE  Walk(Closed, c, n) = [i \in 1 .. n |-> IF i <= m THEN Rot(NumRx, c, i - 1) ELSE NULL]
<1> DEFINE p == [i \in 1 .. n |-> IF i <= m THEN Rot(NumRx, c, i - 1) ELSE NULL]
<1>1. NumRx \in Nat /\ NumRx # 0 /\ RxBds = 1 .. NumRx /\ NULL \notin RxBds /\ c \in 1 .. NumRx
  BY RxTypes
<1>2. ASSUME NEW i \in 1 .. n
      PROVE  p[i] = IF i = 1 THEN c ELSE IF p[i - 1] = NULL THEN NULL ELSE Closed[p[i - 1]].next
  <2>1. CASE i = 1
    <3>1. p[1] = Rot(NumRx, c, 0)
      BY <2>1
    <3> QED BY <1>1, <2>1, <3>1, RotRound
  <2>2. CASE i # 1 /\ i <= m + 1
    <3>1. i - 1 \in 1 .. n /\ i - 1 <= m /\ i - 2 \in 0 .. NumRx - 1 /\ i - 2 \in 0 .. NumRx
          /\ (i - 1) - 1 = i - 2 /\ (i - 2) + 1 = i - 1 /\ m - 1 \in 0 .. NumRx - 1
          /\ 1 \in 0 .. NumRx /\ (i - 2) + 1 <= NumRx
      BY <1>1, <2>2
    <3> DEFINE d == Rot(NumRx, c, i - 2)
    <3>2. p[i - 1] = d
      BY <3>1
    <3>3. d \in RxBds /\ d # NULL
      <4>1. d \in 1 .. NumRx
        BY <1>1, <3>1, RotType
      <4> HIDE DEF d
      <4> QED BY <1>1, <4>1
    <3>4. d = rxch.recv_tail <=> i = m + 1
      <4>1. d = Rot(NumRx, c, m - 1) => i - 2 = m - 1
        BY <1>1, <3>1, RotInjective
      <4>2. i = m + 1 => i - 2 = m - 1
        OBVIOUS
      <4>3. i - 2 = m - 1 => i = m + 1
        OBVIOUS
      <4> QED BY <4>1, <4>2, <4>3
    <3>5. Rot(NumRx, d, 1) = Rot(NumRx, c, i - 1)
      BY <1>1, <3>1, RotAdd
    <3>6. Closed[d].next = IF i = m + 1 THEN NULL ELSE Rot(NumRx, c, i - 1)
      <4> HIDE DEF d
      <4> QED BY <3>3, <3>4, <3>5 DEF RxRing
    <3>7. p[i] = IF i = m + 1 THEN NULL ELSE Rot(NumRx, c, i - 1)
      BY <2>2
    <3> HIDE DEF p, d
    <3> QED BY <2>2, <3>2, <3>3, <3>6, <3>7
  <2>3. CASE i > m + 1
    <3>1. i - 1 \in 1 .. n /\ ~(i - 1 <= m) /\ ~(i <= m) /\ i # 1
      BY <2>3
    <3>2. p[i - 1] = NULL /\ p[i] = NULL
      BY <3>1
    <3> HIDE DEF p
    <3> QED BY <3>1, <3>2
  <2> QED BY <2>1, <2>2, <2>3
<1>3. p = [i \in 1 .. n |-> p[i]]
  OBVIOUS
<1> HIDE DEF p
<1>4. p = [i \in 1 .. n |-> IF i = 1 THEN c
                            ELSE IF p[i - 1] = NULL THEN NULL ELSE Closed[p[i - 1]].next]
  BY <1>2, <1>3
<1>5. Walk(Closed, c, n) = p
  BY <1>4, WalkIs
<1> QED BY <1>5 DEF p

\* The free pool pbufs are finitely many.
LEMMA FreeType ==
    /\ IsFiniteSet(Free) /\ Free \subseteq Pool /\ Cardinality(Free) \in Nat
    /\ Free # {} => Cardinality(Free) > 0
<1>1. Free \subseteq Pool /\ IsFiniteSet(Pool)
  BY SizesAssumption DEF Free
<1>2. IsFiniteSet(Free)
  BY <1>1, FS_Subset
<1>3. Cardinality(Free) \in Nat
  BY <1>2, FS_CardinalityType
<1>4. Free # {} => Cardinality(Free) # 0
  BY <1>2, FS_EmptySet
<1> QED BY <1>1, <1>2, <1>3, <1>4

\* The descriptors cpswif_rxbd_alloc fills, as many as there are pbufs for, are the
\* next ones behind those in use.
AllocSize == IF Cardinality(Free) < rxch.free_num THEN Cardinality(Free) ELSE rxch.free_num

\* A refill posts free pbufs behind the descriptors in use, in order, and nothing else.
LEMMA AllocShape ==
    ASSUME TypeOK, RxRing, AllocSeen
    PROVE  /\ AllocSize \in 1 .. rxch.free_num
           /\ AllocSize <= Cardinality(Free)
           /\ \A i \in 0 .. NumRx - 1 :
                  LET c == RxSlot(i)
                      new == Posted <= i /\ i < Posted + AllocSize
                  IN  /\ Closed'[c].owner <=> new \/ Closed[c].owner
                      /\ Closed'[c].eoq <=> ~new /\ Closed[c].eoq
                      /\ Closed'[c].pbuf = IF new THEN Order(Free)[i - Posted + 1] ELSE Closed[c].pbuf
           /\ \A c \in RxBds :
                  Closed'[c].next = IF c = Rot(NumRx, rxch.free_head, AllocSize - 1) THEN NULL
                                  ELSE IF c = rxch.recv_tail THEN rxch.free_head
                                  ELSE Closed[c].next
           /\ rxbd' \in [RxBds -> RxBdType] /\ Closed' \in [RxBds -> RxBdType]
           /\ rxch' = [free_head |-> Rot(NumRx, rxch.free_head, AllocSize),
                       recv_head |-> rxch.recv_head,
                       recv_tail |-> Rot(NumRx, rxch.free_head, AllocSize - 1),
                       free_num |-> rxch.free_num - AllocSize]
           /\ dry' = (dry \/ AllocSize < rxch.free_num)
           /\ rxdma' = IF AllocSize = NumRx THEN WriteHDP(rxdma, rxch.free_head) ELSE rxdma
           /\ cpu' = [cpu EXCEPT !.pc = "linked", !.tail = rxch.recv_tail,
                                 !.head = rxch.free_head]
           /\ ref' = [p \in Pbufs |-> IF \E i \in 1 .. AllocSize : Order(Free)[i] = p
                                      THEN 1 ELSE ref[p]]
<1> DEFINE k == AllocSize
           b == Walk(Closed, rxch.free_head, k + 1)
           curr_bd == b[k + 1]
           O == Order(Free)
           filledIn == [c \in RxBds |->
               IF \E i \in 1 .. k : b[i] = c
               THEN [Closed[c] EXCEPT !.owner = TRUE, !.eoq = FALSE,
                                    !.pbuf = O[CHOOSE i \in 1 .. k : b[i] = c]]
               ELSE Closed[c]]
<1>1. /\ rxch.free_num > 0 /\ Free # {}
      /\ rxbd' = [filledIn EXCEPT ![rxch.recv_tail].next = rxch.free_head]
      /\ Closed' = [rxbd' EXCEPT ![rxch'.recv_tail].next = NULL]
      /\ ref' = [p \in Pbufs |-> IF \E i \in 1 .. k : O[i] = p THEN 1 ELSE ref[p]]
      /\ rxch' = [rxch EXCEPT !.free_num = @ - k, !.recv_tail = b[k],
                              !.free_head = IF curr_bd = NULL THEN @ ELSE curr_bd]
      /\ rxdma' = IF curr_bd = NULL THEN WriteHDP(rxdma, rxch.free_head) ELSE rxdma
      /\ dry' = (dry \/ k < rxch.free_num)
      /\ cpu' = [cpu EXCEPT !.pc = "linked", !.tail = rxch.recv_tail, !.head = rxch.free_head]
  BY DEF AllocSeen, AllocOf, AllocSize
<1>2. /\ NumRx \in Nat /\ NumRx # 0 /\ RxBds = 1 .. NumRx /\ NULL \notin RxBds
      /\ rxch.free_head \in RxBds /\ rxch.recv_head \in RxBds /\ rxch.recv_tail \in RxBds
      /\ rxch.free_num \in 0 .. NumRx /\ Posted \in 0 .. NumRx
      /\ rxch = [free_head |-> rxch.free_head, recv_head |-> rxch.recv_head,
                 recv_tail |-> rxch.recv_tail, free_num |-> rxch.free_num]
      /\ Closed \in [RxBds -> RxBdType]
  BY RxTypes
<1>3. Posted = NumRx - rxch.free_num
  BY DEF Posted
<1>4. Cardinality(Free) \in Nat /\ Cardinality(Free) > 0
  BY <1>1, FreeType
<1>5. k \in 1 .. rxch.free_num /\ k <= Cardinality(Free) /\ k \in 1 .. NumRx /\ k \in Nat
  <2>1. rxch.free_num > 0 /\ rxch.free_num \in Nat /\ rxch.free_num <= NumRx /\ NumRx \in Nat
    <3>1. rxch.free_num > 0
      BY DEF AllocSeen, AllocOf
    <3>2. rxch.free_num \in 0 .. NumRx /\ NumRx \in Nat
      BY RxTypes
    <3> QED BY <3>1, <3>2
  <2>2. k = Cardinality(Free) \/ k = rxch.free_num
    BY DEF AllocSize
  <2>3. k <= Cardinality(Free) /\ k <= rxch.free_num
    BY <1>4, <2>1 DEF AllocSize
  <2> HIDE DEF k
  <2> QED BY <1>4, <2>1, <2>2, <2>3
<1>6. /\ O \in [1 .. Cardinality(Free) -> Free] /\ Free \subseteq Pool
  BY FreeType, OrderType
<1>7. b = [i \in 1 .. k + 1 |-> IF i <= NumRx THEN Rot(NumRx, rxch.free_head, i - 1) ELSE NULL]
  <2>1. rxch.recv_tail = Rot(NumRx, rxch.free_head, NumRx - 1)
    <3>1. rxch.recv_tail = Rot(NumRx, Rot(NumRx, Rot(NumRx, rxch.recv_tail, 1), 0), NumRx - 1)
      <4>1. 0 \in 0 .. NumRx /\ NumRx - 0 - 1 = NumRx - 1
        BY <1>2
      <4> QED BY <1>2, <4>1, RotTail
    <3>2. Rot(NumRx, rxch.free_head, 0) = rxch.free_head
      BY <1>2, RotRound
    <3> QED BY <3>1, <3>2 DEF RxRing
  <2>2. k + 1 \in Nat /\ NumRx \in 1 .. NumRx
    BY <1>2, <1>5
  <2>3. rxch.free_head \in RxBds
    BY <1>2
  <2> HIDE DEF k
  <2> QED BY <2>1, <2>2, <2>3, RxWalk
<1> HIDE DEF b, O, k
<1>8. ASSUME NEW j \in 0 .. k - 1
      PROVE  b[j + 1] = RxSlot(Posted + j) /\ b[j + 1] = Rot(NumRx, rxch.free_head, j)
             /\ b[j + 1] \in RxBds
  <2>1. j + 1 \in 1 .. k + 1 /\ j + 1 <= NumRx /\ (j + 1) - 1 = j /\ j \in 0 .. rxch.free_num - 1
        /\ j \in 0 .. NumRx
    BY <1>2, <1>5
  <2>2. b[j + 1] = Rot(NumRx, rxch.free_head, j)
    BY <1>7, <2>1
  <2>3. Rot(NumRx, rxch.free_head, j) = RxSlot(Posted + j)
    BY <2>1, RxSlots
  <2> QED BY <1>2, <2>1, <2>2, <2>3, RotType
<1>9. b[k] = Rot(NumRx, rxch.free_head, k - 1) /\ b[k] \in RxBds
  <2>1. k - 1 \in 0 .. k - 1 /\ (k - 1) + 1 = k
    BY <1>5
  <2> QED BY <1>8, <2>1
<1>10. curr_bd = IF k = NumRx THEN NULL ELSE Rot(NumRx, rxch.free_head, k)
  <2>1. k + 1 \in 1 .. k + 1 /\ (k + 1) - 1 = k /\ (k + 1 <= NumRx <=> k # NumRx)
    BY <1>2, <1>5
  <2> QED BY <1>7, <2>1
<1>11. curr_bd = NULL <=> k = NumRx
  <2>1. Rot(NumRx, rxch.free_head, k) \in RxBds
    <3>1. k \in 0 .. NumRx
      BY <1>5
    <3> QED BY <1>2, <3>1, RotType
  <2> QED BY <1>2, <1>10, <2>1
<1>12. ASSUME NEW i \in 0 .. NumRx - 1
       PROVE  /\ RxSlot(i) \in RxBds
              /\ (\E j \in 1 .. k : b[j] = RxSlot(i)) <=> (Posted <= i /\ i < Posted + k)
              /\ Posted <= i /\ i < Posted + k =>
                     i - Posted + 1 = CHOOSE j \in 1 .. k : b[j] = RxSlot(i)
  <2>1. i \in 0 .. NumRx /\ i \in Nat
    BY <1>2
  <2>2. RxSlot(i) \in RxBds
    BY <2>1, RxSlots
  <2>3. ASSUME NEW j \in 1 .. k, b[j] = RxSlot(i)
        PROVE  j = i - Posted + 1 /\ Posted <= i /\ i < Posted + k
    <3>1. j - 1 \in 0 .. k - 1 /\ (j - 1) + 1 = j /\ Posted + (j - 1) \in 0 .. NumRx - 1
          /\ Posted \in Nat /\ i \in Nat /\ j \in Nat /\ k \in Nat /\ j >= 1 /\ j <= k
      <4>1. /\ Posted \in Nat /\ k \in Nat /\ rxch.free_num \in Nat /\ NumRx \in Nat
            /\ Posted = NumRx - rxch.free_num /\ k <= rxch.free_num
        BY <1>2, <1>3, <1>5
      <4>2. j \in Nat /\ j >= 1 /\ j <= k /\ i \in Nat
        BY <2>1, <4>1
      <4>3. Posted + k <= NumRx
        BY <4>1
      <4> HIDE DEF filledIn
      <4> QED BY <4>1, <4>2, <4>3
    <3>2. RxSlot(Posted + (j - 1)) = RxSlot(i)
      BY <1>8, <2>3, <3>1
    <3>3. Posted + (j - 1) = i
      BY <3>1, <3>2, RxSlots
    <3> QED BY <3>1, <3>3
  <2>4. ASSUME Posted <= i, i < Posted + k
        PROVE  i - Posted + 1 \in 1 .. k /\ b[i - Posted + 1] = RxSlot(i)
    <3>1. i - Posted \in 0 .. k - 1 /\ Posted + (i - Posted) = i /\ i - Posted + 1 \in 1 .. k
      BY <1>2, <1>5, <2>1, <2>4
    <3>2. b[i - Posted + 1] = RxSlot(Posted + (i - Posted))
      BY <1>8, <3>1
    <3> QED BY <3>1, <3>2
  <2>5. Posted <= i /\ i < Posted + k =>
            i - Posted + 1 = CHOOSE j \in 1 .. k : b[j] = RxSlot(i)
    <3> DEFINE ch == CHOOSE j \in 1 .. k : b[j] = RxSlot(i)
    <3>1. SUFFICES ASSUME Posted <= i, i < Posted + k PROVE i - Posted + 1 = ch
      OBVIOUS
    <3>2. ch \in 1 .. k /\ b[ch] = RxSlot(i)
      BY <2>4, <3>1
    <3> HIDE DEF ch
    <3> QED BY <2>3, <3>2
  <2> QED BY <2>2, <2>3, <2>4, <2>5
<1>13. ASSUME NEW c \in RxBds
       PROVE  /\ filledIn[c].next = Closed[c].next
              /\ filledIn[c] \in [next : RxBds \cup {NULL}, owner : BOOLEAN, eoq : BOOLEAN,
                                  pbuf : Pool]
              /\ filledIn[c].owner <=> (\E j \in 1 .. k : b[j] = c) \/ Closed[c].owner
              /\ filledIn[c].eoq <=> ~(\E j \in 1 .. k : b[j] = c) /\ Closed[c].eoq
              /\ filledIn[c].pbuf = IF \E j \in 1 .. k : b[j] = c
                                    THEN O[CHOOSE i \in 1 .. k : b[i] = c] ELSE Closed[c].pbuf
  <2>1. Closed[c] \in [next : RxBds \cup {NULL}, owner : BOOLEAN, eoq : BOOLEAN, pbuf : Pool]
    BY <1>2 DEF RxBdType
  <2>2. CASE \E j \in 1 .. k : b[j] = c
    <3> DEFINE ch == CHOOSE i \in 1 .. k : b[i] = c
    <3>1. ch \in 1 .. k
      BY <2>2
    <3>2. O[ch] \in Pool
      <4> HIDE DEF ch
      <4>1. ch \in 1 .. Cardinality(Free)
        BY <1>4, <1>5, <3>1
      <4> QED BY <1>6, <4>1
    <3>3. filledIn[c] = [Closed[c] EXCEPT !.owner = TRUE, !.eoq = FALSE, !.pbuf = O[ch]]
      BY <2>2
    <3> HIDE DEF filledIn, ch
    <3>4. /\ filledIn[c].next = Closed[c].next /\ filledIn[c].owner /\ ~filledIn[c].eoq
          /\ filledIn[c].pbuf = O[ch]
          /\ filledIn[c] \in [next : RxBds \cup {NULL}, owner : BOOLEAN, eoq : BOOLEAN,
                              pbuf : Pool]
      BY <2>1, <3>2, <3>3
    <3> QED BY <2>2, <3>4 DEF ch
  <2>3. CASE ~\E j \in 1 .. k : b[j] = c
    <3>1. filledIn[c] = Closed[c]
      BY <2>3
    <3> HIDE DEF filledIn
    <3> QED BY <2>1, <2>3, <3>1
  <2> QED BY <2>2, <2>3
<1>14. DOMAIN filledIn = RxBds
  OBVIOUS
<1>15. /\ Closed' \in [RxBds -> RxBdType] /\ rxbd' \in [RxBds -> RxBdType]
       /\ \A c \in RxBds :
              /\ Closed'[c].next = IF c = b[k] THEN NULL
                                 ELSE IF c = rxch.recv_tail THEN rxch.free_head
                                 ELSE Closed[c].next
              /\ Closed'[c].owner = filledIn[c].owner
              /\ Closed'[c].eoq = filledIn[c].eoq
              /\ Closed'[c].pbuf = filledIn[c].pbuf
  <2>1. filledIn \in [RxBds -> RxBdType]
    <3>1. \A c \in RxBds : filledIn[c] \in RxBdType
      BY <1>13 DEF RxBdType
    <3>2. filledIn = [c \in RxBds |-> filledIn[c]]
      OBVIOUS
    <3> HIDE DEF filledIn
    <3> QED BY <3>1, <3>2
  <2>2. \A c \in RxBds : filledIn[c].next = Closed[c].next
    BY <1>13
  <2> HIDE DEF filledIn
  <2> DEFINE g == [filledIn EXCEPT ![rxch.recv_tail].next = rxch.free_head]
  <2>3. g \in [RxBds -> RxBdType]
    BY <1>2, <2>1 DEF RxBdType
  <2>4. ASSUME NEW c \in RxBds
        PROVE  /\ g[c].next = IF c = rxch.recv_tail THEN rxch.free_head ELSE Closed[c].next
               /\ g[c].owner = filledIn[c].owner /\ g[c].eoq = filledIn[c].eoq
               /\ g[c].pbuf = filledIn[c].pbuf
    BY <1>2, <2>1, <2>2 DEF RxBdType
  <2>5. rxbd' = g /\ Closed' = [g EXCEPT ![b[k]].next = NULL]
    <3>1. rxbd' = g
      BY <1>1
    <3>2. rxch'.recv_tail = b[k]
      BY <1>1, <1>2
    <3> HIDE DEF b, g
    <3> QED BY <1>1, <3>1, <3>2
  <2> HIDE DEF g
  <2>6. Closed' \in [RxBds -> RxBdType]
    BY <1>9, <2>3, <2>5 DEF RxBdType
  <2>7. ASSUME NEW c \in RxBds
        PROVE  /\ Closed'[c].next = IF c = b[k] THEN NULL ELSE g[c].next
               /\ Closed'[c].owner = g[c].owner /\ Closed'[c].eoq = g[c].eoq
               /\ Closed'[c].pbuf = g[c].pbuf
    BY <1>9, <2>3, <2>5 DEF RxBdType
  <2> QED BY <2>3, <2>4, <2>5, <2>6, <2>7
<1> HIDE DEF filledIn
<1>16. ASSUME NEW i \in 0 .. NumRx - 1
       PROVE  LET c == RxSlot(i)
                  new == Posted <= i /\ i < Posted + k
              IN  /\ Closed'[c].owner <=> new \/ Closed[c].owner
                  /\ Closed'[c].eoq <=> ~new /\ Closed[c].eoq
                  /\ Closed'[c].pbuf = IF new THEN O[i - Posted + 1] ELSE Closed[c].pbuf
  <2> DEFINE c == RxSlot(i)
             new == Posted <= i /\ i < Posted + k
  <2>1. /\ c \in RxBds
        /\ (\E j \in 1 .. k : b[j] = c) <=> new
        /\ new => i - Posted + 1 = CHOOSE j \in 1 .. k : b[j] = c
    BY <1>12
  <2> HIDE DEF c, new, b, O
  <2>2. /\ Closed'[c].owner = filledIn[c].owner /\ Closed'[c].eoq = filledIn[c].eoq
        /\ Closed'[c].pbuf = filledIn[c].pbuf
    BY <1>15, <2>1
  <2>3. /\ filledIn[c].owner <=> new \/ Closed[c].owner
        /\ filledIn[c].eoq <=> ~new /\ Closed[c].eoq
        /\ filledIn[c].pbuf = IF new THEN O[i - Posted + 1] ELSE Closed[c].pbuf
    BY <1>13, <2>1
  <2> QED BY <2>2, <2>3 DEF c, new
<1>17. rxch' = [free_head |-> Rot(NumRx, rxch.free_head, k), recv_head |-> rxch.recv_head,
                recv_tail |-> Rot(NumRx, rxch.free_head, k - 1), free_num |-> rxch.free_num - k]
  <2>1. Rot(NumRx, rxch.free_head, NumRx) = rxch.free_head
    BY <1>2, RotRound
  <2>2. (IF curr_bd = NULL THEN rxch.free_head ELSE curr_bd) = Rot(NumRx, rxch.free_head, k)
    BY <1>10, <1>11, <2>1
  <2> HIDE DEF curr_bd
  <2> QED BY <1>1, <1>2, <1>9, <2>2
<1> HIDE DEF curr_bd
<1>18. \A c \in RxBds :
           Closed'[c].next = IF c = Rot(NumRx, rxch.free_head, k - 1) THEN NULL
                           ELSE IF c = rxch.recv_tail THEN rxch.free_head
                           ELSE Closed[c].next
  BY <1>9, <1>15
<1>19. /\ dry' = (dry \/ k < rxch.free_num)
       /\ ref' = [p \in Pbufs |-> IF \E i \in 1 .. k : O[i] = p THEN 1 ELSE ref[p]]
  BY <1>1
<1>20. /\ rxdma' = IF k = NumRx THEN WriteHDP(rxdma, rxch.free_head) ELSE rxdma
       /\ cpu' = [cpu EXCEPT !.pc = "linked", !.tail = rxch.recv_tail, !.head = rxch.free_head]
  BY <1>1, <1>11
<1>21. rxbd' \in [RxBds -> RxBdType] /\ Closed' \in [RxBds -> RxBdType]
  BY <1>15
<1> USE DEF k, O
<1> QED BY <1>5, <1>16, <1>17, <1>18, <1>19, <1>20, <1>21

\* The refill keeps the receive ring, and starts the engine only halted.
LEMMA AllocKeeps ==
    ASSUME TypeOK, CpuOK, RxInv, AllocSeen
    PROVE  RxInv' /\ rxdma'.clobbered = rxdma.clobbered
<1> DEFINE k == AllocSize
           f == rxch.free_head
           t == rxch.recv_tail
<1>1. /\ k \in 1 .. rxch.free_num
      /\ \A i \in 0 .. NumRx - 1 :
             LET c == RxSlot(i)
                 new == Posted <= i /\ i < Posted + k
             IN  /\ Closed'[c].owner <=> new \/ Closed[c].owner
                 /\ Closed'[c].eoq <=> ~new /\ Closed[c].eoq
                 /\ Closed'[c].pbuf = IF new THEN Order(Free)[i - Posted + 1] ELSE Closed[c].pbuf
      /\ \A c \in RxBds : Closed'[c].next = IF c = Rot(NumRx, f, k - 1) THEN NULL
                                          ELSE IF c = t THEN f ELSE Closed[c].next
  BY AllocShape DEF RxInv
<1>2. /\ rxch' = [free_head |-> Rot(NumRx, f, k), recv_head |-> rxch.recv_head,
                  recv_tail |-> Rot(NumRx, f, k - 1), free_num |-> rxch.free_num - k]
      /\ dry' = (dry \/ k < rxch.free_num)
  BY AllocShape DEF RxInv
<1>3. /\ rxdma' = IF k = NumRx THEN WriteHDP(rxdma, f) ELSE rxdma
      /\ cpu' = [cpu EXCEPT !.pc = "linked", !.tail = t, !.head = f]
  BY AllocShape DEF RxInv
<1>4. UNCHANGED <<filled, env>> /\ cpu.pc = "alloc" /\ cpu.ret # "input"
  BY DEF AllocSeen, AllocOf, CpuOK
<1> HIDE DEF k
<1>5. cpu'.ret = cpu.ret /\ cpu'.pc = "linked" /\ cpu'.tail = t /\ cpu'.head = f
  BY <1>3 DEF TypeOK
<1>6. Given = 0 /\ Given' = 0
  BY <1>4, <1>5 DEF Given
<1>7. /\ NumRx \in Nat /\ NumRx # 0 /\ Posted \in Nat /\ Posted <= NumRx /\ k \in Nat /\ k >= 1
      /\ k <= rxch.free_num /\ rxch.free_num \in Nat /\ rxch.free_num = NumRx - Posted
      /\ Filled = Len(filled) /\ Filled \in Nat /\ Filled <= Posted
      /\ f \in 1 .. NumRx /\ t \in 1 .. NumRx /\ RxBds = 1 .. NumRx
  BY <1>1, <1>6, RxTypes DEF Posted, Filled, RxInv, RxFilled
<1>8. /\ k <= NumRx /\ Posted + k <= NumRx /\ k - 1 \in 0 .. NumRx /\ k \in 0 .. NumRx
      /\ k - 1 \in 0 .. rxch.free_num - 1 /\ k - 1 \in 0 .. NumRx - 1
      /\ Posted + (k - 1) \in 0 .. NumRx - 1
      /\ k = NumRx => Posted = 0
  BY <1>7
<1>9. /\ rxch'.free_head = Rot(NumRx, f, k) /\ rxch'.recv_head = rxch.recv_head
      /\ rxch'.recv_tail = Rot(NumRx, f, k - 1) /\ rxch'.free_num = rxch.free_num - k
  BY <1>2
<1>10. Posted' = Posted + k /\ Filled' = Filled /\ \A i : RxSlot(i)' = RxSlot(i)
  BY <1>4, <1>6, <1>7, <1>9 DEF Posted, Filled, RxSlot
<1>11. rxch'.recv_tail = RxSlot(Posted + (k - 1)) /\ rxch'.recv_tail \in RxBds
  <2>1. rxch'.recv_tail = RxSlot(Posted + (k - 1))
    BY <1>8, <1>9, RxSlots DEF RxInv
  <2>2. Rot(NumRx, f, k - 1) \in 1 .. NumRx
    BY <1>7, <1>8, RotType
  <2> QED BY <1>7, <1>9, <2>1, <2>2
<1>12. Rot(NumRx, f, k - 1) = t <=> k = NumRx
  <2>1. t = Rot(NumRx, f, NumRx - 1)
    <3>1. t = Rot(NumRx, Rot(NumRx, Rot(NumRx, t, 1), 0), NumRx - 1)
      <4>1. 0 \in 0 .. NumRx /\ NumRx - 0 - 1 = NumRx - 1
        BY <1>7
      <4> QED BY <1>7, <4>1, RotTail
    <3>2. Rot(NumRx, f, 0) = f
      BY <1>7, RotRound
    <3> QED BY <3>1, <3>2 DEF RxInv, RxRing
  <2>2. NumRx - 1 \in 0 .. NumRx - 1
    BY <1>7
  <2>3. Rot(NumRx, f, k - 1) = Rot(NumRx, f, NumRx - 1) => k - 1 = NumRx - 1
    BY <1>7, <1>8, <2>2, RotInjective
  <2> QED BY <1>7, <2>1, <2>3
<1>13. RxRing'
  <2>1. rxch'.free_head = Rot(NumRx, rxch'.recv_tail, 1)
    <3>1. 1 \in 0 .. NumRx /\ (k - 1) + 1 = k /\ (k - 1) + 1 <= NumRx
      BY <1>7, <1>8
    <3> QED BY <1>7, <1>8, <1>9, <3>1, RotAdd
  <2>2. rxch'.recv_head = Rot(NumRx, rxch'.free_head, rxch'.free_num)
    <3>1. rxch.free_num - k \in 0 .. NumRx /\ k + (rxch.free_num - k) = rxch.free_num
          /\ k + (rxch.free_num - k) <= NumRx
      BY <1>7
    <3>2. Rot(NumRx, Rot(NumRx, f, k), rxch.free_num - k) = Rot(NumRx, f, k + (rxch.free_num - k))
      BY <1>7, <1>8, <3>1, RotAdd
    <3> QED BY <1>9, <3>1, <3>2 DEF RxInv, RxRing
  <2>3. ASSUME NEW b \in RxBds
        PROVE  Closed'[b].next = IF b = rxch'.recv_tail THEN NULL ELSE Rot(NumRx, b, 1)
    <3>1. Closed[b].next = IF b = t THEN NULL ELSE Rot(NumRx, b, 1)
      BY DEF RxInv, RxRing
    <3>2. f = Rot(NumRx, t, 1)
      BY DEF RxInv, RxRing
    <3> QED BY <1>1, <1>9, <3>1, <3>2
  <2> QED BY <2>1, <2>2, <2>3 DEF RxRing
<1>14. ASSUME NEW i \in 0 .. NumRx - 1
       PROVE  /\ RxSlot(i) \in RxBds
              /\ Closed[RxSlot(i)].owner <=> ~(0 <= i /\ i < Filled)
              /\ i < Posted => /\ Closed'[RxSlot(i)].owner <=> Closed[RxSlot(i)].owner
                               /\ Closed'[RxSlot(i)].eoq <=> Closed[RxSlot(i)].eoq
                               /\ Closed'[RxSlot(i)].pbuf = Closed[RxSlot(i)].pbuf
              /\ Closed'[RxSlot(i)].owner <=> ~(0 <= i /\ i < Filled)
              /\ Closed'[RxSlot(i)].eoq => Closed[RxSlot(i)].eoq
              /\ Posted <= i /\ i < Posted + k => ~Closed'[RxSlot(i)].eoq
  <2>1. i \in 0 .. NumRx /\ i \in Nat
    BY <1>7
  <2>2. RxSlot(i) \in RxBds
    BY <2>1, RxSlots DEF RxInv
  <2>3. Closed[RxSlot(i)].owner <=> ~(0 <= i /\ i < Filled)
    BY <1>6 DEF RxInv, RxFilled
  <2>4. LET c == RxSlot(i)
            new == Posted <= i /\ i < Posted + k
        IN  /\ Closed'[c].owner <=> new \/ Closed[c].owner
            /\ Closed'[c].eoq <=> ~new /\ Closed[c].eoq
            /\ Closed'[c].pbuf = IF new THEN Order(Free)[i - Posted + 1] ELSE Closed[c].pbuf
    BY <1>1
  <2>5. Posted <= i => i >= Filled
    BY <1>7, <2>1
  <2>6. i < Posted => ~(Posted <= i)
    BY <1>7, <2>1
  <2> QED BY <2>2, <2>3, <2>4, <2>5, <2>6, <1>7, <2>1
<1>15. ASSUME NEW b \in RxBds PROVE \E i \in 0 .. NumRx - 1 : b = RxSlot(i)
  BY RxSlots DEF RxInv
<1>16. k = NumRx => rxdma.at = NULL /\ Filled = 0
  <2>1. rxdma.at # NULL => Filled < Posted
    BY DEF RxInv, RxFilled
  <2> QED BY <1>7, <1>8, <2>1
<1>17. /\ k = NumRx => /\ rxdma'.at = f /\ rxdma'.at # NULL /\ ~rxdma'.latched
                       /\ rxdma'.armed = rxdma.armed /\ rxdma'.pulse = rxdma.pulse
       /\ k # NumRx => rxdma' = rxdma
  <2>1. f # NULL
    BY <1>7 DEF NULL
  <2>2. CASE k = NumRx
    <3>1. rxdma' = WriteHDP(rxdma, f)
      BY <1>3, <2>2
    <3> QED BY <2>1, <2>2, <3>1 DEF WriteHDP, TypeOK, DmaType
  <2> QED BY <1>3, <2>2
<1>18. RxFilled'
  <2>1. Filled' <= Posted'
    BY <1>7, <1>10
  <2>2. ASSUME NEW i \in 1 .. Len(filled)
        PROVE  Closed'[RxSlot(0 + i - 1)].pbuf = filled[i]
    <3>1. 0 + i - 1 \in 0 .. NumRx - 1 /\ 0 + i - 1 < Posted
      BY <1>7
    <3>2. Closed[RxSlot(0 + i - 1)].pbuf = filled[i]
      BY <1>6 DEF RxInv, RxFilled
    <3> QED BY <1>14, <3>1, <3>2
  <2>3. CASE k = NumRx
    <3>1. f = RxSlot(0) /\ Filled < Posted + k
      <4>1. 0 \in 0 .. rxch.free_num - 1 /\ Posted + 0 = 0
        BY <1>7, <1>8, <2>3
      <4>2. Rot(NumRx, f, 0) = RxSlot(0)
        BY <4>1, RxSlots DEF RxInv
      <4>3. Rot(NumRx, f, 0) = f
        BY <1>7, RotRound
      <4> QED BY <1>7, <4>2, <4>3
    <3> QED BY <1>4, <1>6, <1>10, <1>14, <1>16, <1>17, <2>1, <2>2, <2>3, <3>1 DEF RxFilled
  <2>4. CASE k # NumRx
    <3>1. /\ rxdma.at # NULL => Filled < Posted + k /\ rxdma.at = RxSlot(Filled)
          /\ rxdma.latched => rxdma.at # NULL
          /\ rxdma.latched /\ rxdma.next # NULL =>
                 Filled + 1 < Posted + k /\ rxdma.next = RxSlot(Filled + 1)
      <4>1. Filled < Posted => Filled < Posted + k
        BY <1>7
      <4>2. Filled + 1 < Posted => Filled + 1 < Posted + k
        BY <1>7
      <4> QED BY <4>1, <4>2 DEF RxInv, RxFilled
    <3> QED BY <1>4, <1>6, <1>10, <1>14, <1>17, <2>1, <2>2, <2>4, <3>1 DEF RxFilled
  <2> QED BY <2>3, <2>4
<1>19. ASSUME k # NumRx
       PROVE  /\ t \in RxBds \ {rxch'.recv_tail}
              /\ Closed'[t].eoq <=> Closed[t].eoq
              /\ Closed[t].eoq => rxdma.at = NULL /\ Filled = Posted /\ Filled > 0
                                /\ t = RxSlot(Filled - 1)
              /\ Filled = Posted /\ Posted > 0 => Closed[t].eoq
  <2>1. t \in RxBds \ {rxch'.recv_tail}
    BY <1>7, <1>9, <1>12, <1>19
  <2>2. Closed[t].eoq => ~Closed[t].owner
    BY <1>7 DEF RxInv, RxEnds
  <2>3. CASE Posted > 0
    <3>1. t = RxSlot(Posted - 1) /\ Posted - 1 \in 0 .. NumRx - 1 /\ Posted - 1 < Posted
      BY <1>7, <2>3, RxSlots DEF RxInv
    <3>2. Closed'[t].eoq <=> Closed[t].eoq
      BY <1>14, <3>1
    <3>3. ~Closed[t].owner <=> Filled = Posted
      <4>1. Closed[t].owner <=> ~(0 <= Posted - 1 /\ Posted - 1 < Filled)
        BY <1>14, <3>1
      <4> QED BY <1>7, <2>3, <4>1
    <3>4. Closed[t].eoq <=> ~Closed[t].owner
      BY <2>2 DEF RxInv, RxEnds
    <3>5. Closed[t].eoq => rxdma.at = NULL
      BY DEF RxInv, RxEnds
    <3> QED BY <2>1, <2>3, <3>1, <3>2, <3>3, <3>4, <3>5
  <2>4. CASE Posted = 0
    <3>1. t = RxSlot(NumRx - 1) /\ NumRx - 1 \in 0 .. NumRx - 1
      BY <1>7, <2>4, RxSlots DEF RxInv
    <3>2. Closed[t].owner
      <4>1. Closed[t].owner <=> ~(0 <= NumRx - 1 /\ NumRx - 1 < Filled)
        BY <1>14, <3>1
      <4> QED BY <1>7, <2>4, <4>1
    <3>3. ~Closed[t].eoq
      BY <2>2, <3>2
    <3>4. Closed'[t].eoq => Closed[t].eoq
      BY <1>14, <3>1
    <3> QED BY <2>1, <2>4, <3>3, <3>4
  <2> QED BY <1>7, <2>3, <2>4
<1>20. RxEnds'
  <2>1. ASSUME NEW b \in RxBds PROVE Closed'[b].eoq => ~Closed'[b].owner
    <3>1. PICK i \in 0 .. NumRx - 1 : b = RxSlot(i)
      BY <1>15
    <3>2. Closed[b].eoq => ~Closed[b].owner
      BY DEF RxInv, RxEnds
    <3> QED BY <1>14, <3>1, <3>2
  <2>2. ~Closed'[rxch'.recv_tail].eoq
    <3>1. Posted <= Posted + (k - 1) /\ Posted + (k - 1) < Posted + k
      BY <1>7
    <3> QED BY <1>8, <1>11, <1>14, <3>1
  <2>3. Closed'[rxch'.recv_tail].owner
    <3>1. ~(Posted + (k - 1) < Filled)
      BY <1>7
    <3> QED BY <1>8, <1>11, <1>14, <3>1
  <2>4. /\ cpu'.tail \in RxBds /\ cpu'.head = Rot(NumRx, cpu'.tail, 1)
        /\ Closed'[cpu'.tail].eoq =>
               /\ cpu'.tail # rxch'.recv_tail /\ rxdma'.at = NULL
               /\ Filled' > 0 /\ cpu'.tail = RxSlot(Filled - 1)
    <3>1. f = Rot(NumRx, t, 1) /\ t \in RxBds
      BY <1>7 DEF RxInv, RxRing
    <3>2. CASE k # NumRx
      BY <1>5, <1>10, <1>17, <1>19, <3>1, <3>2
    <3>3. CASE k = NumRx
      <4>1. t = rxch'.recv_tail
        BY <1>9, <1>12, <3>3
      <4> QED BY <1>5, <2>2, <3>1, <4>1
    <3> QED BY <3>2, <3>3
  <2> QED BY <1>10, <2>1, <2>2, <2>3, <2>4 DEF RxEnds
<1>21. RxAwake'
  <2>1. ~InRxHandler /\ ~InRxHandler'
    BY <1>4, <1>5 DEF InRxHandler
  <2>2. rxdma'.armed = rxdma.armed /\ rxdma'.pulse = rxdma.pulse
    BY <1>17
  <2>3. cpu'.pc # "rx_eoi"
    BY <1>5
  <2>4. ASSUME rxdma'.at = NULL, ~dry', ~env.ahead
        PROVE  cpu'.pc \in {"linked", "posted"} /\ Closed'[cpu'.tail].eoq
    <3>1. k # NumRx /\ rxdma.at = NULL /\ ~dry /\ ~(k < rxch.free_num)
      BY <1>2, <1>17, <2>4
    <3>2. Filled = Posted
      BY <1>4, <2>4, <3>1 DEF RxInv, RxAwake
    <3>3. Posted > 0
      BY <1>7, <3>1
    <3> QED BY <1>5, <1>19, <3>1, <3>2, <3>3
  <2> QED BY <1>4, <2>1, <2>2, <2>3, <2>4 DEF RxInv, RxAwake
<1>22. rxdma'.clobbered = rxdma.clobbered
  BY <1>3, <1>16 DEF WriteHDP, TypeOK, DmaType
<1> QED BY <1>13, <1>18, <1>20, <1>21, <1>22 DEF RxInv

\* Closing the chain changes nothing that is seen of the ring.
LEMMA AllocCloseKeeps ==
    ASSUME TypeOK, CpuOK, RxInv, AllocClose
    PROVE  /\ RxInv' /\ UNCHANGED <<Closed, rxch, rxdma, env>> /\ Given' = Given
           /\ rxbd' \in [RxBds -> RxBdType]
<1>1. /\ cpu.pc = "linked" /\ cpu'.pc = "posted" /\ cpu'.ret = cpu.ret
      /\ cpu'.tail = cpu.tail /\ cpu'.head = cpu.head
  BY DEF AllocClose, TypeOK
<1>2. rxbd' = Closed /\ UNCHANGED <<rxch, rxdma, filled, dry, env>>
  BY <1>1 DEF AllocClose, Closed
<1>3. Closed' = Closed
  BY <1>1, <1>2 DEF Closed
<1>4. Posted' = Posted /\ Filled' = Filled /\ Given' = Given /\ \A i : RxSlot(i)' = RxSlot(i)
  BY <1>1, <1>2 DEF Posted, Filled, RxSlot, Given, CpuOK
<1>5. RxRing'
  BY <1>2, <1>3 DEF RxInv, RxRing
<1>6. RxFilled'
  BY <1>2, <1>3, <1>4 DEF RxInv, RxFilled
<1>7. RxEnds'
  BY <1>1, <1>2, <1>3, <1>4 DEF RxInv, RxEnds
<1>8. RxAwake'
  BY <1>1, <1>2, <1>3, <1>4 DEF RxInv, RxAwake, InRxHandler
<1>9. rxbd' \in [RxBds -> RxBdType]
  BY <1>2, RxTypes
<1> QED BY <1>2, <1>3, <1>4, <1>5, <1>6, <1>7, <1>8, <1>9 DEF RxInv

-----------------------------------------------------------------------------
(* The references to the pbufs.                                            *)

\* A descriptor in use has a pbuf of its own.
RxOwned ==
    \A i \in Given .. Posted - 1 :
        LET p == Closed[RxSlot(i)].pbuf
        IN  /\ ref[p] = 1 /\ p \notin held
            /\ \A q \in DOMAIN queued : queued[q].pbuf # p
            /\ \A j \in (Given .. Posted - 1) \ {i} : Closed[RxSlot(j)].pbuf # p

RefInv == RxOwned /\ KeptWhileQueued

\* What the type invariant says of the references.
LEMMA RefTypes ==
    ASSUME TypeOK
    PROVE  /\ ref \in [Pbufs -> 0 .. MaxRef] /\ held \subseteq Pbufs /\ MaxRef \in Nat \ {0}
           /\ queued \in Seq(Packets) /\ DOMAIN queued = 1 .. Len(queued) /\ Len(queued) \in Nat
           /\ Pool \subseteq Pbufs /\ Pool \cap Heap = {} /\ Pbufs = Pool \cup Heap
           /\ \A p \in Pbufs : ref[p] \in Nat /\ ref[p] <= MaxRef
           /\ env.packets \subseteq Pbufs /\ env.lengths \subseteq 1 .. MaxChain
<1>1. queued \in Seq(Packets) /\ ref \in [Pbufs -> 0 .. MaxRef] /\ held \subseteq Pbufs
  BY DEF TypeOK, Packets
<1>2. env \in Environments
  BY DEF TypeOK
<1>3. env.packets \subseteq Pbufs /\ env.lengths \subseteq 1 .. MaxChain
  BY <1>2, SizesAssumption
<1>4. /\ MaxRef \in Nat \ {0} /\ Pool \subseteq Pbufs /\ Pool \cap Heap = {}
      /\ Pbufs = Pool \cup Heap
  BY SizesAssumption DEF Pbufs
<1> QED BY <1>1, <1>3, <1>4

\* What is counted against the references of a pbuf.
LEMMA KeptIs ==
    KeptWhileQueued <=>
        \A p \in Pbufs : ref[p] >= Cardinality(Of(queued, p)) + (IF p \in held THEN 1 ELSE 0)
BY DEF KeptWhileQueued, Of

\* KeptWhileQueued after a step.
LEMMA KeptIsNext ==
    KeptWhileQueued' <=>
        \A p \in Pbufs : ref'[p] >= Cardinality(Of(queued', p)) + (IF p \in held' THEN 1 ELSE 0)
BY DEF KeptWhileQueued, Of

\* A pbuf without references is neither in the transmit ring nor with the stack.
LEMMA UnusedPbuf ==
    ASSUME TypeOK, KeptWhileQueued, NEW p \in Pbufs, ref[p] = 0
    PROVE  /\ p \notin held /\ Cardinality(Of(queued, p)) = 0
           /\ \A q \in DOMAIN queued : queued[q].pbuf # p
<1>1. IsFiniteSet(Of(queued, p)) /\ Cardinality(Of(queued, p)) \in Nat
  BY RefTypes, OfType
<1>2. ref[p] >= Cardinality(Of(queued, p)) + (IF p \in held THEN 1 ELSE 0)
  BY KeptIs
<1>3. p \notin held /\ Cardinality(Of(queued, p)) = 0
  BY <1>1, <1>2
<1>4. Of(queued, p) = {}
  BY <1>1, <1>3, FS_EmptySet
<1> QED BY <1>3, <1>4 DEF Of

\* Neither the references nor the packets change.
LEMMA RefFrame ==
    ASSUME RefInv, UNCHANGED <<ref, held, queued>>, Given' = Given, UNCHANGED rxch,
           \A i \in Given .. Posted - 1 : Closed'[RxSlot(i)].pbuf = Closed[RxSlot(i)].pbuf
    PROVE  RefInv'
<1>1. Posted' = Posted /\ \A i : RxSlot(i)' = RxSlot(i)
  BY DEF Posted, RxSlot
<1>2. RxOwned'
  BY <1>1 DEF RefInv, RxOwned
<1>3. KeptWhileQueued'
  BY DEF RefInv, KeptWhileQueued
<1> QED BY <1>2, <1>3 DEF RefInv

\* A pbuf of a descriptor in use is not the one whose references change.
LEMMA RefChanges ==
    ASSUME TypeOK, RefInv, NEW p \in Pbufs, UNCHANGED <<Closed, rxch>>, Given' = Given,
           \A r \in Pbufs \ {p} : ref'[r] = ref[r],
           held' \subseteq held \cup {p},
           \A q \in DOMAIN queued' : queued'[q].pbuf = p
                                     \/ \E s \in DOMAIN queued : queued[s].pbuf = queued'[q].pbuf,
           RxRing, Posted <= NumRx,
           p \in held \/ p \in Heap \/ \E s \in DOMAIN queued : queued[s].pbuf = p
    PROVE  RxOwned'
<1>1. Posted' = Posted /\ \A i : RxSlot(i)' = RxSlot(i)
  BY DEF Posted, RxSlot
<1>2. ASSUME NEW i \in Given .. Posted - 1
      PROVE  LET r == Closed[RxSlot(i)].pbuf
             IN  /\ r \in Pbufs /\ r # p
                 /\ ref'[r] = 1 /\ r \notin held'
                 /\ \A q \in DOMAIN queued' : queued'[q].pbuf # r
  <2> DEFINE r == Closed[RxSlot(i)].pbuf
  <2>1. i \in 0 .. NumRx
    BY RxTypes
  <2>2. r \in Pool
    <3>1. RxSlot(i) \in RxBds /\ Closed \in [RxBds -> RxBdType]
      BY <2>1, RxSlots, RxTypes
    <3> QED BY <3>1 DEF RxBdType
  <2>3. ref[r] = 1 /\ r \notin held /\ \A q \in DOMAIN queued : queued[q].pbuf # r
    BY DEF RefInv, RxOwned
  <2> HIDE DEF r
  <2>4. r # p /\ r \in Pbufs
    BY <2>2, <2>3, RefTypes
  <2>5. ref'[r] = 1 /\ r \notin held' /\ \A q \in DOMAIN queued' : queued'[q].pbuf # r
    BY <2>3, <2>4
  <2> QED BY <2>4, <2>5 DEF r
<1> QED BY <1>1, <1>2 DEF RefInv, RxOwned

\* The stack letting a pbuf go keeps the counts.
LEMMA ReleaseRefs ==
    ASSUME TypeOK, CpuOK, RxInv, RefInv, NEW p \in held, Release(p)
    PROVE  RefInv' /\ ref' \in [Pbufs -> 0 .. MaxRef]
<1>1. /\ UNCHANGED <<Closed, rxch, queued, cpu>> /\ p \in Pbufs
      /\ held' = held \ {p} /\ ref' = [ref EXCEPT ![p] = ref[p] - 1]
  BY RefTypes DEF Release, tx, rx, Closed
<1>2. Given' = Given
  BY <1>1 DEF Given
<1>3. \A r \in Pbufs : ref'[r] = IF r = p THEN ref[p] - 1 ELSE ref[r]
  BY <1>1, RefTypes
<1>4. RxOwned'
  <2>1. Posted <= NumRx
    BY RxTypes
  <2>2. \A r \in Pbufs \ {p} : ref'[r] = ref[r]
    BY <1>3
  <2> QED BY <1>1, <1>2, <2>1, <2>2, RefChanges DEF RxInv
<1>5. ASSUME NEW r \in Pbufs
      PROVE  /\ ref'[r] >= Cardinality(Of(queued', r)) + (IF r \in held' THEN 1 ELSE 0)
             /\ ref'[r] \in 0 .. MaxRef
  <2>1. Cardinality(Of(queued, r)) \in Nat /\ ref[r] \in Nat /\ ref[r] <= MaxRef /\ MaxRef \in Nat
    BY OfType, RefTypes
  <2>2. ref[r] >= Cardinality(Of(queued, r)) + (IF r \in held THEN 1 ELSE 0)
    BY KeptIs DEF RefInv
  <2>3. ref'[r] = IF r = p THEN ref[r] - 1 ELSE ref[r]
    BY <1>3
  <2>4. r \in held' <=> r # p /\ r \in held
    BY <1>1
  <2>5. queued' = queued
    BY <1>1
  <2> QED BY <2>1, <2>2, <2>3, <2>4, <2>5
<1>6. KeptWhileQueued'
  BY <1>5, KeptIsNext
<1>7. ref' \in [Pbufs -> 0 .. MaxRef]
  BY <1>1, <1>5, RefTypes
<1> QED BY <1>4, <1>6, <1>7 DEF RefInv

\* A packet handed down counts a reference for the queue and one for its holder.
LEMMA ForOutputType ==
    ASSUME TypeOK, KeptWhileQueued, NEW p \in Pbufs, HasPacket(p), ForOutput(p) <= MaxRef
    PROVE  /\ ForOutput(p) \in 0 .. MaxRef
           /\ ForOutput(p) >= Cardinality(Of(queued, p)) + 2
           /\ p \in held \/ p \in Heap
<1>1. Cardinality(Of(queued, p)) \in Nat /\ ref[p] \in Nat
  BY OfType, RefTypes
<1>2. ref[p] >= Cardinality(Of(queued, p)) + (IF p \in held THEN 1 ELSE 0)
  BY KeptIs
<1>3. CASE p \in held
  BY <1>1, <1>2, <1>3, RefTypes DEF ForOutput
<1>4. CASE p \notin held
  <2>1. p \in Heap /\ ref[p] = 0
    BY <1>4 DEF HasPacket
  <2> QED BY <1>1, <1>2, <1>4, <2>1, RefTypes DEF ForOutput
<1> QED BY <1>3, <1>4

\* A refused packet keeps the counts.
LEMMA OutputRefusedRefs ==
    ASSUME TypeOK, CpuOK, RxInv, RefInv, NEW p \in Pbufs, NEW n, OutputRefused(p, n)
    PROVE  RefInv' /\ ref' \in [Pbufs -> 0 .. MaxRef] /\ held' \subseteq Pbufs
<1>1. /\ UNCHANGED <<Closed, rxch, queued, cpu>> /\ HasPacket(p) /\ ForOutput(p) <= MaxRef
      /\ held' = held \cup {p} /\ ref' = [ref EXCEPT ![p] = ForOutput(p)]
  BY DEF OutputRefused, tx, rx, Closed
<1>2. Given' = Given
  BY <1>1 DEF Given
<1>3. \A r \in Pbufs : ref'[r] = IF r = p THEN ForOutput(p) ELSE ref[r]
  BY <1>1, RefTypes
<1>4. /\ ForOutput(p) \in 0 .. MaxRef
      /\ ForOutput(p) >= Cardinality(Of(queued, p)) + 2
      /\ p \in held \/ p \in Heap
  BY <1>1, ForOutputType DEF RefInv
<1>5. RxOwned'
  <2>1. Posted <= NumRx
    BY RxTypes
  <2>2. \A r \in Pbufs \ {p} : ref'[r] = ref[r]
    BY <1>3
  <2> QED BY <1>1, <1>2, <1>4, <2>1, <2>2, RefChanges DEF RxInv
<1>6. ASSUME NEW r \in Pbufs
      PROVE  /\ ref'[r] >= Cardinality(Of(queued', r)) + (IF r \in held' THEN 1 ELSE 0)
             /\ ref'[r] \in 0 .. MaxRef
  <2>1. Cardinality(Of(queued, r)) \in Nat /\ ref[r] \in 0 .. MaxRef
    BY OfType, RefTypes
  <2>2. ref[r] >= Cardinality(Of(queued, r)) + (IF r \in held THEN 1 ELSE 0)
    BY KeptIs DEF RefInv
  <2>3. ref'[r] = IF r = p THEN ForOutput(p) ELSE ref[r]
    BY <1>3
  <2>4. r # p => (r \in held' <=> r \in held)
    BY <1>1
  <2>5. queued' = queued
    BY <1>1
  <2> QED BY <1>4, <2>1, <2>2, <2>3, <2>4, <2>5
<1>7. KeptWhileQueued'
  BY <1>6, KeptIsNext
<1>8. ref' \in [Pbufs -> 0 .. MaxRef] /\ held' \subseteq Pbufs
  BY <1>1, <1>6, RefTypes
<1> QED BY <1>5, <1>7, <1>8 DEF RefInv

\* A queued packet keeps the counts.
LEMMA OutputRefs ==
    ASSUME TypeOK, CpuOK, RxInv, RefInv, NEW p \in Pbufs, NEW n \in 1 .. MaxChain, Output(p, n)
    PROVE  /\ RefInv' /\ ref' \in [Pbufs -> 0 .. MaxRef] /\ held' \subseteq Pbufs
           /\ queued' \in Seq(Packets) /\ Given' = Given
<1> DEFINE e == [pbuf |-> p, n |-> n]
<1>1. /\ UNCHANGED <<rxbd, rxch>> /\ HasPacket(p) /\ ForOutput(p) <= MaxRef
      /\ held' = held \cup {p} /\ ref' = [ref EXCEPT ![p] = ForOutput(p)]
      /\ queued' = Append(queued, e)
  BY DEF Output, tx, rx
<1>2. Given' = Given /\ UNCHANGED Closed
  <2>1. cpu.pc \in {"stack", "input"} /\ cpu.ret # "input"
    BY DEF Output, InStack, CpuOK
  <2>2. cpu' = cpu \/ cpu' = [cpu EXCEPT !.pc = "chained", !.ret = cpu.pc]
    BY DEF Output
  <2>3. CASE cpu' = cpu
    BY <1>1, <2>3 DEF Given, Closed
  <2>4. CASE cpu' = [cpu EXCEPT !.pc = "chained", !.ret = cpu.pc]
    <3>1. cpu'.pc = "chained" /\ cpu'.ret = cpu.pc
      BY <2>4 DEF TypeOK
    <3> QED BY <1>1, <2>1, <3>1 DEF Given, Closed
  <2> QED BY <2>2, <2>3, <2>4
<1>3. \A r \in Pbufs : ref'[r] = IF r = p THEN ForOutput(p) ELSE ref[r]
  BY <1>1, RefTypes
<1>4. /\ ForOutput(p) \in 0 .. MaxRef
      /\ ForOutput(p) >= Cardinality(Of(queued, p)) + 2
      /\ p \in held \/ p \in Heap
  BY <1>1, ForOutputType DEF RefInv
<1>5. e \in Packets /\ queued \in Seq(Packets)
  BY RefTypes DEF Packets
<1>6. /\ queued' \in Seq(Packets) /\ DOMAIN queued' = 1 .. Len(queued) + 1
      /\ \A i \in 1 .. Len(queued) : queued'[i] = queued[i]
      /\ queued'[Len(queued) + 1] = e /\ Len(queued) \in Nat /\ DOMAIN queued = 1 .. Len(queued)
  <2> HIDE DEF e
  <2> QED BY <1>1, <1>5, AppendProperties, LenProperties
<1>7. RxOwned'
  <2>1. Posted <= NumRx
    BY RxTypes
  <2>2. \A r \in Pbufs \ {p} : ref'[r] = ref[r]
    BY <1>3
  <2>3. ASSUME NEW q \in DOMAIN queued'
        PROVE  queued'[q].pbuf = p \/ \E s \in DOMAIN queued : queued[s].pbuf = queued'[q].pbuf
    BY <1>6
  <2> QED BY <1>1, <1>2, <1>4, <2>1, <2>2, <2>3, RefChanges DEF RxInv
<1>8. ASSUME NEW r \in Pbufs
      PROVE  /\ ref'[r] >= Cardinality(Of(queued', r)) + (IF r \in held' THEN 1 ELSE 0)
             /\ ref'[r] \in 0 .. MaxRef
  <2>1. Cardinality(Of(queued, r)) \in Nat /\ ref[r] \in 0 .. MaxRef
    BY OfType, RefTypes
  <2>2. ref[r] >= Cardinality(Of(queued, r)) + (IF r \in held THEN 1 ELSE 0)
    BY KeptIs DEF RefInv
  <2>3. ref'[r] = IF r = p THEN ForOutput(p) ELSE ref[r]
    BY <1>3
  <2>4. r # p => (r \in held' <=> r \in held)
    BY <1>1
  <2>5. Cardinality(Of(queued', r)) = Cardinality(Of(queued, r)) + (IF p = r THEN 1 ELSE 0)
    <3>1. e.pbuf = p
      OBVIOUS
    <3> HIDE DEF e
    <3> QED BY <1>1, <1>5, <3>1, OfAppend
  <2> QED BY <1>4, <2>1, <2>2, <2>3, <2>4, <2>5
<1>9. KeptWhileQueued'
  BY <1>8, KeptIsNext
<1>10. ref' \in [Pbufs -> 0 .. MaxRef] /\ held' \subseteq Pbufs
  BY <1>1, <1>8, RefTypes
<1> QED BY <1>2, <1>6, <1>7, <1>9, <1>10 DEF RefInv

\* Handing a frame to the stack keeps the counts.
LEMMA RxPacketRefs ==
    ASSUME TypeOK, CpuOK, RxInv, RefInv, RxPacketSeen
    PROVE  RefInv' /\ held' \subseteq Pbufs
<1> DEFINE b == rxch.recv_head
           p == Closed[b].pbuf
<1>1. UNCHANGED <<rxch, ref, queued>> /\ held' = held \cup {p}
  BY DEF RxPacketSeen, tx
<1>2. Given = 0 /\ Given' = 1 /\ 0 < Posted
  BY RxPacketKeeps
<1>3. b = RxSlot(0) /\ Posted \in Nat /\ Posted <= NumRx /\ NumRx \in Nat /\ b \in RxBds
  BY RxTypes, RxSlots DEF RxInv
<1>4. 0 \in Given .. Posted - 1
  BY <1>2, <1>3
<1>5. /\ ref[p] = 1 /\ p \notin held
      /\ \A q \in DOMAIN queued : queued[q].pbuf # p
      /\ \A j \in (Given .. Posted - 1) \ {0} : Closed[RxSlot(j)].pbuf # p
  BY <1>3, <1>4 DEF RefInv, RxOwned
<1>6. Posted' = Posted /\ \A i : RxSlot(i)' = RxSlot(i)
  BY <1>1 DEF Posted, RxSlot
<1>7. ASSUME NEW c \in RxBds PROVE Closed'[c].pbuf = Closed[c].pbuf
  <2>1. Closed' = [Closed EXCEPT ![b].owner = TRUE, ![b].eoq = FALSE]
    BY DEF RxPacketSeen
  <2> QED BY <1>3, <2>1, RxTypes DEF RxBdType
<1>8. p \in Pbufs
  BY <1>3, RxTypes, RefTypes DEF RxBdType
<1> HIDE DEF p
<1>9. RxOwned'
  <2>1. ASSUME NEW i \in 1 .. Posted - 1
        PROVE  LET r == Closed'[RxSlot(i)].pbuf
               IN  /\ ref[r] = 1 /\ r \notin held'
                   /\ \A q \in DOMAIN queued : queued[q].pbuf # r
                   /\ \A j \in (1 .. Posted - 1) \ {i} : Closed'[RxSlot(j)].pbuf # r
    <3>1. i \in (Given .. Posted - 1) \ {0}
      BY <1>2, <1>3
    <3>2. \A j \in 1 .. Posted - 1 : Closed'[RxSlot(j)].pbuf = Closed[RxSlot(j)].pbuf
      <4>1. \A j \in 1 .. Posted - 1 : j \in 0 .. NumRx
        BY <1>3
      <4> QED BY <1>7, <4>1, RxSlots DEF RxInv
    <3>3. \A j \in (1 .. Posted - 1) \ {i} : j \in (Given .. Posted - 1) \ {i}
      BY <1>2, <1>3
    <3>4. Closed[RxSlot(i)].pbuf # p
      BY <1>5, <3>1
    <3> QED BY <1>1, <3>1, <3>2, <3>3, <3>4 DEF RefInv, RxOwned
  <2> QED BY <1>1, <1>2, <1>6, <2>1 DEF RxOwned
<1>10. KeptWhileQueued'
  <2>1. ASSUME NEW r \in Pbufs
        PROVE  ref'[r] >= Cardinality(Of(queued', r)) + (IF r \in held' THEN 1 ELSE 0)
    <3>1. Cardinality(Of(queued, r)) \in Nat /\ ref[r] \in Nat
      BY OfType, RefTypes
    <3>2. ref[r] >= Cardinality(Of(queued, r)) + (IF r \in held THEN 1 ELSE 0)
      BY KeptIs DEF RefInv
    <3>3. r = p => Cardinality(Of(queued, r)) = 0
      <4>1. Of(queued, p) = {}
        BY <1>5 DEF Of
      <4> QED BY <4>1, FS_EmptySet
    <3>4. r \in held' <=> r = p \/ r \in held
      BY <1>1
    <3>5. ref' = ref /\ queued' = queued
      BY <1>1
    <3> QED BY <1>5, <3>1, <3>2, <3>3, <3>4, <3>5
  <2> QED BY <2>1, KeptIsNext
<1> QED BY <1>1, <1>8, <1>9, <1>10, RefTypes DEF RefInv

\* Moving past the descriptor handed over keeps the counts.
LEMMA RxNextRefs ==
    ASSUME TypeOK, CpuOK, RxInv, RefInv, RxNextSeen
    PROVE  RefInv'
<1> DEFINE Slot(i) == Rot(NumRx, rxch'.recv_head, i)
<1>1. /\ Given = 1 /\ Given' = 0 /\ Posted \in Nat \ {0} /\ Posted' = Posted - 1
      /\ Posted <= NumRx /\ NumRx \in Nat
      /\ \A i \in 0 .. NumRx - 1 : Slot(i) = RxSlot(i + 1)
  BY RxNextMoves, RxTypes DEF RxSlot
<1>2. UNCHANGED <<Closed, ref, held, queued>>
  BY DEF RxNextSeen, tx
<1> HIDE DEF Slot
<1>3. ASSUME NEW i \in 0 .. Posted - 1 - 1
      PROVE  /\ Slot(i) = RxSlot(i + 1)
             /\ i + 1 \in 1 .. Posted - 1
             /\ \A j \in (0 .. Posted - 1 - 1) \ {i} :
                    Slot(j) = RxSlot(j + 1) /\ j + 1 \in (1 .. Posted - 1) \ {i + 1}
  BY <1>1
<1>4. ASSUME NEW i \in 0 .. Posted - 1 - 1
      PROVE  LET r == Closed[Slot(i)].pbuf
             IN  /\ ref[r] = 1 /\ r \notin held
                 /\ \A q \in DOMAIN queued : queued[q].pbuf # r
                 /\ \A j \in (0 .. Posted - 1 - 1) \ {i} : Closed[Slot(j)].pbuf # r
  BY <1>1, <1>3 DEF RefInv, RxOwned
<1>5. RxOwned'
  BY <1>1, <1>2, <1>4 DEF RxOwned, RxSlot, Slot
<1>6. KeptWhileQueued'
  BY <1>2 DEF RefInv, KeptWhileQueued
<1> QED BY <1>5, <1>6 DEF RefInv

\* The refill keeps the counts.
LEMMA AllocRefs ==
    ASSUME TypeOK, CpuOK, RxInv, RefInv, AllocSeen
    PROVE  RefInv' /\ ref' \in [Pbufs -> 0 .. MaxRef]
<1> DEFINE k == AllocSize
           O == Order(Free)
<1>1. /\ k \in 1 .. rxch.free_num /\ k <= Cardinality(Free)
      /\ \A i \in 0 .. NumRx - 1 :
             LET new == Posted <= i /\ i < Posted + k
             IN  Closed'[RxSlot(i)].pbuf = IF new THEN O[i - Posted + 1] ELSE Closed[RxSlot(i)].pbuf
      /\ rxch' = [free_head |-> Rot(NumRx, rxch.free_head, k), recv_head |-> rxch.recv_head,
                  recv_tail |-> Rot(NumRx, rxch.free_head, k - 1), free_num |-> rxch.free_num - k]
      /\ ref' = [p \in Pbufs |-> IF \E i \in 1 .. k : O[i] = p THEN 1 ELSE ref[p]]
  BY AllocShape DEF RxInv
<1>2. cpu' = [cpu EXCEPT !.pc = "linked", !.tail = rxch.recv_tail, !.head = rxch.free_head]
  BY AllocShape DEF RxInv
<1>3. UNCHANGED <<held, queued>> /\ cpu.pc = "alloc" /\ cpu.ret # "input"
  BY DEF AllocSeen, AllocOf, CpuOK, tx
<1>4. Given = 0 /\ Given' = 0
  <2>1. cpu'.pc = "linked" /\ cpu'.ret = cpu.ret
    BY <1>2 DEF TypeOK
  <2> QED BY <1>3, <2>1 DEF Given
<1> HIDE DEF k
<1>5. /\ Cardinality(Free) \in Nat /\ O \in [1 .. Cardinality(Free) -> Free] /\ Free \subseteq Pool
      /\ \A i, j \in 1 .. Cardinality(Free) : O[i] = O[j] => i = j
  BY FreeType, OrderType
<1> HIDE DEF O
<1>6. /\ NumRx \in Nat /\ Posted \in Nat /\ k \in Nat /\ k >= 1 /\ k <= rxch.free_num
      /\ rxch.free_num \in Nat /\ rxch.free_num = NumRx - Posted
  BY <1>1, RxTypes DEF Posted
<1>7. Posted + k <= NumRx /\ Posted + k \in Nat
  BY <1>6
<1>8. Posted' = Posted + k /\ \A i : RxSlot(i)' = RxSlot(i)
  BY <1>1, <1>6 DEF Posted, RxSlot
<1>9. ASSUME NEW j \in 1 .. k
      PROVE  /\ O[j] \in Free /\ O[j] \in Pbufs /\ ref[O[j]] = 0 /\ ref'[O[j]] = 1
             /\ O[j] \notin held /\ \A q \in DOMAIN queued : queued[q].pbuf # O[j]
  <2>1. j \in 1 .. Cardinality(Free)
    BY <1>1, <1>5, <1>6
  <2>2. O[j] \in Free /\ O[j] \in Pbufs /\ ref[O[j]] = 0
    BY <1>5, <2>1, RefTypes DEF Free
  <2> QED BY <1>1, <2>2, UnusedPbuf DEF RefInv
<1>10. ASSUME NEW r \in Pbufs
       PROVE  ref'[r] = ref[r] \/ (ref[r] = 0 /\ ref'[r] = 1)
  BY <1>1, <1>9
<1>11. ASSUME NEW i \in 0 .. Posted + k - 1
       PROVE  /\ i < Posted => /\ i \in Given .. Posted - 1
                               /\ Closed'[RxSlot(i)].pbuf = Closed[RxSlot(i)].pbuf
                               /\ Closed[RxSlot(i)].pbuf \in Pbufs
                               /\ ref[Closed[RxSlot(i)].pbuf] = 1
              /\ ~(i < Posted) => /\ i - Posted + 1 \in 1 .. k
                                  /\ i - Posted + 1 \in 1 .. Cardinality(Free)
                                  /\ Closed'[RxSlot(i)].pbuf = O[i - Posted + 1]
  <2>1. i \in Nat /\ i \in 0 .. NumRx - 1 /\ i \in 0 .. NumRx /\ i < Posted + k
    BY <1>6, <1>7
  <2>2. CASE i < Posted
    <3>1. i \in Given .. Posted - 1 /\ ~(Posted <= i)
      BY <1>4, <1>6, <2>1, <2>2
    <3>2. Closed'[RxSlot(i)].pbuf = Closed[RxSlot(i)].pbuf
      BY <1>1, <2>1, <3>1
    <3>3. Closed[RxSlot(i)].pbuf \in Pbufs
      <4>1. RxSlot(i) \in RxBds /\ Closed \in [RxBds -> RxBdType]
        BY <2>1, RxSlots, RxTypes DEF RxInv
      <4> QED BY <4>1, RefTypes DEF RxBdType
    <3> QED BY <2>2, <3>1, <3>2, <3>3 DEF RefInv, RxOwned
  <2>3. CASE ~(i < Posted)
    <3>1. Posted <= i
      BY <1>6, <2>1, <2>3
    <3>2. i - Posted + 1 \in 1 .. k /\ i - Posted + 1 \in 1 .. Cardinality(Free)
      <4>1. k <= Cardinality(Free)
        BY <1>1
      <4> QED BY <1>5, <1>6, <2>1, <3>1, <4>1
    <3> QED BY <1>1, <2>1, <2>3, <3>1, <3>2
  <2> QED BY <2>2, <2>3
<1>12. RxOwned'
  <2>1. ASSUME NEW i \in 0 .. Posted + k - 1
        PROVE  LET r == Closed'[RxSlot(i)].pbuf
               IN  /\ ref'[r] = 1 /\ r \notin held
                   /\ \A q \in DOMAIN queued : queued[q].pbuf # r
                   /\ \A j \in (0 .. Posted + k - 1) \ {i} : Closed'[RxSlot(j)].pbuf # r
    <3> DEFINE r == Closed'[RxSlot(i)].pbuf
    <3>1. CASE i < Posted
      <4>1. /\ i \in Given .. Posted - 1 /\ r = Closed[RxSlot(i)].pbuf /\ r \in Pbufs /\ ref[r] = 1
        BY <1>11, <3>1
      <4> HIDE DEF r
      <4>2. ref'[r] = 1
        BY <1>10, <4>1
      <4>3. r \notin held /\ \A q \in DOMAIN queued : queued[q].pbuf # r
        BY <4>1 DEF RefInv, RxOwned
      <4>4. ASSUME NEW j \in (0 .. Posted + k - 1) \ {i} PROVE Closed'[RxSlot(j)].pbuf # r
        <5>1. CASE j < Posted
          <6>1. j \in (Given .. Posted - 1) \ {i} /\ Closed'[RxSlot(j)].pbuf = Closed[RxSlot(j)].pbuf
            BY <1>11, <5>1
          <6> QED BY <4>1, <6>1 DEF RefInv, RxOwned
        <5>2. CASE ~(j < Posted)
          <6>1. j - Posted + 1 \in 1 .. k /\ Closed'[RxSlot(j)].pbuf = O[j - Posted + 1]
            BY <1>11, <5>2
          <6>2. ref[Closed'[RxSlot(j)].pbuf] = 0
            BY <1>9, <6>1
          <6> QED BY <4>1, <6>2
        <5> QED BY <5>1, <5>2
      <4> QED BY <4>2, <4>3, <4>4 DEF r
    <3>2. CASE ~(i < Posted)
      <4>1. /\ i - Posted + 1 \in 1 .. k /\ i - Posted + 1 \in 1 .. Cardinality(Free)
            /\ r = O[i - Posted + 1]
        BY <1>11, <3>2
      <4> HIDE DEF r
      <4>2. /\ ref[r] = 0 /\ ref'[r] = 1 /\ r \notin held
            /\ \A q \in DOMAIN queued : queued[q].pbuf # r
        BY <1>9, <4>1
      <4>3. ASSUME NEW j \in (0 .. Posted + k - 1) \ {i} PROVE Closed'[RxSlot(j)].pbuf # r
        <5>1. CASE j < Posted
          <6>1. Closed'[RxSlot(j)].pbuf = Closed[RxSlot(j)].pbuf /\ ref[Closed[RxSlot(j)].pbuf] = 1
            BY <1>11, <5>1
          <6> QED BY <4>2, <6>1
        <5>2. CASE ~(j < Posted)
          <6>1. j - Posted + 1 \in 1 .. Cardinality(Free)
                /\ Closed'[RxSlot(j)].pbuf = O[j - Posted + 1]
            BY <1>11, <5>2
          <6>2. j - Posted + 1 # i - Posted + 1
            <7>1. j \in Nat /\ i \in Nat /\ j # i
              BY <1>7
            <7> QED BY <1>6, <7>1
          <6> QED BY <1>5, <4>1, <6>1, <6>2
        <5> QED BY <5>1, <5>2
      <4> QED BY <4>2, <4>3 DEF r
    <3> QED BY <3>1, <3>2
  <2>2. Given' .. Posted' - 1 = 0 .. Posted + k - 1
    <3>1. Posted' = Posted + k
      BY <1>8
    <3>2. Posted' - 1 = Posted + k - 1 /\ Given' = 0
      BY <1>4, <1>6, <1>7, <3>1
    <3> QED BY ONLY <3>2
  <2>3. UNCHANGED <<held, queued>>
    BY <1>3
  <2>4. ASSUME NEW i \in 0 .. Posted + k - 1
        PROVE  LET r == Closed'[RxSlot(i)']
               IN  /\ ref'[r.pbuf] = 1 /\ r.pbuf \notin held'
                   /\ \A q \in DOMAIN queued' : queued'[q].pbuf # r.pbuf
                   /\ \A j \in (0 .. Posted + k - 1) \ {i} : Closed'[RxSlot(j)'].pbuf # r.pbuf
    BY <1>8, <2>1, <2>3
  <2> QED BY <2>2, <2>4 DEF RxOwned
<1>13. KeptWhileQueued'
  <2>1. ASSUME NEW r \in Pbufs
        PROVE  ref'[r] >= Cardinality(Of(queued', r)) + (IF r \in held' THEN 1 ELSE 0)
    <3>1. Cardinality(Of(queued, r)) \in Nat /\ ref[r] \in Nat
      BY OfType, RefTypes
    <3>2. ref[r] >= Cardinality(Of(queued, r)) + (IF r \in held THEN 1 ELSE 0)
      BY KeptIs DEF RefInv
    <3>3. ref'[r] >= ref[r] /\ ref'[r] \in Nat
      BY <1>10, <3>1
    <3>4. held' = held /\ queued' = queued
      BY <1>3
    <3> QED BY <3>1, <3>2, <3>3, <3>4
  <2> QED BY <2>1, KeptIsNext
<1>14. ref' \in [Pbufs -> 0 .. MaxRef]
  BY <1>1, RefTypes
<1> QED BY <1>12, <1>13, <1>14 DEF RefInv

\* The packet at the head of the queue has been sent: its pbuf is freed.
LEMMA ReclaimRefs ==
    ASSUME TypeOK, CpuOK, RxInv, RefInv, TxReclaim, queued # << >>,
           ref' = [ref EXCEPT ![queued[1].pbuf] = @ - 1]
    PROVE  RefInv' /\ ref' \in [Pbufs -> 0 .. MaxRef]
<1>1. UNCHANGED <<Closed, rxch, held, cpu>> /\ queued' = Tail(queued)
  BY DEF TxReclaim, rx, Closed
<1>2. /\ queued \in Seq(Packets) /\ 1 \in DOMAIN queued /\ queued[1].pbuf \in Pbufs
      /\ DOMAIN queued' \subseteq Nat
      /\ \A q \in DOMAIN queued' : q + 1 \in DOMAIN queued /\ queued'[q] = queued[q + 1]
  <2>1. queued \in Seq(Packets) /\ DOMAIN queued = 1 .. Len(queued)
    BY RefTypes
  <2>2. Len(queued) \in Nat \ {0}
    BY <2>1, EmptySeq
  <2>3. 1 \in DOMAIN queued /\ queued[1] \in Packets
    BY <2>1, <2>2
  <2>4. /\ Tail(queued) \in Seq(Packets) /\ Len(Tail(queued)) = Len(queued) - 1
        /\ \A i \in 1 .. Len(Tail(queued)) : Tail(queued)[i] = queued[i + 1]
        /\ DOMAIN Tail(queued) = 1 .. Len(Tail(queued))
    BY <2>1, HeadTailProperties, LenProperties
  <2> QED BY <1>1, <2>1, <2>2, <2>3, <2>4 DEF Packets
<1> PICK p \in Pbufs : p = queued[1].pbuf
  BY <1>2
<1>3. \A r \in Pbufs : ref'[r] = IF r = p THEN ref[p] - 1 ELSE ref[r]
  BY RefTypes
<1>4. RxOwned'
  <2>1. Posted <= NumRx /\ Given' = Given
    BY <1>1, RxTypes DEF Given
  <2>2. \A r \in Pbufs \ {p} : ref'[r] = ref[r]
    BY <1>3
  <2>3. held' \subseteq held \cup {p} /\ \E s \in DOMAIN queued : queued[s].pbuf = p
    BY <1>1, <1>2
  <2>4. \A q \in DOMAIN queued' : queued'[q].pbuf = p
                                  \/ \E s \in DOMAIN queued : queued[s].pbuf = queued'[q].pbuf
    BY <1>2
  <2>5. UNCHANGED <<Closed, rxch>> /\ RxRing
    BY <1>1 DEF RxInv
  <2> QED BY <2>1, <2>2, <2>3, <2>4, <2>5, RefChanges
<1>5. ASSUME NEW r \in Pbufs
      PROVE  /\ ref'[r] >= Cardinality(Of(queued', r)) + (IF r \in held' THEN 1 ELSE 0)
             /\ ref'[r] \in 0 .. MaxRef
  <2>1. Cardinality(Of(queued, r)) \in Nat /\ ref[r] \in 0 .. MaxRef /\ MaxRef \in Nat
    BY OfType, RefTypes
  <2>2. ref[r] >= Cardinality(Of(queued, r)) + (IF r \in held THEN 1 ELSE 0)
    BY KeptIs DEF RefInv
  <2>3. ref'[r] = IF r = p THEN ref[r] - 1 ELSE ref[r]
    BY <1>3
  <2>4. Cardinality(Of(queued', r)) = Cardinality(Of(queued, r)) - (IF p = r THEN 1 ELSE 0)
    BY <1>1, <1>2, OfTail
  <2>5. held' = held
    BY <1>1
  <2>6. Cardinality(Of(queued', r)) \in Nat
    <3>1. queued' \in Seq(Packets)
      BY <1>1, <1>2, HeadTailProperties
    <3> QED BY <3>1, OfType
  <2> QED BY <2>1, <2>2, <2>3, <2>4, <2>5, <2>6
<1>6. KeptWhileQueued'
  BY <1>5, KeptIsNext
<1>7. ref' \in [Pbufs -> 0 .. MaxRef]
  BY <1>5, RefTypes
<1> QED BY <1>4, <1>6, <1>7 DEF RefInv

-----------------------------------------------------------------------------
(* The transmit ring.                                                      *)

\* The descriptors of the queue, and the i-th of them from send_head.
InQueue == NumTx - txch.free_num
TxSlot(i) == Rot(NumTx, txch.send_head, i)
Before == Offsets(queued)

\* The links follow the ring, cut in front of free_head once a packet was sent; the
\* packets come first from send_head, then the free descriptors.
TxRing ==
    /\ txch.free_head = TxSlot(InQueue)
    /\ \A b \in TxBds :
           txbd[b].next = IF txch.send_tail # NULL /\ Rot(NumTx, b, 1) = txch.free_head
                          THEN NULL ELSE Rot(NumTx, b, 1)
    /\ txch.send_tail = NULL => queued = << >> /\ txdma.at = NULL /\ cpu.pc # "chained"
    /\ txch.send_tail # NULL /\ cpu.pc # "chained" =>
           txch.free_head = Rot(NumTx, txch.send_tail, 1)
    /\ cpu.pc = "chained" =>
           Len(queued) > 0 /\ Rot(NumTx, txch.send_tail, 1) = TxSlot(Before[Len(queued) - 1])

\* SOP and EOP mark the first and the last descriptors of the packets in the queue.
TxQueue ==
    /\ Before[Len(queued)] = InQueue
    /\ \A i \in 0 .. NumTx - 1 :
           /\ txbd[TxSlot(i)].sop <=> \E k \in 1 .. Len(queued) : i = Before[k - 1]
           /\ txbd[TxSlot(i)].eop <=> \E k \in 1 .. Len(queued) : i = Before[k] - 1
    /\ \A k \in 1 .. Len(queued) : txbd[TxSlot(Before[k] - 1)].pbuf = queued[k].pbuf

\* The first m packets have been sent, and the engine is at the next.  EOQ on the last
\* packet says that all are sent; on the tail in front of a packet just chained, that
\* all but this one are; and either, that the engine has halted.
SentUpTo(m) ==
    /\ \A k \in 1 .. Len(queued) : txbd[TxSlot(Before[k - 1])].owner <=> k > m
    /\ txdma.at # NULL => m < Len(queued) /\ txdma.at = TxSlot(Before[m])
    /\ txdma.latched => txdma.at # NULL
    /\ txdma.latched /\ txdma.next # NULL =>
           m + 1 < Len(queued) /\ txdma.next = TxSlot(Before[m + 1])
    /\ txch.send_tail # NULL =>
           \A b \in TxBds : Rot(NumTx, b, 1) = txch.free_head /\ txbd[b].eoq =>
                                m = Len(queued) /\ txdma.at = NULL
    /\ cpu.pc = "chained" /\ txbd[txch.send_tail].eoq =>
           m = Len(queued) - 1 /\ txdma.at = NULL

TxSent == \E m \in 0 .. Len(queued) : SentUpTo(m)

TxInv == TxRing /\ TxQueue /\ TxSent

TxBdType == [next : TxBds \cup {NULL}, owner : BOOLEAN, sop : BOOLEAN,
             eop : BOOLEAN, eoq : BOOLEAN, pbuf : Pbufs \cup {NULL}]

\* What the transmit side of the type invariant says, field by field.
LEMMA TxTypes ==
    ASSUME TypeOK
    PROVE  /\ NumTx \in Nat \ {0} /\ NumTx >= 2 /\ TxBds = 1 .. NumTx /\ NULL \notin TxBds
           /\ MaxChain \in Nat /\ MaxChain >= 1 /\ MaxChain < NumTx
           /\ txch.free_head \in TxBds /\ txch.send_head \in TxBds
           /\ txch.send_tail \in TxBds \cup {NULL}
           /\ txch.free_num \in 0 .. NumTx /\ InQueue \in 0 .. NumTx /\ InQueue \in Nat
           /\ txch = [free_head |-> txch.free_head, send_head |-> txch.send_head,
                      send_tail |-> txch.send_tail, free_num |-> txch.free_num]
           /\ queued \in Seq(Packets) /\ Len(queued) \in Nat
           /\ txdma.at \in TxBds \cup {NULL}
           /\ txbd \in [TxBds -> TxBdType]
<1>1. /\ NumTx \in Nat \ {0} /\ NumTx >= 2 /\ TxBds = 1 .. NumTx /\ NULL \notin TxBds
      /\ MaxChain \in Nat /\ MaxChain >= 1 /\ MaxChain < NumTx
  BY SizesAssumption DEF TxBds, NULL
<1>2. /\ txch.free_head \in TxBds /\ txch.send_head \in TxBds
      /\ txch.send_tail \in TxBds \cup {NULL} /\ txch.free_num \in 0 .. NumTx
      /\ txch = [free_head |-> txch.free_head, send_head |-> txch.send_head,
                 send_tail |-> txch.send_tail, free_num |-> txch.free_num]
  BY DEF TypeOK
<1>3. InQueue \in 0 .. NumTx /\ InQueue \in Nat
  BY <1>1, <1>2 DEF InQueue
<1>4. queued \in Seq(Packets) /\ Len(queued) \in Nat
  BY RefTypes
<1>5. txdma.at \in TxBds \cup {NULL}
  BY DEF TypeOK, DmaType
<1>6. txbd \in [TxBds -> TxBdType]
  BY DEF TypeOK, TxBdType
<1> QED BY <1>1, <1>2, <1>3, <1>4, <1>5, <1>6

\* The places of the transmit ring are its descriptors, each once.
LEMMA TxSlots ==
    ASSUME TypeOK
    PROVE  /\ \A i \in 0 .. NumTx : TxSlot(i) \in TxBds
           /\ \A i, j \in 0 .. NumTx - 1 : TxSlot(i) = TxSlot(j) => i = j
           /\ \A c \in TxBds : \E i \in 0 .. NumTx - 1 : c = TxSlot(i)
           /\ TxSlot(0) = txch.send_head /\ TxSlot(NumTx) = TxSlot(0)
           /\ \A i \in 0 .. NumTx - 1 : TxSlot(i + 1) = Rot(NumTx, TxSlot(i), 1)
<1>1. NumTx \in Nat /\ NumTx >= 2 /\ TxBds = 1 .. NumTx /\ txch.send_head \in 1 .. NumTx
  BY TxTypes
<1>2. ASSUME NEW i \in 0 .. NumTx PROVE TxSlot(i) \in TxBds
  BY <1>1, RotType DEF TxSlot
<1>3. ASSUME NEW i \in 0 .. NumTx - 1, NEW j \in 0 .. NumTx - 1, TxSlot(i) = TxSlot(j)
      PROVE  i = j
  BY <1>1, <1>3, RotInjective DEF TxSlot
<1>4. ASSUME NEW c \in TxBds PROVE \E i \in 0 .. NumTx - 1 : c = TxSlot(i)
  BY <1>1, RotOnto DEF TxSlot
<1>5. TxSlot(0) = txch.send_head /\ TxSlot(NumTx) = TxSlot(0)
  BY <1>1, RotRound DEF TxSlot
<1>6. ASSUME NEW i \in 0 .. NumTx - 1 PROVE TxSlot(i + 1) = Rot(NumTx, TxSlot(i), 1)
  <2>1. i \in 0 .. NumTx /\ 1 \in 0 .. NumTx /\ i + 1 <= NumTx
    BY <1>1
  <2> QED BY <1>1, <2>1, RotAdd DEF TxSlot
<1> QED BY <1>2, <1>3, <1>4, <1>5, <1>6

\* Where the packets of the queue begin and end.
LEMMA TxOffsets ==
    ASSUME TypeOK, TxQueue
    PROVE  /\ Before \in [0 .. Len(queued) -> Nat] /\ Before[0] = 0
           /\ Before[Len(queued)] = InQueue
           /\ \A k \in 1 .. Len(queued) : /\ Before[k] = Before[k - 1] + queued[k].n
                                          /\ queued[k].n \in 1 .. MaxChain
                                          /\ queued[k].pbuf \in Pbufs
           /\ \A j, k \in 0 .. Len(queued) : j < k => Before[j] < Before[k]
           /\ \A k \in 0 .. Len(queued) - 1 : Before[k] \in 0 .. InQueue - 1
                                              /\ Before[k] \in 0 .. NumTx - 1
           /\ \A k \in 1 .. Len(queued) : Before[k] - 1 \in 0 .. InQueue - 1
                                          /\ Before[k] - 1 \in 0 .. NumTx - 1
<1>1. /\ queued \in Seq(Packets) /\ Len(queued) \in Nat /\ InQueue \in 0 .. NumTx
      /\ NumTx \in Nat
  BY TxTypes
<1>2. /\ Before \in [0 .. Len(queued) -> Nat] /\ Before[0] = 0
      /\ \A k \in 1 .. Len(queued) : Before[k] = Before[k - 1] + queued[k].n
  BY <1>1, OffsetsType DEF Before
<1>3. ASSUME NEW j \in 0 .. Len(queued), NEW k \in 0 .. Len(queued), j < k
      PROVE  Before[j] < Before[k]
  BY <1>1, <1>3, OffsetsGrow DEF Before
<1>4. Before[Len(queued)] = InQueue
  BY DEF TxQueue
<1>5. ASSUME NEW k \in 1 .. Len(queued)
      PROVE  queued[k].n \in 1 .. MaxChain /\ queued[k].pbuf \in Pbufs
  <2>1. queued[k] \in Packets
    BY <1>1
  <2> QED BY <2>1 DEF Packets
<1>6. ASSUME NEW k \in 0 .. Len(queued) - 1
      PROVE  Before[k] \in 0 .. InQueue - 1 /\ Before[k] \in 0 .. NumTx - 1
  <2>1. k \in 0 .. Len(queued) /\ Len(queued) \in 0 .. Len(queued) /\ k < Len(queued)
    BY <1>1
  <2>2. Before[k] \in Nat /\ Before[k] < InQueue
    BY <1>2, <1>3, <1>4, <2>1
  <2> QED BY <1>1, <2>2
<1>7. ASSUME NEW k \in 1 .. Len(queued)
      PROVE  Before[k] - 1 \in 0 .. InQueue - 1 /\ Before[k] - 1 \in 0 .. NumTx - 1
  <2>1. k \in 0 .. Len(queued) /\ Len(queued) \in 0 .. Len(queued) /\ 0 \in 0 .. Len(queued)
        /\ 0 < k /\ (k < Len(queued) \/ k = Len(queued))
    BY <1>1
  <2>2. Before[k] \in Nat /\ Before[k] <= InQueue /\ 0 < Before[k]
    BY <1>1, <1>2, <1>3, <1>4, <2>1
  <2> QED BY <1>1, <2>2
<1> QED BY <1>2, <1>3, <1>4, <1>5, <1>6, <1>7

\* Following the links of the queue.
LEMMA TxLinks ==
    ASSUME TypeOK, TxRing, txch.send_tail # NULL, NEW i \in 0 .. InQueue - 1
    PROVE  txbd[TxSlot(i)].next = IF i = InQueue - 1 THEN NULL ELSE TxSlot(i + 1)
<1>1. /\ NumTx \in Nat /\ NumTx >= 2 /\ InQueue \in 0 .. NumTx /\ i \in 0 .. NumTx - 1
      /\ i \in 0 .. NumTx
  BY TxTypes
<1>2. TxSlot(i) \in TxBds /\ TxSlot(i + 1) = Rot(NumTx, TxSlot(i), 1)
  BY <1>1, TxSlots
<1>3. TxSlot(i + 1) = txch.free_head <=> i = InQueue - 1
  <2>1. i = InQueue - 1 => i + 1 = InQueue
    BY <1>1
  <2>2. ASSUME TxSlot(i + 1) = TxSlot(InQueue) PROVE i = InQueue - 1
    <3>1. CASE InQueue < NumTx
      <4>1. InQueue \in 0 .. NumTx - 1 /\ i + 1 \in 0 .. NumTx - 1
        BY <1>1, <3>1
      <4>2. i + 1 = InQueue
        BY <2>2, <4>1, TxSlots
      <4> QED BY <1>1, <4>2
    <3>2. CASE InQueue = NumTx
      <4>1. TxSlot(i + 1) = TxSlot(0)
        BY <2>2, <3>2, TxSlots
      <4>2. CASE i + 1 < NumTx
        <5>1. i + 1 \in 0 .. NumTx - 1 /\ 0 \in 0 .. NumTx - 1 /\ i + 1 # 0
          BY <1>1, <4>2
        <5> QED BY <4>1, <5>1, TxSlots
      <4>3. CASE ~(i + 1 < NumTx)
        BY <1>1, <3>2, <4>3
      <4> QED BY <4>2, <4>3
    <3> QED BY <1>1, <3>1, <3>2
  <2> QED BY <2>1, <2>2 DEF TxRing
<1> QED BY <1>2, <1>3 DEF TxRing

\* A chain walked from inside the queue runs to its end and stays NULL after it.
LEMMA TxWalk ==
    ASSUME TypeOK, TxRing, txch.send_tail # NULL, NEW s \in 0 .. InQueue - 1, NEW n \in Nat
    PROVE  Walk(txbd, TxSlot(s), n)
               = [i \in 1 .. n |-> IF s + i <= InQueue THEN TxSlot(s + i - 1) ELSE NULL]
<1> DEFINE p == [i \in 1 .. n |-> IF s + i <= InQueue THEN TxSlot(s + i - 1) ELSE NULL]
<1>1. NumTx \in Nat /\ InQueue \in Nat /\ InQueue <= NumTx /\ s \in Nat /\ s < InQueue
  BY TxTypes
<1>2. ASSUME NEW i \in 1 .. n
      PROVE  p[i] = IF i = 1 THEN TxSlot(s)
                    ELSE IF p[i - 1] = NULL THEN NULL ELSE txbd[p[i - 1]].next
  <2>1. CASE i = 1
    <3>1. s + 1 <= InQueue /\ s + 1 - 1 = s
      BY <1>1
    <3>2. p[1] = TxSlot(s + 1 - 1)
      BY <2>1, <3>1
    <3> QED BY <2>1, <3>1, <3>2
  <2>2. CASE i # 1 /\ s + i <= InQueue + 1
    <3> DEFINE j == s + i - 2
    <3>1. i - 1 \in 1 .. n /\ s + (i - 1) <= InQueue /\ s + (i - 1) - 1 = j /\ j \in 0 .. InQueue - 1
          /\ j \in 0 .. NumTx /\ j + 1 = s + i - 1 /\ (j = InQueue - 1 <=> ~(s + i <= InQueue))
      BY <1>1, <2>2
    <3>2. p[i - 1] = TxSlot(s + (i - 1) - 1)
      BY <3>1
    <3>3. TxSlot(j) \in TxBds /\ TxSlot(j) # NULL
      BY <3>1, TxSlots, TxTypes
    <3>4. txbd[TxSlot(j)].next = IF j = InQueue - 1 THEN NULL ELSE TxSlot(j + 1)
      <4> HIDE DEF j
      <4> QED BY <3>1, TxLinks
    <3>5. p[i] = IF s + i <= InQueue THEN TxSlot(s + i - 1) ELSE NULL
      OBVIOUS
    <3> HIDE DEF p, j
    <3> QED BY <2>2, <3>1, <3>2, <3>3, <3>4, <3>5
  <2>3. CASE s + i > InQueue + 1
    <3>1. i - 1 \in 1 .. n /\ ~(s + (i - 1) <= InQueue) /\ ~(s + i <= InQueue) /\ i # 1
      BY <1>1, <2>3
    <3>2. p[i - 1] = NULL /\ p[i] = NULL
      BY <3>1
    <3> HIDE DEF p
    <3> QED BY <3>1, <3>2
  <2>4. s + i <= InQueue + 1 \/ s + i > InQueue + 1
    BY <1>1
  <2> QED BY <2>1, <2>2, <2>3, <2>4
<1>3. p = [i \in 1 .. n |-> p[i]]
  OBVIOUS
<1> HIDE DEF p
<1>4. p = [i \in 1 .. n |-> IF i = 1 THEN TxSlot(s)
                            ELSE IF p[i - 1] = NULL THEN NULL ELSE txbd[p[i - 1]].next]
  BY <1>2, <1>3
<1>5. Walk(txbd, TxSlot(s), n) = p
  BY <1>4, WalkIs
<1> QED BY <1>5 DEF p

\* The k-th packet of the queue: its length and its last descriptor.
LEMMA PacketShape ==
    ASSUME TypeOK, TxRing, TxQueue, NEW k \in 1 .. Len(queued)
    PROVE  /\ PacketLength(txbd, TxSlot(Before[k - 1])) = queued[k].n
           /\ PacketEnd(txbd, TxSlot(Before[k - 1])) = TxSlot(Before[k] - 1)
           /\ txch.send_tail # NULL
           /\ txbd[TxSlot(Before[k] - 1)].next =
                  IF k = Len(queued) THEN NULL ELSE TxSlot(Before[k])
<1> DEFINE s == Before[k - 1]
           n == queued[k].n
           at == Walk(txbd, TxSlot(s), NumTx)
           Ends(l) == /\ txbd[at[l]].eop \/ l = NumTx
                      /\ \A i \in 1 .. l - 1 : ~txbd[at[i]].eop
<1>1. txch.send_tail # NULL
  BY TxTypes, EmptySeq DEF TxRing
<1>2. /\ k - 1 \in 0 .. Len(queued) - 1 /\ k \in 0 .. Len(queued) /\ k - 1 \in 0 .. Len(queued)
      /\ Len(queued) \in Nat /\ Len(queued) \in 0 .. Len(queued)
  BY TxTypes
<1>3. /\ s \in 0 .. InQueue - 1 /\ Before[k] = s + n /\ n \in 1 .. MaxChain
      /\ Before[k] - 1 \in 0 .. InQueue - 1 /\ Before[k] - 1 \in 0 .. NumTx - 1
  BY <1>2, TxOffsets
<1>4. NumTx \in Nat /\ MaxChain \in Nat /\ MaxChain < NumTx /\ InQueue \in Nat /\ InQueue <= NumTx
  BY TxTypes
<1>5. at = [i \in 1 .. NumTx |-> IF s + i <= InQueue THEN TxSlot(s + i - 1) ELSE NULL]
  <2> HIDE DEF s
  <2> QED BY <1>1, <1>3, <1>4, TxWalk
<1> HIDE DEF at
<1>6. ASSUME NEW i \in 1 .. n
      PROVE  /\ i \in 1 .. NumTx /\ at[i] = TxSlot(s + i - 1)
             /\ txbd[at[i]].eop <=> i = n
  <2>1. /\ i \in 1 .. NumTx /\ s + i <= InQueue /\ s + i - 1 \in 0 .. NumTx - 1
        /\ s < s + i /\ (i < n => s + i < Before[k]) /\ (i = n => s + i - 1 = Before[k] - 1)
        /\ s + i \in Nat
    <3>1. s \in Nat /\ s < InQueue /\ n \in Nat /\ n <= MaxChain /\ s + n <= InQueue
          /\ Before[k] = s + n /\ i \in Nat /\ i >= 1 /\ i <= n
      <4>1. n \in Nat /\ n <= MaxChain /\ i \in Nat /\ i >= 1 /\ i <= n
        <5> HIDE DEF n
        <5> QED BY <1>3, <1>4
      <4>2. s \in Nat /\ s < InQueue
        <5> HIDE DEF s
        <5> QED BY <1>3, <1>4
      <4>3. Before[k] <= InQueue
        BY <1>2, <1>4, TxOffsets
      <4> QED BY <1>3, <4>1, <4>2, <4>3
    <3> HIDE DEF s, n
    <3> QED BY <1>4, <3>1
  <2>2. at[i] = TxSlot(s + i - 1)
    <3> HIDE DEF s
    <3> QED BY <1>5, <2>1
  <2>3. txbd[TxSlot(s + i - 1)].eop <=> \E j \in 1 .. Len(queued) : s + i - 1 = Before[j] - 1
    <3> HIDE DEF s
    <3> QED BY <2>1 DEF TxQueue
  <2>4. ASSUME i < n, NEW j \in 1 .. Len(queued), s + i - 1 = Before[j] - 1 PROVE FALSE
    <3>1. j \in 0 .. Len(queued) /\ Before[j] \in Nat /\ Before[k] \in Nat /\ s \in Nat
      <4>1. j \in 0 .. Len(queued)
        BY <1>2
      <4>2. \A l \in 0 .. Len(queued) : Before[l] \in Nat
        BY TxOffsets
      <4> QED BY <1>2, <4>1, <4>2
    <3>2. s + i = Before[j]
      <4> HIDE DEF s
      <4> QED BY <2>1, <2>4, <3>1
    <3>3. CASE j < k
      <4>1. j = k - 1 \/ j < k - 1
        BY <1>2, <3>3
      <4>2. Before[j] <= s
        BY <1>2, <3>1, <4>1, TxOffsets
      <4> HIDE DEF s
      <4> QED BY <2>1, <3>1, <3>2, <4>2
    <3>4. CASE j = k
      <4> HIDE DEF s, n
      <4> QED BY <2>1, <2>4, <3>1, <3>2, <3>4
    <3>5. CASE j > k
      <4>1. Before[k] < Before[j]
        BY <1>2, <3>1, <3>5, TxOffsets
      <4> HIDE DEF s, n
      <4> QED BY <2>1, <2>4, <3>1, <3>2, <4>1
    <3> QED BY <1>2, <3>3, <3>4, <3>5
  <2>5. i = n => \E j \in 1 .. Len(queued) : s + i - 1 = Before[j] - 1
    BY <2>1
  <2>6. i < n \/ i = n
    <3> HIDE DEF n
    <3> QED BY <1>3, <1>4
  <2> HIDE DEF s, n
  <2> QED BY <2>1, <2>2, <2>3, <2>4, <2>5, <2>6
<1>7. n \in 1 .. NumTx /\ n \in 1 .. n
  <2> HIDE DEF n
  <2> QED BY <1>3, <1>4
<1>8. Ends(n)
  <2>1. ASSUME NEW i \in 1 .. n - 1 PROVE ~txbd[at[i]].eop
    <3>1. i \in 1 .. n /\ i # n
      <4> HIDE DEF n
      <4> QED BY <1>7
    <3> QED BY <1>6, <3>1
  <2>2. txbd[at[n]].eop
    BY <1>6, <1>7
  <2> QED BY <2>1, <2>2
<1>9. ASSUME NEW l \in 1 .. NumTx, Ends(l) PROVE l = n
  <2>1. CASE l < n
    <3>1. l \in 1 .. n /\ l # n /\ l # NumTx
      <4> HIDE DEF n
      <4> QED BY <1>4, <1>7, <2>1
    <3>2. ~txbd[at[l]].eop
      BY <1>6, <3>1
    <3> QED BY <1>9, <3>1, <3>2
  <2>2. CASE l > n
    <3>1. n \in 1 .. l - 1
      <4> HIDE DEF n
      <4> QED BY <1>4, <1>7, <2>2
    <3>2. txbd[at[n]].eop
      BY <1>6, <1>7
    <3> QED BY <1>9, <3>1, <3>2
  <2>3. l < n \/ l = n \/ l > n
    <3> HIDE DEF n
    <3> QED BY <1>4, <1>7
  <2> QED BY <2>1, <2>2, <2>3
<1>10. PacketLength(txbd, TxSlot(s)) = n
  <2>1. PacketLength(txbd, TxSlot(s)) = CHOOSE l \in 1 .. NumTx : Ends(l)
    BY DEF PacketLength, at
  <2> HIDE DEF Ends, n, s
  <2> QED BY <1>7, <1>8, <1>9, <2>1
<1>11. PacketEnd(txbd, TxSlot(s)) = TxSlot(Before[k] - 1)
  <2>1. PacketEnd(txbd, TxSlot(s)) = at[n]
    BY <1>10 DEF PacketEnd, at
  <2>2. at[n] = TxSlot(s + n - 1)
    BY <1>6, <1>7
  <2> QED BY <1>3, <2>1, <2>2
<1>12. txbd[TxSlot(Before[k] - 1)].next = IF k = Len(queued) THEN NULL ELSE TxSlot(Before[k])
  <2>1. txbd[TxSlot(Before[k] - 1)].next =
            IF Before[k] - 1 = InQueue - 1 THEN NULL ELSE TxSlot((Before[k] - 1) + 1)
    BY <1>1, <1>3, TxLinks
  <2>2. Before[k] \in Nat /\ (Before[k] - 1) + 1 = Before[k]
    BY <1>2, TxOffsets
  <2>3. Before[k] = InQueue <=> k = Len(queued)
    <3>1. k < Len(queued) \/ k = Len(queued)
      BY <1>2
    <3>2. k < Len(queued) => Before[k] < InQueue
      BY <1>2, TxOffsets
    <3> QED BY <1>2, <1>4, <2>2, <3>1, <3>2, TxOffsets
  <2>4. Before[k] - 1 = InQueue - 1 <=> Before[k] = InQueue
    BY <1>4, <2>2
  <2> QED BY <2>1, <2>2, <2>3, <2>4
<1> QED BY <1>1, <1>10, <1>11, <1>12

\* What the receive side does, and what concerns the interrupt only, leaves the
\* transmit ring as it is.
LEMMA TxFrame ==
    ASSUME TxInv, UNCHANGED <<txbd, txch, queued>>,
           txdma'.at = txdma.at, txdma'.next = txdma.next, txdma'.latched = txdma.latched,
           cpu'.pc = "chained" <=> cpu.pc = "chained"
    PROVE  TxInv'
<1>1. InQueue' = InQueue /\ Before' = Before /\ \A i : TxSlot(i)' = TxSlot(i)
  BY DEF InQueue, Before, TxSlot
<1>2. TxRing'
  BY <1>1 DEF TxInv, TxRing
<1>3. TxQueue'
  BY <1>1 DEF TxInv, TxQueue
<1>4. PICK m \in 0 .. Len(queued) : SentUpTo(m)
  BY DEF TxInv, TxSent
<1>5. SentUpTo(m)'
  BY <1>1, <1>4 DEF SentUpTo
<1>6. TxSent'
  BY <1>4, <1>5 DEF TxSent
<1> QED BY <1>2, <1>3, <1>6 DEF TxInv

\* The packet the engine is at.
LEMMA TxEngine ==
    ASSUME TypeOK, TxRing, TxQueue, txdma.at # NULL, NEW m \in 0 .. Len(queued), SentUpTo(m)
    PROVE  /\ m \in 0 .. Len(queued) - 1 /\ m + 1 \in 1 .. Len(queued) /\ (m + 1) - 1 = m
           /\ txdma.at = TxSlot(Before[m]) /\ txdma.at \in TxBds
           /\ Before[m] \in 0 .. NumTx - 1 /\ Before[m + 1] - 1 \in 0 .. NumTx - 1
           /\ PacketEnd(txbd, txdma.at) = TxSlot(Before[m + 1] - 1)
           /\ TxSlot(Before[m + 1] - 1) \in TxBds
           /\ txbd[TxSlot(Before[m + 1] - 1)].next =
                  IF m + 1 = Len(queued) THEN NULL ELSE TxSlot(Before[m + 1])
<1>1. m < Len(queued) /\ txdma.at = TxSlot(Before[m]) /\ Len(queued) \in Nat
  BY TxTypes DEF SentUpTo
<1>2. m \in 0 .. Len(queued) - 1 /\ m + 1 \in 1 .. Len(queued) /\ (m + 1) - 1 = m
  BY <1>1
<1>3. txdma.at \in TxBds
  BY TxTypes
<1>4. Before[m] \in 0 .. NumTx - 1 /\ Before[m + 1] - 1 \in 0 .. NumTx - 1
  BY <1>2, TxOffsets
<1>5. /\ PacketEnd(txbd, txdma.at) = TxSlot(Before[m + 1] - 1)
      /\ txbd[TxSlot(Before[m + 1] - 1)].next =
             IF m + 1 = Len(queued) THEN NULL ELSE TxSlot(Before[m + 1])
  BY <1>1, <1>2, PacketShape
<1>6. TxSlot(Before[m + 1] - 1) \in TxBds
  <2>1. Before[m + 1] - 1 \in 0 .. NumTx
    BY <1>4, TxTypes
  <2> QED BY <2>1, TxSlots
<1> QED BY <1>1, <1>2, <1>3, <1>4, <1>5, <1>6

\* The engine latching the link behind the packet it sends keeps the queue.
LEMMA TxBeginKeeps ==
    ASSUME TypeOK, TxInv, TxBegin
    PROVE  TxInv' /\ txdma'.next \in TxBds \cup {NULL}
<1>1. UNCHANGED <<txbd, txch, queued, cpu>> /\ txdma.at # NULL
  BY DEF TxBegin
<1>2. InQueue' = InQueue /\ Before' = Before /\ \A i : TxSlot(i)' = TxSlot(i)
  BY <1>1 DEF InQueue, Before, TxSlot
<1>3. PICK m \in 0 .. Len(queued) : SentUpTo(m)
  BY DEF TxInv, TxSent
<1>4. /\ txdma'.at = txdma.at /\ txdma'.latched
      /\ txdma'.next = txbd[PacketEnd(txbd, txdma.at)].next
  BY DEF TxBegin, TypeOK, DmaType
<1>5. /\ m \in 0 .. Len(queued) - 1 /\ m + 1 \in 1 .. Len(queued)
      /\ txdma'.next = IF m + 1 = Len(queued) THEN NULL ELSE TxSlot(Before[m + 1])
      /\ TxSlot(Before[m + 1] - 1) \in TxBds
      /\ PacketEnd(txbd, txdma.at) = TxSlot(Before[m + 1] - 1)
  BY <1>1, <1>3, <1>4, TxEngine DEF TxInv
<1>6. txdma'.next # NULL => m + 1 < Len(queued) /\ txdma'.next = TxSlot(Before[m + 1])
  BY <1>5, TxTypes
<1>7. TxRing'
  BY <1>1, <1>2, <1>4 DEF TxInv, TxRing
<1>8. TxQueue'
  BY <1>1, <1>2 DEF TxInv, TxQueue
<1>9. SentUpTo(m)'
  BY <1>1, <1>2, <1>3, <1>4, <1>6 DEF SentUpTo
<1>10. TxSent'
  BY <1>1, <1>3, <1>9 DEF TxSent
<1>11. txdma'.next \in TxBds \cup {NULL}
  BY <1>4, <1>5, TxTypes DEF TxBdType
<1> QED BY <1>7, <1>8, <1>10, <1>11 DEF TxInv

\* The engine completing a packet keeps the queue.
LEMMA TxDoneKeeps ==
    ASSUME TypeOK, TxInv, TxDone
    PROVE  /\ TxInv' /\ txbd' \in [TxBds -> TxBdType]
           /\ txdma'.at \in TxBds \cup {NULL} /\ txdma'.cp \in TxBds
<1> DEFINE at == txdma.at
           e == PacketEnd(txbd, at)
           next == NextOf(txdma, e, txbd)
<1>1. UNCHANGED <<txch, queued, cpu>> /\ at # NULL /\ (env.ahead => txdma.latched)
  BY DEF TxDone
<1>2. InQueue' = InQueue /\ Before' = Before /\ \A i : TxSlot(i)' = TxSlot(i)
  BY <1>1 DEF InQueue, Before, TxSlot
<1>3. PICK m \in 0 .. Len(queued) : SentUpTo(m)
  BY DEF TxInv, TxSent
<1>4. /\ m \in 0 .. Len(queued) - 1 /\ m + 1 \in 1 .. Len(queued) /\ (m + 1) - 1 = m
      /\ at = TxSlot(Before[m]) /\ at \in TxBds
      /\ Before[m] \in 0 .. NumTx - 1 /\ Before[m + 1] - 1 \in 0 .. NumTx - 1
      /\ e = TxSlot(Before[m + 1] - 1) /\ e \in TxBds
      /\ txbd[e].next = IF m + 1 = Len(queued) THEN NULL ELSE TxSlot(Before[m + 1])
  BY <1>1, <1>3, TxEngine DEF TxInv
<1>5. /\ txdma'.at = next /\ ~txdma'.latched /\ txdma'.cp = e
      /\ txbd' = [txbd EXCEPT ![at].owner = FALSE, ![e].eoq = @ \/ next = NULL]
  BY DEF TxDone, Complete
<1> HIDE DEF e
<1>6. \/ next = NULL
      \/ next # NULL /\ m + 1 < Len(queued) /\ next = TxSlot(Before[m + 1])
  <2>1. CASE env.ahead
    BY <1>1, <1>3, <2>1 DEF NextOf, SentUpTo
  <2>2. CASE ~env.ahead
    <3>1. Len(queued) \in Nat
      BY TxTypes
    <3> QED BY <1>4, <2>2, <3>1 DEF NextOf
  <2> QED BY <2>1, <2>2
<1> HIDE DEF next, at
<1>7. /\ txbd \in [TxBds -> TxBdType] /\ Len(queued) \in Nat /\ NumTx \in Nat
      /\ InQueue \in 0 .. NumTx
  BY TxTypes
<1> DEFINE g == [txbd EXCEPT ![at].owner = FALSE]
<1>16. /\ g \in [TxBds -> TxBdType]
       /\ \A b \in TxBds :
              /\ g[b].next = txbd[b].next /\ g[b].sop = txbd[b].sop
              /\ g[b].eop = txbd[b].eop /\ g[b].pbuf = txbd[b].pbuf
              /\ g[b].owner <=> b # at /\ txbd[b].owner
              /\ g[b].eoq = txbd[b].eoq
  <2>1. at \in TxBds /\ txbd \in [TxBds -> TxBdType]
    BY <1>4, <1>7
  <2>2. g \in [TxBds -> TxBdType]
    BY <2>1 DEF TxBdType
  <2>3. ASSUME NEW b \in TxBds
        PROVE  /\ g[b].next = txbd[b].next /\ g[b].sop = txbd[b].sop
               /\ g[b].eop = txbd[b].eop /\ g[b].pbuf = txbd[b].pbuf
               /\ g[b].owner <=> b # at /\ txbd[b].owner
               /\ g[b].eoq = txbd[b].eoq
    BY <2>1 DEF TxBdType
  <2> QED BY <2>2, <2>3
<1> DEFINE x == g[e].eoq \/ next = NULL
<1>17. txbd' = [g EXCEPT ![e].eoq = x] /\ x \in BOOLEAN
  BY <1>5
<1> HIDE DEF g, x
<1>8. txbd' \in [TxBds -> TxBdType]
  <2>1. g[e] \in TxBdType
    BY <1>4, <1>16
  <2>2. [g[e] EXCEPT !.eoq = x] \in TxBdType
    BY <1>17, <2>1 DEF TxBdType
  <2>3. txbd' = [g EXCEPT ![e] = [g[e] EXCEPT !.eoq = x]]
    BY <1>17
  <2> QED BY <1>16, <2>2, <2>3
<1>9. ASSUME NEW b \in TxBds
      PROVE  /\ txbd'[b].next = txbd[b].next /\ txbd'[b].sop = txbd[b].sop
             /\ txbd'[b].eop = txbd[b].eop /\ txbd'[b].pbuf = txbd[b].pbuf
             /\ txbd'[b].owner <=> b # at /\ txbd[b].owner
             /\ txbd'[b].eoq <=> txbd[b].eoq \/ (b = e /\ next = NULL)
  <2>1. /\ txbd'[b].next = g[b].next /\ txbd'[b].sop = g[b].sop
        /\ txbd'[b].eop = g[b].eop /\ txbd'[b].pbuf = g[b].pbuf
        /\ txbd'[b].owner = g[b].owner
        /\ txbd'[b].eoq = IF b = e THEN x ELSE g[b].eoq
    BY <1>4, <1>16, <1>17 DEF TxBdType
  <2>2. x <=> g[e].eoq \/ next = NULL
    BY DEF x
  <2> QED BY <1>16, <2>1, <2>2
<1>10. ASSUME NEW i \in 0 .. NumTx - 1 PROVE TxSlot(i) \in TxBds
  <2>1. i \in 0 .. NumTx
    BY <1>7
  <2> QED BY <2>1, TxSlots
<1>11. TxRing'
  <2>1. txch.send_tail # NULL
    BY <1>1 DEF TxInv, TxRing, at
  <2> QED BY <1>1, <1>2, <1>9, <2>1 DEF TxInv, TxRing
<1>12. TxQueue'
  <2>1. ASSUME NEW k \in 1 .. Len(queued)
        PROVE  txbd'[TxSlot(Before[k] - 1)].pbuf = queued[k].pbuf
    <3>1. Before[k] - 1 \in 0 .. NumTx - 1
      BY TxOffsets DEF TxInv
    <3> QED BY <1>9, <1>10, <3>1 DEF TxInv, TxQueue
  <2>2. ASSUME NEW i \in 0 .. NumTx - 1
        PROVE  /\ txbd'[TxSlot(i)].sop <=> \E k \in 1 .. Len(queued) : i = Before[k - 1]
               /\ txbd'[TxSlot(i)].eop <=> \E k \in 1 .. Len(queued) : i = Before[k] - 1
    BY <1>9, <1>10 DEF TxInv, TxQueue
  <2> QED BY <1>1, <1>2, <2>1, <2>2 DEF TxInv, TxQueue
<1>13. SentUpTo(m + 1)'
  <2>1. ASSUME NEW k \in 1 .. Len(queued)
        PROVE  txbd'[TxSlot(Before[k - 1])].owner <=> k > m + 1
    <3>1. k - 1 \in 0 .. Len(queued) - 1 /\ Before[k - 1] \in 0 .. NumTx - 1
      BY <1>7, TxOffsets DEF TxInv
    <3>2. TxSlot(Before[k - 1]) = at <=> k = m + 1
      <4>1. k = m + 1 => TxSlot(Before[k - 1]) = at
        BY <1>4
      <4>2. ASSUME TxSlot(Before[k - 1]) = at PROVE k = m + 1
        <5>1. Before[k - 1] = Before[m]
          BY <1>4, <3>1, <4>2, TxSlots
        <5>2. k - 1 \in 0 .. Len(queued) /\ m \in 0 .. Len(queued)
          BY <1>7
        <5>3. ~(Before[k - 1] < Before[m]) /\ ~(Before[m] < Before[k - 1])
          BY <1>4, <3>1, <5>1
        <5>4. ~(k - 1 < m) /\ ~(m < k - 1)
          BY <5>2, <5>3, TxOffsets DEF TxInv
        <5> QED BY <5>2, <5>4
      <4> QED BY <4>1, <4>2
    <3>3. txbd[TxSlot(Before[k - 1])].owner <=> k > m
      BY <1>3 DEF SentUpTo
    <3>4. txbd'[TxSlot(Before[k - 1])].owner <=>
              TxSlot(Before[k - 1]) # at /\ txbd[TxSlot(Before[k - 1])].owner
      BY <1>9, <1>10, <3>1
    <3> QED BY <1>7, <3>2, <3>3, <3>4
  <2>2. next # NULL => m + 1 < Len(queued) /\ next = TxSlot(Before[m + 1])
    BY <1>6
  <2>3. txch.send_tail # NULL =>
            \A b \in TxBds : Rot(NumTx, b, 1) = txch.free_head /\ txbd'[b].eoq =>
                                 m + 1 = Len(queued) /\ next = NULL
    <3>1. SUFFICES ASSUME txch.send_tail # NULL, NEW b \in TxBds,
                          Rot(NumTx, b, 1) = txch.free_head, txbd'[b].eoq
                   PROVE  m + 1 = Len(queued) /\ next = NULL
      OBVIOUS
    <3>2. ~txbd[b].eoq
      BY <1>1, <1>3, <3>1 DEF SentUpTo, at
    <3>3. b = e /\ next = NULL
      BY <1>9, <3>1, <3>2
    <3>4. txbd[e].next = NULL
      BY <3>1, <3>3 DEF TxInv, TxRing
    <3>5. m + 1 < Len(queued) => TxSlot(Before[m + 1]) # NULL
      <4>1. SUFFICES ASSUME m + 1 < Len(queued) PROVE TxSlot(Before[m + 1]) \in TxBds
        BY TxTypes
      <4>2. m + 1 \in 0 .. Len(queued) - 1
        BY <1>7, <4>1
      <4>3. Before[m + 1] \in 0 .. NumTx - 1
        BY <4>2, TxOffsets DEF TxInv
      <4> QED BY <1>10, <4>3
    <3> QED BY <1>4, <1>7, <3>3, <3>4, <3>5
  <2>4. cpu.pc = "chained" /\ txbd'[txch.send_tail].eoq =>
            m + 1 = Len(queued) - 1 /\ next = NULL
    <3>1. SUFFICES ASSUME cpu.pc = "chained", txbd'[txch.send_tail].eoq
                   PROVE  m + 1 = Len(queued) - 1 /\ next = NULL
      OBVIOUS
    <3>2. txch.send_tail \in TxBds
      BY <3>1, TxTypes DEF TxInv, TxRing
    <3>3. ~txbd[txch.send_tail].eoq
      BY <1>1, <1>3, <3>1 DEF SentUpTo, at
    <3>4. txch.send_tail = e /\ next = NULL
      BY <1>9, <3>1, <3>2, <3>3
    <3> DEFINE l == Len(queued) - 1
    <3>5. Rot(NumTx, e, 1) = TxSlot(Before[l]) /\ l \in 0 .. Len(queued) - 1
          /\ l \in 0 .. Len(queued)
      BY <1>7, <3>1, <3>4 DEF TxInv, TxRing
    <3>6. Rot(NumTx, e, 1) = TxSlot(Before[m + 1])
      <4>1. TxSlot((Before[m + 1] - 1) + 1) = Rot(NumTx, e, 1)
        BY <1>4, TxSlots
      <4>2. (Before[m + 1] - 1) + 1 = Before[m + 1]
        <5>1. m + 1 \in 0 .. Len(queued)
          BY <1>7, <1>4
        <5>2. Before[m + 1] \in Nat
          BY <5>1, TxOffsets DEF TxInv
        <5> QED BY <5>2
      <4> QED BY <4>1, <4>2
    <3>7. m + 1 = l
      <4>1. CASE m + 1 = Len(queued)
        <5>1. Before[m + 1] = InQueue /\ Before[l] \in 0 .. InQueue - 1
              /\ Before[l] \in 0 .. NumTx - 1
          BY <3>5, <4>1, TxOffsets DEF TxInv
        <5>2. TxSlot(InQueue) = TxSlot(Before[l])
          BY <3>5, <3>6, <5>1
        <5>3. CASE InQueue < NumTx
          <6>1. InQueue \in 0 .. NumTx - 1
            BY <1>7, <5>3
          <6>2. InQueue = Before[l]
            BY <5>1, <5>2, <6>1, TxSlots
          <6> QED BY <1>7, <5>1, <6>2
        <5>4. CASE InQueue = NumTx
          <6>1. 0 \in 0 .. NumTx - 1 /\ TxSlot(0) = TxSlot(Before[l])
            BY <1>7, <5>2, <5>4, TxSlots, TxTypes
          <6>2. Before[l] = 0
            BY <5>1, <6>1, TxSlots
          <6>3. l = 0
            <7>1. 0 \in 0 .. Len(queued) /\ Before[0] = 0
              BY <1>7, TxOffsets DEF TxInv
            <7>2. ~(0 < l)
              <8> HIDE DEF l
              <8> QED BY <3>5, <6>2, <7>1, TxOffsets DEF TxInv
            <7> HIDE DEF l
            <7> QED BY <1>7, <3>5, <7>2
          <6>4. 1 \in 1 .. Len(queued) /\ m + 1 = 1 /\ Len(queued) = 1
            <7>1. Len(queued) - 1 = 0
              BY <6>3
            <7>2. Len(queued) = 1
              <8> HIDE DEF l
              <8> QED BY <1>7, <7>1
            <7>3. m + 1 = 1
              BY <4>1, <7>2
            <7> QED BY <7>2, <7>3
          <6>5. Before[1] = Before[0] + queued[1].n /\ queued[1].n \in 1 .. MaxChain
                /\ Before[0] = 0 /\ Before[1] = InQueue
            <7>1. Before[1] = Before[1 - 1] + queued[1].n
              BY <6>4, TxOffsets DEF TxInv
            <7> QED BY <5>1, <6>4, <7>1, TxOffsets DEF TxInv
          <6>6. MaxChain < NumTx /\ MaxChain \in Nat
            BY TxTypes
          <6> QED BY <1>7, <5>4, <6>5, <6>6
        <5> QED BY <1>7, <5>3, <5>4
      <4>2. CASE m + 1 # Len(queued)
        <5>1. m + 1 \in 0 .. Len(queued) - 1 /\ m + 1 \in 0 .. Len(queued)
          BY <1>4, <1>7, <4>2
        <5>2. Before[m + 1] \in 0 .. NumTx - 1 /\ Before[l] \in 0 .. NumTx - 1
          BY <3>5, <5>1, TxOffsets DEF TxInv
        <5>3. Before[m + 1] = Before[l]
          BY <3>5, <3>6, <5>2, TxSlots
        <5>4. ~(Before[m + 1] < Before[l]) /\ ~(Before[l] < Before[m + 1])
          BY <1>7, <5>2, <5>3
        <5>5. ~(m + 1 < l) /\ ~(l < m + 1)
          <6> HIDE DEF l
          <6> QED BY <3>5, <5>1, <5>4, TxOffsets DEF TxInv
        <5> QED BY <1>7, <5>1, <5>5
      <4> QED BY <4>1, <4>2
    <3> QED BY <3>4, <3>7
  <2> QED BY <1>1, <1>2, <1>5, <2>1, <2>2, <2>3, <2>4 DEF SentUpTo
<1>14. TxSent'
  <2>1. m + 1 \in 0 .. Len(queued)
    BY <1>7, <1>4
  <2> QED BY <1>1, <1>13, <2>1 DEF TxSent
<1>15. txdma'.at \in TxBds \cup {NULL} /\ txdma'.cp \in TxBds
  <2>1. next \in TxBds \cup {NULL}
    <3>1. m + 1 < Len(queued) => Before[m + 1] \in 0 .. NumTx - 1
      <4>1. m + 1 < Len(queued) => m + 1 \in 0 .. Len(queued) - 1
        BY <1>7
      <4> QED BY <4>1, TxOffsets DEF TxInv
    <3> QED BY <1>6, <1>10, <3>1
  <2> QED BY <1>4, <1>5, <2>1
<1> QED BY <1>8, <1>11, <1>12, <1>14, <1>15 DEF TxInv

\* The free descriptors follow one another from free_head.
LEMMA TxFree ==
    ASSUME TypeOK, TxRing, NEW n \in 1 .. MaxChain, n <= txch.free_num
    PROVE  /\ InQueue + n <= NumTx
           /\ \A i \in 1 .. n : /\ InQueue + i - 1 \in 0 .. NumTx - 1
                                /\ txbd[TxSlot(InQueue + i - 1)].next = TxSlot(InQueue + i)
           /\ Taken(n) = [i \in 1 .. n |-> TxSlot(InQueue + i - 1)]
<1> DEFINE p == [i \in 1 .. n |-> TxSlot(InQueue + i - 1)]
<1>1. /\ NumTx \in Nat /\ NumTx >= 2 /\ InQueue \in Nat /\ n \in Nat /\ n < NumTx
      /\ MaxChain \in Nat
  BY TxTypes
<1>2. InQueue + n <= NumTx
  BY TxTypes DEF InQueue
<1>3. ASSUME NEW i \in 1 .. n
      PROVE  /\ InQueue + i - 1 \in 0 .. NumTx - 1
             /\ txbd[TxSlot(InQueue + i - 1)].next = TxSlot(InQueue + i)
  <2> DEFINE j == InQueue + i - 1
  <2>1. j \in 0 .. NumTx - 1 /\ j \in 0 .. NumTx /\ j + 1 = InQueue + i /\ j + 1 <= NumTx
    BY <1>1, <1>2
  <2>2. TxSlot(j) \in TxBds /\ TxSlot(j + 1) = Rot(NumTx, TxSlot(j), 1)
    <3> HIDE DEF j
    <3> QED BY <2>1, TxSlots
  <2>3. TxSlot(j + 1) # TxSlot(InQueue)
    <3>1. CASE j + 1 < NumTx
      <4>1. j + 1 \in 0 .. NumTx - 1 /\ InQueue \in 0 .. NumTx - 1 /\ j + 1 # InQueue
        BY <1>1, <1>2, <2>1, <3>1
      <4> HIDE DEF j
      <4> QED BY <4>1, TxSlots
    <3>2. CASE j + 1 = NumTx
      <4>1. 0 \in 0 .. NumTx - 1 /\ InQueue \in 0 .. NumTx - 1 /\ 0 # InQueue
        BY <1>1, <1>2, <2>1, <3>2
      <4>2. TxSlot(j + 1) = TxSlot(0)
        BY <3>2, TxSlots
      <4> HIDE DEF j
      <4> QED BY <4>1, <4>2, TxSlots
    <3> HIDE DEF j
    <3> QED BY <1>1, <2>1, <3>1, <3>2
  <2>4. txbd[TxSlot(j)].next = TxSlot(j + 1)
    <3> HIDE DEF j
    <3> QED BY <2>2, <2>3 DEF TxRing
  <2>5. txbd[TxSlot(j)].next = TxSlot(InQueue + i)
    <3> HIDE DEF j
    <3> QED BY <2>1, <2>4
  <2> QED BY <2>1, <2>5
<1>4. ASSUME NEW i \in 1 .. n
      PROVE  p[i] = IF i = 1 THEN txch.free_head
                    ELSE IF p[i - 1] = NULL THEN NULL ELSE txbd[p[i - 1]].next
  <2>1. CASE i = 1
    <3>1. InQueue + i - 1 = InQueue
      BY <1>1, <2>1
    <3> QED BY <2>1, <3>1 DEF TxRing
  <2>2. CASE i # 1
    <3>1. i - 1 \in 1 .. n /\ InQueue + (i - 1) = InQueue + i - 1
      BY <1>1, <2>2
    <3>2. p[i - 1] = TxSlot(InQueue + (i - 1) - 1)
      BY <3>1
    <3>3. txbd[TxSlot(InQueue + (i - 1) - 1)].next = TxSlot(InQueue + (i - 1))
          /\ InQueue + (i - 1) - 1 \in 0 .. NumTx - 1
      BY <1>3, <3>1
    <3>4. InQueue + (i - 1) - 1 \in 0 .. NumTx
      BY <1>1, <3>3
    <3>5. p[i - 1] \in TxBds
      BY <3>2, <3>4, TxSlots
    <3>6. p[i] = TxSlot(InQueue + i - 1)
      OBVIOUS
    <3> HIDE DEF p
    <3> QED BY <2>2, <3>1, <3>2, <3>3, <3>5, <3>6, TxTypes
  <2> QED BY <2>1, <2>2
<1>5. p = [i \in 1 .. n |-> p[i]]
  OBVIOUS
<1>6. Taken(n) = p
  <2> HIDE DEF p
  <2>1. p = [i \in 1 .. n |-> IF i = 1 THEN txch.free_head
                              ELSE IF p[i - 1] = NULL THEN NULL ELSE txbd[p[i - 1]].next]
    BY <1>4, <1>5
  <2>3. n \in Nat
    BY <1>1
  <2>2. Walk(txbd, txch.free_head, n) = p
    BY <2>1, <2>3, WalkIs
  <2> QED BY <2>2 DEF Taken
<1> QED BY <1>2, <1>3, <1>6

\* The descriptor before free_head.
LEMMA TxTail ==
    ASSUME TypeOK, TxRing, txch.send_tail # NULL, cpu.pc # "chained"
    PROVE  /\ txch.send_tail \in TxBds /\ Rot(NumTx, txch.send_tail, 1) = txch.free_head
           /\ InQueue > 0 => txch.send_tail = TxSlot(InQueue - 1)
           /\ InQueue = 0 => txch.send_tail = TxSlot(NumTx - 1)
<1>1. /\ txch.send_tail \in TxBds /\ Rot(NumTx, txch.send_tail, 1) = txch.free_head
      /\ txch.free_head = TxSlot(InQueue)
  BY TxTypes DEF TxRing
<1>2. NumTx \in Nat /\ NumTx >= 2 /\ TxBds = 1 .. NumTx /\ InQueue \in 0 .. NumTx
  BY TxTypes
<1> DEFINE j == IF InQueue = 0 THEN NumTx - 1 ELSE InQueue - 1
<1>3. j \in 0 .. NumTx - 1 /\ j \in 0 .. NumTx
  BY <1>2
<1>4. TxSlot(j + 1) = TxSlot(InQueue)
  <2>1. CASE InQueue = 0
    <3>1. j + 1 = NumTx
      BY <1>2, <2>1
    <3> HIDE DEF j
    <3> QED BY <2>1, <3>1, TxSlots
  <2>2. CASE InQueue # 0
    <3>1. j + 1 = InQueue
      BY <1>2, <2>2
    <3> HIDE DEF j
    <3> QED BY <3>1
  <2> QED BY <2>1, <2>2
<1>5. TxSlot(j) \in TxBds /\ TxSlot(j + 1) = Rot(NumTx, TxSlot(j), 1)
  <2> HIDE DEF j
  <2> QED BY <1>3, TxSlots
<1>6. txch.send_tail = TxSlot(j)
  <2> HIDE DEF j
  <2> QED BY <1>1, <1>2, <1>4, <1>5, RotBefore
<1> QED BY <1>1, <1>2, <1>6

\* What cpswif_transmit makes of the ring.
LEMMA OutputShape ==
    ASSUME TypeOK, TxRing, NEW p \in Pbufs, NEW n \in 1 .. MaxChain, Output(p, n)
    PROVE  /\ InQueue + n <= NumTx /\ InQueue < NumTx /\ cpu.pc # "chained"
           /\ txbd' \in [TxBds -> TxBdType]
           /\ \A j \in 0 .. NumTx - 1 :
                  LET c == TxSlot(j)
                  IN  /\ txbd'[c].owner <=> j = InQueue \/ txbd[c].owner
                      /\ txbd'[c].sop <=> j = InQueue \/ txbd[c].sop
                      /\ txbd'[c].eop <=> j = InQueue + n - 1 \/ (j # InQueue /\ txbd[c].eop)
                      /\ txbd'[c].eoq => txbd[c].eoq /\ j # InQueue + n - 1
                      /\ c = txch.send_tail => txbd'[c].eoq = txbd[c].eoq
                      /\ txbd'[c].pbuf = IF InQueue <= j /\ j < InQueue + n THEN p
                                         ELSE txbd[c].pbuf
                      /\ txbd'[c].next = IF j = InQueue + n - 1 THEN NULL
                                         ELSE IF c = txch.send_tail THEN TxSlot(InQueue)
                                         ELSE txbd[c].next
           /\ txch' = [free_head |-> TxSlot(InQueue + n), send_head |-> txch.send_head,
                       send_tail |-> IF txch.send_tail = NULL THEN TxSlot(InQueue + n - 1)
                                     ELSE txch.send_tail,
                       free_num |-> txch.free_num - n]
           /\ txch.send_tail = NULL => txdma' = WriteHDP(txdma, TxSlot(InQueue)) /\ cpu' = cpu
           /\ txch.send_tail # NULL =>
                  txdma' = txdma /\ cpu' = [cpu EXCEPT !.pc = "chained", !.ret = cpu.pc]
           /\ queued' = Append(queued, [pbuf |-> p, n |-> n])
<1> DEFINE bds == Taken(n)
           bd == Described(bds, n, p)
<1>1. /\ InStack /\ n <= txch.free_num
      /\ queued' = Append(queued, [pbuf |-> p, n |-> n])
      /\ txch' = [txch EXCEPT !.free_num = @ - n,
                              !.free_head = txbd[bds[n]].next,
                              !.send_tail = IF @ = NULL THEN bds[n] ELSE @]
      /\ txch.send_tail = NULL =>
             txdma' = WriteHDP(txdma, bds[1]) /\ txbd' = bd /\ cpu' = cpu
      /\ txch.send_tail # NULL =>
             /\ txbd' = [bd EXCEPT ![txch.send_tail].next = bds[1]]
             /\ cpu' = [cpu EXCEPT !.pc = "chained", !.ret = cpu.pc]
             /\ txdma' = txdma
  BY DEF Output
<1>2. cpu.pc # "chained"
  BY <1>1 DEF InStack
<1>3. /\ NumTx \in Nat /\ NumTx >= 2 /\ InQueue \in Nat /\ n \in Nat /\ n >= 1 /\ n < NumTx
      /\ MaxChain \in Nat /\ TxBds = 1 .. NumTx
  BY TxTypes
<1>4. InQueue + n <= NumTx /\ InQueue < NumTx
  BY <1>1, <1>3, TxFree
<1>5. ASSUME NEW i \in 1 .. n
      PROVE  /\ InQueue + i - 1 \in 0 .. NumTx - 1 /\ bds[i] = TxSlot(InQueue + i - 1)
             /\ bds[i] \in TxBds /\ txbd[bds[i]].next = TxSlot(InQueue + i)
  <2>1. /\ InQueue + i - 1 \in 0 .. NumTx - 1 /\ bds[i] = TxSlot(InQueue + i - 1)
        /\ txbd[TxSlot(InQueue + i - 1)].next = TxSlot(InQueue + i)
    BY <1>1, TxFree
  <2>2. InQueue + i - 1 \in 0 .. NumTx
    BY <1>3, <2>1
  <2> QED BY <2>1, <2>2, TxSlots
<1> HIDE DEF bds
<1>6. 1 \in 1 .. n /\ n \in 1 .. n /\ InQueue + 1 - 1 = InQueue
  BY <1>3
<1>7. bds[1] = TxSlot(InQueue) /\ bds[n] = TxSlot(InQueue + n - 1)
      /\ bds[1] \in TxBds /\ bds[n] \in TxBds /\ txbd[bds[n]].next = TxSlot(InQueue + n)
  <2>1. bds[1] = TxSlot(InQueue + 1 - 1)
    BY <1>5, <1>6
  <2> QED BY <1>5, <1>6, <2>1
<1>8. ASSUME NEW j \in 0 .. NumTx - 1
      PROVE  /\ TxSlot(j) \in TxBds
             /\ TxSlot(j) = bds[1] <=> j = InQueue
             /\ TxSlot(j) = bds[n] <=> j = InQueue + n - 1
             /\ (\E i \in 1 .. n : bds[i] = TxSlot(j)) <=> InQueue <= j /\ j < InQueue + n
  <2>1. TxSlot(j) \in TxBds
    <3>1. j \in 0 .. NumTx
      BY <1>3
    <3> QED BY <3>1, TxSlots
  <2>2. ASSUME NEW i \in 1 .. n PROVE bds[i] = TxSlot(j) <=> j = InQueue + i - 1
    BY <1>5, TxSlots
  <2>3. InQueue <= j /\ j < InQueue + n => j - InQueue + 1 \in 1 .. n
                                           /\ j = InQueue + (j - InQueue + 1) - 1
    BY <1>3
  <2>4. \A i \in 1 .. n : j = InQueue + i - 1 => InQueue <= j /\ j < InQueue + n
    BY <1>3
  <2>5. InQueue <= j /\ j < InQueue + n => \E i \in 1 .. n : bds[i] = TxSlot(j)
    BY <2>2, <2>3
  <2>6. (\E i \in 1 .. n : bds[i] = TxSlot(j)) => InQueue <= j /\ j < InQueue + n
    BY <2>2, <2>4
  <2>7. TxSlot(j) = bds[1] <=> j = InQueue + 1 - 1
    BY <1>6, <2>2
  <2>8. TxSlot(j) = bds[n] <=> j = InQueue + n - 1
    BY <1>6, <2>2
  <2> QED BY <1>6, <2>1, <2>5, <2>6, <2>7, <2>8
<1>9. txbd \in [TxBds -> TxBdType]
  BY TxTypes
<1> DEFINE taken(b) == \E i \in 1 .. n : bds[i] = b
<1>10. ASSUME NEW b \in TxBds
       PROVE  bd[b] = IF ~taken(b) THEN txbd[b]
                      ELSE [next |-> IF b = bds[n] THEN NULL ELSE txbd[b].next,
                            owner |-> b = bds[1] \/ txbd[b].owner,
                            sop |-> b = bds[1] \/ txbd[b].sop,
                            eop |-> b = bds[n] \/ (b # bds[1] /\ txbd[b].eop),
                            eoq |-> b # bds[1] /\ b # bds[n] /\ txbd[b].eoq,
                            pbuf |-> p]
  BY DEF Described
<1>11. bd = [b \in TxBds |-> bd[b]]
  BY DEF Described
<1> HIDE DEF bd
<1>12. ASSUME NEW b \in TxBds
       PROVE  /\ bd[b] \in TxBdType
              /\ bd[b].owner <=> b = bds[1] \/ txbd[b].owner
              /\ bd[b].sop <=> b = bds[1] \/ txbd[b].sop
              /\ bd[b].eop <=> b = bds[n] \/ (b # bds[1] /\ txbd[b].eop)
              /\ bd[b].eoq <=> \/ b # bds[1] /\ b # bds[n] /\ txbd[b].eoq
                               \/ ~taken(b) /\ txbd[b].eoq
              /\ bd[b].pbuf = IF taken(b) THEN p ELSE txbd[b].pbuf
              /\ bd[b].next = IF b = bds[n] THEN NULL ELSE txbd[b].next
  <2>1. txbd[b] \in TxBdType
    BY <1>9
  <2>2. CASE ~taken(b)
    <3>1. b # bds[1] /\ b # bds[n]
      BY <1>6, <2>2
    <3> HIDE DEF taken
    <3> QED BY <1>10, <2>1, <2>2, <3>1
  <2>3. CASE taken(b)
    <3> HIDE DEF taken
    <3> DEFINE o == b = bds[1] \/ txbd[b].owner
               sp == b = bds[1] \/ txbd[b].sop
               ep == b = bds[n] \/ (b # bds[1] /\ txbd[b].eop)
               eq == b # bds[1] /\ b # bds[n] /\ txbd[b].eoq
    <3>1. bd[b] = [next |-> IF b = bds[n] THEN NULL ELSE txbd[b].next,
                   owner |-> o, sop |-> sp, eop |-> ep, eoq |-> eq, pbuf |-> p]
      BY <1>10, <2>3
    <3>2. /\ o \in BOOLEAN /\ sp \in BOOLEAN /\ ep \in BOOLEAN /\ eq \in BOOLEAN
          /\ txbd[b].next \in TxBds \cup {NULL}
      BY <2>1 DEF TxBdType
    <3> HIDE DEF o, sp, ep, eq
    <3>3. bd[b] \in TxBdType
      BY <3>1, <3>2 DEF TxBdType
    <3>4. bd[b].next = (IF b = bds[n] THEN NULL ELSE txbd[b].next) /\ bd[b].pbuf = p
      BY <3>1
    <3>5. bd[b].owner = o /\ bd[b].sop = sp /\ bd[b].eop = ep /\ bd[b].eoq = eq
      BY <3>1
    <3> QED BY <2>3, <3>3, <3>4, <3>5 DEF o, sp, ep, eq
  <2> QED BY <2>2, <2>3
<1> HIDE DEF taken
<1>13. bd \in [TxBds -> TxBdType]
  BY <1>11, <1>12
<1>14. txch.send_tail # NULL =>
           /\ txch.send_tail \in TxBds /\ txch.send_tail # bds[n] /\ ~taken(txch.send_tail)
  <2>1. SUFFICES ASSUME txch.send_tail # NULL
                 PROVE  /\ txch.send_tail \in TxBds /\ ~taken(txch.send_tail)
    BY <1>6 DEF taken
  <2>2. txch.send_tail \in TxBds
    BY <1>2, <2>1, TxTail
  <2>3. CASE InQueue = 0
    <3>1. txch.send_tail = TxSlot(NumTx - 1) /\ NumTx - 1 \in 0 .. NumTx - 1
          /\ ~(NumTx - 1 < InQueue + n)
      BY <1>2, <1>3, <2>1, <2>3, TxTail
    <3> QED BY <1>8, <2>2, <3>1 DEF taken
  <2>4. CASE InQueue > 0
    <3>1. txch.send_tail = TxSlot(InQueue - 1) /\ InQueue - 1 \in 0 .. NumTx - 1
          /\ ~(InQueue <= InQueue - 1)
      BY <1>2, <1>3, <1>4, <2>1, <2>4, TxTail
    <3> QED BY <1>8, <2>2, <3>1 DEF taken
  <2> QED BY <1>3, <2>3, <2>4
<1>15. txbd' \in [TxBds -> TxBdType]
  <2>1. CASE txch.send_tail = NULL
    BY <1>1, <1>13, <2>1
  <2>2. CASE txch.send_tail # NULL
    <3> DEFINE s == txch.send_tail
               h == bds[1]
    <3>1. /\ s \in TxBds /\ h \in TxBds
          /\ txbd' = [bd EXCEPT ![s].next = h]
      BY <1>1, <1>7, <1>14, <2>2
    <3> HIDE DEF s, h
    <3> QED BY <1>13, <3>1 DEF TxBdType
  <2> QED BY <2>1, <2>2
<1>16. ASSUME NEW b \in TxBds
       PROVE  /\ txbd'[b].owner = bd[b].owner /\ txbd'[b].sop = bd[b].sop
              /\ txbd'[b].eop = bd[b].eop /\ txbd'[b].eoq = bd[b].eoq
              /\ txbd'[b].pbuf = bd[b].pbuf
              /\ txbd'[b].next = IF b = txch.send_tail THEN bds[1] ELSE bd[b].next
  <2>1. CASE txch.send_tail = NULL
    BY <1>1, <2>1, TxTypes
  <2>2. CASE txch.send_tail # NULL
    BY <1>1, <1>13, <1>14, <2>2 DEF TxBdType
  <2> QED BY <2>1, <2>2
<1>17. ASSUME NEW j \in 0 .. NumTx - 1
       PROVE  LET c == TxSlot(j)
              IN  /\ txbd'[c].owner <=> j = InQueue \/ txbd[c].owner
                  /\ txbd'[c].sop <=> j = InQueue \/ txbd[c].sop
                  /\ txbd'[c].eop <=> j = InQueue + n - 1 \/ (j # InQueue /\ txbd[c].eop)
                  /\ txbd'[c].eoq => txbd[c].eoq /\ j # InQueue + n - 1
                  /\ c = txch.send_tail => txbd'[c].eoq = txbd[c].eoq
                  /\ txbd'[c].pbuf = IF InQueue <= j /\ j < InQueue + n THEN p
                                     ELSE txbd[c].pbuf
                  /\ txbd'[c].next = IF j = InQueue + n - 1 THEN NULL
                                     ELSE IF c = txch.send_tail THEN TxSlot(InQueue)
                                     ELSE txbd[c].next
  <2> DEFINE c == TxSlot(j)
  <2>1. /\ c \in TxBds
        /\ c = bds[1] <=> j = InQueue
        /\ c = bds[n] <=> j = InQueue + n - 1
        /\ taken(c) <=> InQueue <= j /\ j < InQueue + n
    BY <1>8 DEF taken
  <2> HIDE DEF c
  <2>2. c # NULL
    BY <2>1, TxTypes
  <2>3. c = txch.send_tail => bd[c] = txbd[c] /\ c # bds[n]
    BY <1>10, <1>14, <2>1, <2>2
  <2>4. taken(c) <=> InQueue <= j /\ j < InQueue + n
    BY <2>1
  <2>5. c = bds[n] => taken(c)
    BY <1>6 DEF taken
  <2>6. /\ txbd'[c].owner <=> j = InQueue \/ txbd[c].owner
        /\ txbd'[c].sop <=> j = InQueue \/ txbd[c].sop
        /\ txbd'[c].eop <=> j = InQueue + n - 1 \/ (j # InQueue /\ txbd[c].eop)
        /\ txbd'[c].eoq => txbd[c].eoq /\ j # InQueue + n - 1
    BY <1>12, <1>16, <2>1, <2>5
  <2>7. c = txch.send_tail => txbd'[c].eoq = txbd[c].eoq
    BY <1>16, <2>1, <2>3
  <2>8. txbd'[c].pbuf = IF InQueue <= j /\ j < InQueue + n THEN p ELSE txbd[c].pbuf
    BY <1>12, <1>16, <2>1
  <2>9. txbd'[c].next = IF j = InQueue + n - 1 THEN NULL
                        ELSE IF c = txch.send_tail THEN TxSlot(InQueue)
                        ELSE txbd[c].next
    BY <1>7, <1>12, <1>16, <2>1, <2>3
  <2> QED BY <2>6, <2>7, <2>8, <2>9 DEF c
<1>18. txch' = [free_head |-> TxSlot(InQueue + n), send_head |-> txch.send_head,
                send_tail |-> IF txch.send_tail = NULL THEN TxSlot(InQueue + n - 1)
                              ELSE txch.send_tail,
                free_num |-> txch.free_num - n]
  <2>1. txch = [free_head |-> txch.free_head, send_head |-> txch.send_head,
                send_tail |-> txch.send_tail, free_num |-> txch.free_num]
    BY TxTypes
  <2> QED BY <1>1, <1>7, <2>1
<1> QED BY <1>1, <1>2, <1>4, <1>7, <1>15, <1>17, <1>18

\* Chaining a packet behind the queue keeps the queue.
LEMMA OutputKeeps ==
    ASSUME TypeOK, TxInv, NEW p \in Pbufs, NEW n \in 1 .. MaxChain, Output(p, n)
    PROVE  TxInv'
<1> DEFINE q == InQueue
           l == Len(queued)
<1>1. /\ q + n <= NumTx /\ q < NumTx /\ cpu.pc # "chained"
      /\ txbd' \in [TxBds -> TxBdType]
      /\ \A j \in 0 .. NumTx - 1 :
             LET c == TxSlot(j)
             IN  /\ txbd'[c].owner <=> j = q \/ txbd[c].owner
                 /\ txbd'[c].sop <=> j = q \/ txbd[c].sop
                 /\ txbd'[c].eop <=> j = q + n - 1 \/ (j # q /\ txbd[c].eop)
                 /\ txbd'[c].eoq => txbd[c].eoq /\ j # q + n - 1
                 /\ c = txch.send_tail => txbd'[c].eoq = txbd[c].eoq
                 /\ txbd'[c].pbuf = IF q <= j /\ j < q + n THEN p ELSE txbd[c].pbuf
                 /\ txbd'[c].next = IF j = q + n - 1 THEN NULL
                                    ELSE IF c = txch.send_tail THEN TxSlot(q)
                                    ELSE txbd[c].next
      /\ txch' = [free_head |-> TxSlot(q + n), send_head |-> txch.send_head,
                  send_tail |-> IF txch.send_tail = NULL THEN TxSlot(q + n - 1)
                                ELSE txch.send_tail,
                  free_num |-> txch.free_num - n]
      /\ txch.send_tail = NULL => txdma' = WriteHDP(txdma, TxSlot(q)) /\ cpu' = cpu
      /\ txch.send_tail # NULL =>
             txdma' = txdma /\ cpu' = [cpu EXCEPT !.pc = "chained", !.ret = cpu.pc]
      /\ queued' = Append(queued, [pbuf |-> p, n |-> n])
  BY OutputShape DEF TxInv
<1>2. /\ NumTx \in Nat /\ NumTx >= 2 /\ TxBds = 1 .. NumTx /\ q \in Nat
      /\ txch.free_num \in Nat /\ q = NumTx - txch.free_num
      /\ queued \in Seq(Packets) /\ l \in Nat /\ n \in Nat /\ n >= 1 /\ NULL \notin TxBds
  BY TxTypes DEF InQueue
<1> HIDE DEF q, l
<1>3. /\ txch'.free_head = TxSlot(q + n) /\ txch'.send_head = txch.send_head
      /\ txch'.free_num = txch.free_num - n
      /\ txch'.send_tail = IF txch.send_tail = NULL THEN TxSlot(q + n - 1) ELSE txch.send_tail
  BY <1>1
<1>4. InQueue' = q + n /\ \A i : TxSlot(i)' = TxSlot(i)
  BY <1>2, <1>3 DEF InQueue, TxSlot
<1>5. /\ Len(queued') = l + 1 /\ \A k \in 1 .. l : queued'[k] = queued[k]
      /\ queued'[l + 1] = [pbuf |-> p, n |-> n]
      /\ \A k \in 0 .. l : Before'[k] = Before[k]
      /\ Before'[l + 1] = q + n
  <2> DEFINE e == [pbuf |-> p, n |-> n]
  <2>1. e \in Packets
    BY DEF Packets
  <2>2. queued' = Append(queued, e)
    BY <1>1
  <2>3. e.n = n
    OBVIOUS
  <2>4. Before[l] = q
    BY DEF TxInv, TxQueue, q, l
  <2> HIDE DEF e
  <2>5. /\ Len(queued') = l + 1 /\ \A k \in 1 .. l : queued'[k] = queued[k]
        /\ queued'[l + 1] = e
    BY <1>2, <2>1, <2>2, AppendProperties DEF l
  <2>6. /\ \A k \in 0 .. l : Before'[k] = Before[k]
        /\ Before'[l + 1] = Before[l] + n
    BY <1>2, <2>1, <2>2, <2>3, OffsetsAppend DEF Before, l
  <2> QED BY <2>4, <2>5, <2>6 DEF e
<1>6. /\ \A k \in 0 .. l - 1 : Before[k] \in 0 .. q - 1 /\ Before[k] \in 0 .. NumTx - 1
      /\ \A k \in 1 .. l : Before[k] - 1 \in 0 .. q - 1 /\ Before[k] - 1 \in 0 .. NumTx - 1
      /\ Before[l] = q /\ l \in 0 .. l
  BY <1>2, TxOffsets DEF TxInv, q, l
<1>7. \A j \in 0 .. NumTx : TxSlot(j) \in TxBds
  BY TxSlots
<1>8. \A b \in TxBds : \E j \in 0 .. NumTx - 1 : b = TxSlot(j)
  BY TxSlots
<1>9. q \in 0 .. NumTx - 1 /\ q + n - 1 \in 0 .. NumTx - 1 /\ q + n - 1 \in 0 .. NumTx
      /\ (q + n - 1) + 1 = q + n /\ q + n \in 0 .. NumTx
  <2>1. q + n <= NumTx /\ q < NumTx
    BY <1>1
  <2>2. NumTx \in Nat /\ q \in Nat /\ n \in Nat /\ n >= 1
    BY <1>2
  <2>3. q \in 0 .. NumTx - 1
    BY <2>1, <2>2
  <2>4. q + n - 1 \in 0 .. NumTx - 1 /\ q + n - 1 \in 0 .. NumTx
    BY <2>1, <2>2
  <2>5. (q + n - 1) + 1 = q + n /\ q + n \in 0 .. NumTx
    BY <2>1, <2>2
  <2> QED BY <2>3, <2>4, <2>5
<1> DEFINE last == TxSlot(q + n - 1)
<1>10. last \in TxBds /\ Rot(NumTx, last, 1) = TxSlot(q + n) /\ last # NULL
  BY <1>2, <1>7, <1>9, TxSlots
<1>11. ASSUME NEW b \in TxBds PROVE Rot(NumTx, b, 1) = txch'.free_head <=> b = last
  <2> HIDE DEF last
  <2> QED BY <1>2, <1>3, <1>10, RotBefore
<1>12. txch'.send_tail # NULL
  BY <1>3, <1>10
<1>13. \/ txch.send_tail = NULL /\ cpu'.pc # "chained"
       \/ txch.send_tail # NULL /\ cpu'.pc = "chained"
  <2>1. txch.send_tail = NULL => cpu'.pc # "chained"
    BY <1>1
  <2>2. txch.send_tail # NULL => cpu'.pc = "chained"
    BY <1>1 DEF TypeOK
  <2> QED BY <2>1, <2>2
<1>14. TxRing'
  <2>1. ASSUME NEW b \in TxBds
        PROVE  txbd'[b].next = IF b = last THEN NULL ELSE Rot(NumTx, b, 1)
    <3>1. PICK j \in 0 .. NumTx - 1 : b = TxSlot(j)
      BY <1>8
    <3>2. txbd'[b].next = IF j = q + n - 1 THEN NULL
                          ELSE IF b = txch.send_tail THEN TxSlot(q) ELSE txbd[b].next
      BY <1>1, <3>1
    <3>3. j = q + n - 1 <=> b = last
      BY <1>9, <3>1, TxSlots
    <3>4. CASE b = txch.send_tail
      <4>1. Rot(NumTx, b, 1) = TxSlot(q)
        BY <1>1, <1>2, <3>4, TxTail DEF TxInv, TxRing, q
      <4> QED BY <3>2, <3>3, <3>4, <4>1
    <3>5. CASE b # txch.send_tail
      <4>1. txbd[b].next = Rot(NumTx, b, 1)
        <5>1. CASE txch.send_tail = NULL
          BY <5>1 DEF TxInv, TxRing
        <5>2. CASE txch.send_tail # NULL
          <6>1. txch.send_tail \in TxBds /\ Rot(NumTx, txch.send_tail, 1) = txch.free_head
            BY <1>1, <5>2, TxTail DEF TxInv
          <6>2. Rot(NumTx, b, 1) # txch.free_head
            BY <1>2, <3>5, <6>1, RotBefore
          <6> QED BY <6>2 DEF TxInv, TxRing
        <5> QED BY <5>1, <5>2
      <4> QED BY <3>2, <3>3, <3>5, <4>1
    <3> QED BY <3>4, <3>5
  <2>2. \A b \in TxBds :
            txbd'[b].next = IF txch'.send_tail # NULL /\ Rot(NumTx, b, 1) = txch'.free_head
                            THEN NULL ELSE Rot(NumTx, b, 1)
    <3> HIDE DEF last
    <3> QED BY <1>11, <1>12, <2>1
  <2>3. cpu'.pc # "chained" => txch'.free_head = Rot(NumTx, txch'.send_tail, 1)
    BY <1>3, <1>10, <1>13
  <2>4. cpu'.pc = "chained" => /\ Len(queued') > 0
                               /\ Rot(NumTx, txch'.send_tail, 1) = TxSlot(q)
                               /\ Before'[Len(queued') - 1] = q
    <3>1. SUFFICES ASSUME cpu'.pc = "chained"
                   PROVE  /\ Len(queued') > 0
                          /\ Rot(NumTx, txch'.send_tail, 1) = TxSlot(q)
                          /\ Before'[Len(queued') - 1] = q
      OBVIOUS
    <3>2. Rot(NumTx, txch'.send_tail, 1) = TxSlot(q)
      BY <1>1, <1>3, <1>13, <3>1, TxTail DEF TxInv, TxRing, q
    <3>3. Len(queued') > 0 /\ Len(queued') - 1 = l
      BY <1>2, <1>5
    <3> QED BY <1>5, <1>6, <3>2, <3>3
  <2>5. txch'.free_head = TxSlot(InQueue')
    BY <1>3, <1>4
  <2>6. cpu'.pc = "chained" => Rot(NumTx, txch'.send_tail, 1) = TxSlot(Before'[Len(queued') - 1])
    BY <2>4
  <2> QED BY <1>4, <1>12, <2>2, <2>3, <2>4, <2>5, <2>6 DEF TxRing
<1>15. ASSUME NEW j \in 0 .. NumTx - 1
       PROVE  /\ txbd[TxSlot(j)].sop <=> \E k \in 1 .. l : j = Before[k - 1]
              /\ txbd[TxSlot(j)].eop <=> \E k \in 1 .. l : j = Before[k] - 1
  BY DEF TxInv, TxQueue, l
<1>16. ASSUME NEW j \in 0 .. NumTx - 1
       PROVE  /\ (\E k \in 1 .. l + 1 : j = Before'[k - 1]) <=>
                     j = q \/ \E k \in 1 .. l : j = Before[k - 1]
              /\ (\E k \in 1 .. l + 1 : j = Before'[k] - 1) <=>
                     j = q + n - 1 \/ \E k \in 1 .. l : j = Before[k] - 1
  <2>1. l + 1 \in 1 .. l + 1 /\ (l + 1) - 1 = l /\ Before'[l] = q
    BY <1>2, <1>5, <1>6
  <2>2. \A k \in 1 .. l + 1 : k \in 1 .. l \/ k = l + 1
    BY <1>2
  <2>3. \A k \in 1 .. l : /\ k \in 1 .. l + 1
                          /\ Before'[k - 1] = Before[k - 1] /\ Before'[k] = Before[k]
    <3>1. SUFFICES ASSUME NEW k \in 1 .. l
                   PROVE  k \in 1 .. l + 1 /\ k - 1 \in 0 .. l /\ k \in 0 .. l
      BY <1>5
    <3> QED BY <1>2
  <2>4. Before'[l + 1] - 1 = q + n - 1
    <3>1. Before'[l + 1] = q + n
      BY <1>5
    <3> QED BY <1>9, <3>1
  <2>5. (\E k \in 1 .. l + 1 : j = Before'[k - 1]) <=> j = q \/ \E k \in 1 .. l : j = Before[k - 1]
    BY <2>1, <2>2, <2>3
  <2>6. (\E k \in 1 .. l + 1 : j = Before'[k] - 1) <=>
            j = q + n - 1 \/ \E k \in 1 .. l : j = Before[k] - 1
    BY <2>1, <2>2, <2>3, <2>4
  <2> QED BY <2>5, <2>6
<1>17. TxQueue'
  <2>1. ASSUME NEW j \in 0 .. NumTx - 1
        PROVE  /\ txbd'[TxSlot(j)].sop <=> \E k \in 1 .. l + 1 : j = Before'[k - 1]
               /\ txbd'[TxSlot(j)].eop <=> \E k \in 1 .. l + 1 : j = Before'[k] - 1
    <3>1. /\ txbd'[TxSlot(j)].sop <=> j = q \/ txbd[TxSlot(j)].sop
          /\ txbd'[TxSlot(j)].eop <=> j = q + n - 1 \/ (j # q /\ txbd[TxSlot(j)].eop)
      BY <1>1
    <3>2. j = q => ~txbd[TxSlot(j)].eop
      <4>1. \A k \in 1 .. l : Before[k] - 1 # q
        BY <1>2, <1>6
      <4> QED BY <1>15, <4>1
    <3> QED BY <1>15, <1>16, <3>1, <3>2
  <2>2. ASSUME NEW k \in 1 .. l + 1
        PROVE  txbd'[TxSlot(Before'[k] - 1)].pbuf = queued'[k].pbuf
    <3>1. CASE k = l + 1
      <4>3. Before'[k] = q + n /\ queued'[k] = [pbuf |-> p, n |-> n]
        BY <1>5, <3>1
      <4>1. Before'[k] - 1 = q + n - 1 /\ queued'[k].pbuf = p
        BY <1>9, <4>3
      <4>2. q <= q + n - 1 /\ q + n - 1 < q + n
        BY <1>2
      <4> QED BY <1>1, <1>9, <4>1, <4>2
    <3>2. CASE k # l + 1
      <4>1. k \in 1 .. l /\ k \in 0 .. l
        BY <1>2, <3>2
      <4>2. Before'[k] = Before[k] /\ queued'[k] = queued[k]
        BY <1>5, <4>1
      <4>3. Before[k] - 1 \in 0 .. NumTx - 1 /\ ~(q <= Before[k] - 1)
        BY <1>2, <1>6, <4>1
      <4>4. txbd'[TxSlot(Before[k] - 1)].pbuf = txbd[TxSlot(Before[k] - 1)].pbuf
        BY <1>1, <4>3
      <4>5. txbd[TxSlot(Before[k] - 1)].pbuf = queued[k].pbuf
        BY <4>1 DEF TxInv, TxQueue, l
      <4> QED BY <4>2, <4>4, <4>5
    <3> QED BY <3>1, <3>2
  <2>3. Before'[l + 1] = InQueue'
    BY <1>4, <1>5
  <2> QED BY <1>4, <1>5, <2>1, <2>2, <2>3 DEF TxQueue
<1>18. PICK m \in 0 .. l : SentUpTo(m)
  BY DEF TxInv, TxSent, l
<1>19. m \in 0 .. l + 1 /\ m \in Nat /\ m <= l /\ (m = l => m = (l + 1) - 1)
  BY <1>2
<1>20. SentUpTo(m)'
  <2>1. ASSUME NEW k \in 1 .. l + 1
        PROVE  txbd'[TxSlot(Before'[k - 1])].owner <=> k > m
    <3>1. CASE k = l + 1
      <4>1. k - 1 = l /\ k > m
        BY <1>2, <1>19, <3>1
      <4>2. Before'[k - 1] = q
        BY <1>5, <1>6, <4>1
      <4> QED BY <1>1, <1>9, <4>1, <4>2
    <3>2. CASE k # l + 1
      <4>1. k \in 1 .. l /\ k - 1 \in 0 .. l /\ k - 1 \in 0 .. l - 1
        BY <1>2, <3>2
      <4>2. Before'[k - 1] = Before[k - 1] /\ Before[k - 1] # q
            /\ Before[k - 1] \in 0 .. NumTx - 1
        BY <1>2, <1>5, <1>6, <4>1
      <4>3. txbd'[TxSlot(Before[k - 1])].owner <=> txbd[TxSlot(Before[k - 1])].owner
        BY <1>1, <4>2
      <4>4. txbd[TxSlot(Before[k - 1])].owner <=> k > m
        BY <1>18, <4>1 DEF SentUpTo, l
      <4> QED BY <4>2, <4>3, <4>4
    <3> QED BY <3>1, <3>2
  <2>2. /\ txdma'.at # NULL => m < l + 1 /\ txdma'.at = TxSlot(Before'[m])
        /\ txdma'.latched => txdma'.at # NULL
        /\ txdma'.latched /\ txdma'.next # NULL =>
               m + 1 < l + 1 /\ txdma'.next = TxSlot(Before'[m + 1])
    <3>1. CASE txch.send_tail = NULL
      <4>1. txdma'.at = TxSlot(q) /\ txdma'.latched = FALSE
        BY <1>1, <3>1 DEF WriteHDP, TypeOK, DmaType
      <4>2. l = 0
        BY <1>2, <3>1, EmptySeq DEF TxInv, TxRing, l
      <4>3. m = 0 /\ m < l + 1 /\ Before'[m] = q
        BY <1>2, <1>5, <1>6, <1>19, <4>2
      <4> QED BY <4>1, <4>3
    <3>2. CASE txch.send_tail # NULL
      <4>1. txdma' = txdma
        BY <1>1, <3>2
      <4>2. Before'[m] = Before[m]
        BY <1>5
      <4>3. m < l => m + 1 \in 0 .. l
        BY <1>2, <1>19
      <4>4. m < l => Before'[m + 1] = Before[m + 1]
        BY <1>5, <4>3
      <4>5. /\ txdma.at # NULL => m < l /\ txdma.at = TxSlot(Before[m])
            /\ txdma.latched => txdma.at # NULL
            /\ txdma.latched /\ txdma.next # NULL =>
                   m + 1 < l /\ txdma.next = TxSlot(Before[m + 1])
        BY <1>18 DEF SentUpTo, l
      <4>6. m < l => m < l + 1
        BY <1>2, <1>19
      <4>7. m + 1 < l => m + 1 < l + 1 /\ m < l
        BY <1>2, <1>19
      <4> QED BY <4>1, <4>2, <4>4, <4>5, <4>6, <4>7
    <3> QED BY <3>1, <3>2
  <2>3. ASSUME NEW b \in TxBds, Rot(NumTx, b, 1) = txch'.free_head PROVE ~txbd'[b].eoq
    <3>1. b = TxSlot(q + n - 1)
      BY <1>11, <2>3
    <3> QED BY <1>1, <1>9, <3>1
  <2>4. cpu'.pc = "chained" /\ txbd'[txch'.send_tail].eoq => m = (l + 1) - 1 /\ txdma'.at = NULL
    <3>1. SUFFICES ASSUME cpu'.pc = "chained", txbd'[txch'.send_tail].eoq
                   PROVE  m = (l + 1) - 1 /\ txdma'.at = NULL
      OBVIOUS
    <3>2. txch.send_tail # NULL /\ txch'.send_tail = txch.send_tail /\ txdma' = txdma
      BY <1>1, <1>3, <1>13, <3>1
    <3>3. txch.send_tail \in TxBds /\ Rot(NumTx, txch.send_tail, 1) = txch.free_head
      BY <1>1, <3>2, TxTail DEF TxInv
    <3>4. PICK j \in 0 .. NumTx - 1 : txch.send_tail = TxSlot(j)
      BY <1>8, <3>3
    <3>5. txbd[txch.send_tail].eoq
      BY <1>1, <3>1, <3>2, <3>4
    <3>6. m = l /\ txdma.at = NULL
      BY <1>18, <3>2, <3>3, <3>5 DEF SentUpTo, l
    <3> QED BY <1>19, <3>2, <3>6
  <2> QED BY <1>4, <1>5, <2>1, <2>2, <2>3, <2>4 DEF SentUpTo
<1>21. TxSent'
  BY <1>5, <1>19, <1>20 DEF TxSent
<1> QED BY <1>14, <1>17, <1>21 DEF TxInv

\* Restarting the engine behind a chained packet keeps the queue, and starts it only halted.
LEMMA TransmitKickKeeps ==
    ASSUME TypeOK, TxInv, TransmitKick
    PROVE  /\ TxInv' /\ txch'.send_tail \in TxBds
           /\ txdma'.clobbered = txdma.clobbered
           /\ txdma'.at \in TxBds \cup {NULL}
<1> DEFINE l == Len(queued)
           s == txch.send_tail
<1>1. /\ cpu.pc = "chained" /\ UNCHANGED <<txbd, queued>>
      /\ txdma' = IF txbd[s].eoq THEN WriteHDP(txdma, txbd[s].next) ELSE txdma
      /\ txch' = [txch EXCEPT !.send_tail = PacketEnd(txbd, txbd[s].next)]
      /\ cpu' = [cpu EXCEPT !.pc = cpu.ret, !.ret = "stack"]
  BY DEF TransmitKick
<1>2. cpu'.pc # "chained" /\ cpu'.pc \in {"stack", "input"}
  BY <1>1 DEF TypeOK
<1>3. /\ NumTx \in Nat /\ NumTx >= 2 /\ TxBds = 1 .. NumTx /\ InQueue \in 0 .. NumTx
      /\ l \in Nat /\ NULL \notin TxBds /\ MaxChain \in Nat /\ MaxChain < NumTx
      /\ txdma.at \in TxBds \cup {NULL} /\ s \in TxBds \cup {NULL}
  BY TxTypes
<1>4. /\ s # NULL /\ s \in TxBds /\ l > 0 /\ Rot(NumTx, s, 1) = TxSlot(Before[l - 1])
      /\ txch.free_head = TxSlot(InQueue)
      /\ txbd[s].next = IF Rot(NumTx, s, 1) = txch.free_head THEN NULL ELSE Rot(NumTx, s, 1)
  BY <1>1, <1>3 DEF TxInv, TxRing
<1> HIDE DEF l, s
<1>5. l \in 1 .. l /\ l - 1 \in 0 .. l - 1 /\ l - 1 \in 0 .. l /\ l \in 0 .. l
  BY <1>3, <1>4
<1>6. /\ Before[l - 1] \in 0 .. NumTx - 1 /\ Before[l - 1] \in 0 .. InQueue - 1
      /\ Before[l] = Before[l - 1] + queued[l].n /\ queued[l].n \in 1 .. MaxChain
      /\ Before[l] = InQueue /\ Before[l] - 1 \in 0 .. NumTx - 1
  BY <1>5, TxOffsets DEF TxInv, l
<1>7. TxSlot(Before[l - 1]) # TxSlot(InQueue)
  <2>1. CASE InQueue < NumTx
    <3>1. InQueue \in 0 .. NumTx - 1 /\ Before[l - 1] # InQueue
      BY <1>3, <1>6, <2>1
    <3> QED BY <1>6, <3>1, TxSlots
  <2>2. CASE InQueue = NumTx
    <3>1. Before[l - 1] # 0 /\ 0 \in 0 .. NumTx - 1
      BY <1>3, <1>6, <2>2
    <3>2. TxSlot(InQueue) = TxSlot(0)
      BY <2>2, TxSlots
    <3> QED BY <1>6, <3>1, <3>2, TxSlots
  <2> QED BY <1>3, <2>1, <2>2
<1>8. txbd[s].next = TxSlot(Before[l - 1])
  BY <1>4, <1>7
<1>9. PacketEnd(txbd, TxSlot(Before[l - 1])) = TxSlot(InQueue - 1)
  BY <1>5, <1>6, PacketShape DEF TxInv, l
<1> DEFINE t == TxSlot(InQueue - 1)
<1>10. t \in TxBds /\ Rot(NumTx, t, 1) = txch.free_head /\ t # NULL
  <2>1. InQueue - 1 \in 0 .. NumTx - 1 /\ InQueue - 1 \in 0 .. NumTx
        /\ (InQueue - 1) + 1 = InQueue
    BY <1>3, <1>6
  <2>2. TxSlot((InQueue - 1) + 1) = Rot(NumTx, t, 1) /\ t \in TxBds
    BY <2>1, TxSlots
  <2> HIDE DEF t
  <2> QED BY <1>3, <1>4, <2>1, <2>2
<1> HIDE DEF t
<1>11. /\ txch'.free_head = txch.free_head /\ txch'.send_head = txch.send_head
       /\ txch'.free_num = txch.free_num /\ txch'.send_tail = t
  BY <1>1, <1>8, <1>9, TxTypes DEF t
<1>12. InQueue' = InQueue /\ Before' = Before /\ \A i : TxSlot(i)' = TxSlot(i)
  BY <1>1, <1>11 DEF InQueue, Before, TxSlot
<1>13. TxRing'
  BY <1>1, <1>2, <1>4, <1>10, <1>11, <1>12 DEF TxInv, TxRing, s
<1>14. TxQueue'
  BY <1>1, <1>12 DEF TxInv, TxQueue
<1>15. PICK m \in 0 .. l : SentUpTo(m)
  BY DEF TxInv, TxSent, l
<1>16. CASE txbd[s].eoq
  <2>1. m = l - 1 /\ txdma.at = NULL
    BY <1>1, <1>15, <1>16 DEF SentUpTo, l, s
  <2>2. txdma'.at = TxSlot(Before[l - 1]) /\ txdma'.latched = FALSE
    BY <1>1, <1>8, <1>16 DEF WriteHDP, TypeOK, DmaType
  <2>3. m < l /\ m # l
    BY <1>3, <2>1
  <2>4. \A b \in TxBds : Rot(NumTx, b, 1) = txch.free_head => ~txbd[b].eoq
    BY <1>4, <1>15, <2>3 DEF SentUpTo, l, s
  <2>5. \A k \in 1 .. l : txbd[TxSlot(Before[k - 1])].owner <=> k > m
    BY <1>15 DEF SentUpTo, l
  <2>6. SentUpTo(m)'
    BY <1>1, <1>2, <1>11, <1>12, <2>1, <2>2, <2>3, <2>4, <2>5 DEF SentUpTo, l
  <2>7. TxSent'
    BY <1>1, <1>15, <2>6 DEF TxSent, l
  <2>8. TxSlot(Before[l - 1]) \in TxBds
    <3>1. Before[l - 1] \in 0 .. NumTx
      BY <1>3, <1>6
    <3> QED BY <3>1, TxSlots
  <2>9. txdma'.clobbered = txdma.clobbered
    BY <1>1, <1>16, <2>1 DEF WriteHDP, TypeOK, DmaType
  <2> QED BY <1>10, <1>11, <1>13, <1>14, <2>2, <2>7, <2>8, <2>9 DEF TxInv
<1>17. CASE ~txbd[s].eoq
  <2>1. txdma' = txdma
    BY <1>1, <1>17
  <2>2. SentUpTo(m)'
    BY <1>1, <1>2, <1>4, <1>11, <1>12, <1>15, <2>1 DEF SentUpTo, s
  <2>3. TxSent'
    BY <1>1, <1>15, <2>2 DEF TxSent, l
  <2> QED BY <1>3, <1>10, <1>11, <1>13, <1>14, <2>1, <2>3 DEF TxInv
<1> QED BY <1>16, <1>17

\* What the handler sees at send_head.
LEMMA TxOldest ==
    ASSUME TypeOK, TxInv, txbd[txch.send_head].sop, NEW m \in 0 .. Len(queued), SentUpTo(m)
    PROVE  /\ queued # << >> /\ Len(queued) \in Nat /\ Len(queued) >= 1
           /\ 1 \in 1 .. Len(queued) /\ 0 \in 0 .. Len(queued) - 1
           /\ Before[0] = 0 /\ TxSlot(0) = txch.send_head /\ TxSlot(0) \in TxBds
           /\ txbd[txch.send_head].owner <=> m = 0
<1>1. NumTx \in Nat /\ NumTx >= 2 /\ Len(queued) \in Nat
  BY TxTypes
<1>2. 0 \in 0 .. NumTx - 1 /\ 0 \in 0 .. NumTx
  BY <1>1
<1>3. TxSlot(0) = txch.send_head /\ TxSlot(0) \in TxBds
  BY <1>2, TxSlots
<1>4. PICK k \in 1 .. Len(queued) : 0 = Before[k - 1]
  BY <1>2, <1>3 DEF TxInv, TxQueue
<1>5. Len(queued) >= 1 /\ 1 \in 1 .. Len(queued) /\ 0 \in 0 .. Len(queued) - 1
  BY <1>1, <1>4
<1>6. queued # << >>
  BY <1>5
<1>7. Before[0] = 0
  BY TxOffsets DEF TxInv
<1>8. txbd[TxSlot(Before[1 - 1])].owner <=> 1 > m
  BY <1>5 DEF SentUpTo
<1>9. txbd[txch.send_head].owner <=> m = 0
  <2>1. 1 > m <=> m = 0
    OBVIOUS
  <2> QED BY <1>3, <1>7, <1>8, <2>1
<1> QED BY <1>1, <1>3, <1>5, <1>6, <1>7, <1>9

\* The handler gives up on a packet the engine has halted in front of.
GivingUp ==
    cpu.pc = "giveup" =>
        txdma.at = NULL /\ txbd[txch.send_head].sop /\ txbd[txch.send_head].owner

\* The transmit handler restarting a stopped engine keeps the queue, and starts it only halted.
LEMMA TxGiveUpKeeps ==
    ASSUME TypeOK, TxInv, GivingUp, TxGiveUp
    PROVE  TxInv' /\ txdma'.clobbered = txdma.clobbered
<1>1. /\ cpu.pc = "giveup" /\ cpu'.pc = "stack" /\ UNCHANGED <<txbd, txch, queued>>
      /\ txbd[txch.send_head].sop /\ txbd[txch.send_head].owner /\ txdma.at = NULL
      /\ txdma'.at = txch.send_head /\ txdma'.latched = FALSE
      /\ txdma'.clobbered = txdma.clobbered
  BY DEF TxGiveUp, GivingUp, WriteHDP, TypeOK, DmaType
<1>2. InQueue' = InQueue /\ Before' = Before /\ \A i : TxSlot(i)' = TxSlot(i)
  BY <1>1 DEF InQueue, Before, TxSlot
<1>3. PICK m \in 0 .. Len(queued) : SentUpTo(m)
  BY DEF TxInv, TxSent
<1>4. /\ queued # << >> /\ Len(queued) \in Nat /\ Len(queued) >= 1 /\ m = 0
      /\ Before[0] = 0 /\ TxSlot(0) = txch.send_head
  BY <1>1, <1>3, TxOldest
<1>5. txch.send_tail # NULL
  BY <1>4 DEF TxInv, TxRing
<1>6. TxRing'
  BY <1>1, <1>2, <1>5 DEF TxInv, TxRing
<1>7. TxQueue'
  BY <1>1, <1>2 DEF TxInv, TxQueue
<1>8. m < Len(queued) /\ m # Len(queued)
  BY <1>4
<1>9. \A b \in TxBds : Rot(NumTx, b, 1) = txch.free_head => ~txbd[b].eoq
  BY <1>3, <1>5, <1>8 DEF SentUpTo
<1>10. \A k \in 1 .. Len(queued) : txbd[TxSlot(Before[k - 1])].owner <=> k > m
  BY <1>3 DEF SentUpTo
<1>11. txdma'.at = TxSlot(Before[m])
  BY <1>1, <1>4
<1>12. SentUpTo(m)'
  BY <1>1, <1>2, <1>8, <1>9, <1>10, <1>11 DEF SentUpTo
<1>13. TxSent'
  BY <1>1, <1>3, <1>12 DEF TxSent
<1> QED BY <1>1, <1>6, <1>7, <1>13 DEF TxInv

\* A place seen from u places on.
LEMMA RotShift ==
    ASSUME NEW n \in Nat, NEW b \in 1 .. n, NEW u \in 0 .. n - 1, NEW i \in 0 .. n - 1
    PROVE  Rot(n, Rot(n, b, u), i) = Rot(n, b, IF i + u < n THEN i + u ELSE i + u - n)
BY DEF Rot

\* Taking back the oldest packet keeps the queue.
LEMMA TxReclaimKeeps ==
    ASSUME TypeOK, TxInv, TxReclaim
    PROVE  /\ TxInv' /\ queued # << >> /\ ref' = [ref EXCEPT ![queued[1].pbuf] = @ - 1]
           /\ txbd' \in [TxBds -> TxBdType]
           /\ txch'.send_head \in TxBds /\ txch'.free_num \in 0 .. NumTx
           /\ PacketEnd(txbd, txch.send_head) \in TxBds
<1> DEFINE l == Len(queued)
           b == txch.send_head
           e == PacketEnd(txbd, b)
           u == PacketLength(txbd, b)
           link == IF txbd[e].next = NULL THEN txch.free_head ELSE txbd[e].next
<1>1. /\ cpu.pc = "tx" /\ cpu' = cpu /\ txbd[b].sop /\ ~txbd[b].owner
      /\ txbd' = [[txbd EXCEPT ![b].sop = FALSE] EXCEPT ![e].eop = FALSE]
      /\ txch' = [txch EXCEPT !.free_num = @ + u, !.send_head = link]
      /\ txdma' = WriteCP(txdma, e)
      /\ ref' = [ref EXCEPT ![txbd[e].pbuf] = @ - 1]
      /\ queued' = Tail(queued)
  BY DEF TxReclaim
<1>2. PICK m \in 0 .. l : SentUpTo(m)
  BY DEF TxInv, TxSent
<1>3. /\ queued # << >> /\ l \in Nat /\ l >= 1 /\ 1 \in 1 .. l /\ 0 \in 0 .. l - 1
      /\ Before[0] = 0 /\ TxSlot(0) = b /\ b \in TxBds /\ m # 0
  BY <1>1, <1>2, TxOldest
<1>4. /\ NumTx \in Nat /\ NumTx >= 2 /\ TxBds = 1 .. NumTx /\ InQueue \in Nat
      /\ InQueue <= NumTx /\ MaxChain \in Nat /\ MaxChain < NumTx /\ NULL \notin TxBds
      /\ txch.free_num \in Nat /\ InQueue = NumTx - txch.free_num
      /\ queued \in Seq(Packets) /\ txbd \in [TxBds -> TxBdType]
  BY TxTypes DEF InQueue
<1>5. /\ u = queued[1].n /\ e = TxSlot(Before[1] - 1) /\ txch.send_tail # NULL
      /\ txbd[e].next = IF 1 = l THEN NULL ELSE TxSlot(Before[1])
  <2>1. /\ PacketLength(txbd, TxSlot(Before[1 - 1])) = queued[1].n
        /\ PacketEnd(txbd, TxSlot(Before[1 - 1])) = TxSlot(Before[1] - 1)
        /\ txch.send_tail # NULL
        /\ txbd[TxSlot(Before[1] - 1)].next = IF 1 = l THEN NULL ELSE TxSlot(Before[1])
    <3> HIDE DEF l
    <3> QED BY <1>3, PacketShape DEF TxInv, l
  <2>2. TxSlot(Before[1 - 1]) = b
    BY <1>3
  <2> QED BY <2>1, <2>2
<1> HIDE DEF l, e, u
<1>6. /\ Before[1] = u /\ u \in 1 .. MaxChain /\ u \in Nat /\ u >= 1 /\ u < NumTx
      /\ u - 1 \in 0 .. NumTx - 1 /\ u - 1 \in 0 .. NumTx /\ u \in 0 .. NumTx - 1
      /\ u \in 0 .. NumTx
  <2>1. Before[1] = Before[1 - 1] + queued[1].n /\ queued[1].n \in 1 .. MaxChain
    BY <1>3, TxOffsets DEF TxInv, l
  <2>2. Before[1] = u /\ u \in 1 .. MaxChain
    BY <1>3, <1>5, <2>1
  <2> QED BY <1>4, <2>2
<1>7. Before[l] = InQueue /\ u <= InQueue
  <2>1. Before[l] = InQueue
    BY TxOffsets DEF TxInv, l
  <2>2. 1 < l => Before[1] < Before[l]
    <3>1. 1 \in 0 .. l /\ l \in 0 .. l
      BY <1>3
    <3> QED BY <3>1, TxOffsets DEF TxInv, l
  <2>3. l = 1 \/ 1 < l
    BY <1>3
  <2> QED BY <1>4, <1>6, <2>1, <2>2, <2>3
<1>8. e = TxSlot(u - 1) /\ e \in TxBds
  <2>1. e = TxSlot(u - 1)
    BY <1>5, <1>6
  <2> QED BY <1>6, <2>1, TxSlots
<1>9. link = TxSlot(u)
  <2>1. CASE l = 1
    <3>1. TxSlot(u) = TxSlot(InQueue) /\ txch.free_head = TxSlot(InQueue)
      BY <1>6, <1>7, <2>1 DEF TxInv, TxRing
    <3> QED BY <1>5, <2>1, <3>1
  <2>2. CASE l # 1
    <3>1. TxSlot(u) \in TxBds
      BY <1>6, TxSlots
    <3> QED BY <1>4, <1>5, <1>6, <2>2, <3>1
  <2> QED BY <2>1, <2>2
<1> HIDE DEF link, b
<1>10. /\ txch'.send_head = TxSlot(u) /\ txch'.free_head = txch.free_head
       /\ txch'.send_tail = txch.send_tail /\ txch'.free_num = txch.free_num + u
  BY <1>1, <1>9, TxTypes
<1>11. /\ InQueue' = InQueue - u /\ InQueue - u \in Nat
       /\ txch'.send_head \in TxBds /\ txch'.free_num \in 0 .. NumTx
  <2>1. InQueue' = InQueue - u
    BY <1>4, <1>6, <1>10 DEF InQueue
  <2>2. InQueue - u \in Nat /\ txch'.free_num \in 0 .. NumTx
    BY <1>4, <1>6, <1>7, <1>10
  <2>3. TxSlot(u) \in TxBds
    BY <1>6, TxSlots
  <2> QED BY <1>10, <2>1, <2>2, <2>3
<1> DEFINE Slot(i) == Rot(NumTx, txch'.send_head, i)
<1>12. \A i : TxSlot(i)' = Slot(i)
  BY DEF TxSlot
<1>13. ASSUME NEW i \in 0 .. NumTx, i + u <= NumTx PROVE Slot(i) = TxSlot(i + u)
  <2>1. Rot(NumTx, Rot(NumTx, txch.send_head, u), i) = Rot(NumTx, txch.send_head, u + i)
    <3>1. u + i <= NumTx
      BY <1>6, <1>13
    <3> QED BY <1>3, <1>4, <1>6, <3>1, RotAdd DEF b
  <2>2. u + i = i + u
    BY <1>6
  <2> QED BY <1>10, <2>1, <2>2 DEF TxSlot
<1> DEFINE Old(i) == IF i + u < NumTx THEN i + u ELSE i + u - NumTx
<1>14. ASSUME NEW i \in 0 .. NumTx - 1
       PROVE  /\ Slot(i) = TxSlot(Old(i)) /\ Old(i) \in 0 .. NumTx - 1 /\ Slot(i) \in TxBds
              /\ Old(i) < u => i + u >= NumTx
              /\ Old(i) >= u => Old(i) = i + u
  <2>1. Slot(i) = TxSlot(Old(i))
    BY <1>3, <1>4, <1>6, <1>10, RotShift DEF TxSlot, b
  <2>2. Old(i) \in 0 .. NumTx - 1 /\ Old(i) \in 0 .. NumTx
    BY <1>4, <1>6
  <2>3. TxSlot(Old(i)) \in TxBds
    <3> HIDE DEF Old
    <3> QED BY <2>2, TxSlots
  <2>4. Old(i) < u => i + u >= NumTx
    BY <1>4, <1>6
  <2>5. Old(i) >= u => Old(i) = i + u
    BY <1>4, <1>6
  <2> HIDE DEF Old
  <2> QED BY <2>1, <2>2, <2>3, <2>4, <2>5
<1> HIDE DEF Slot, Old
<1>15. /\ Len(queued') = l - 1 /\ queued' \in Seq(Packets)
       /\ \A k \in 1 .. l - 1 : queued'[k] = queued[k + 1]
       /\ \A k \in 0 .. l - 1 : Before'[k] = Before[k + 1] - u
  <2>1. /\ Len(queued') = l - 1 /\ queued' \in Seq(Packets)
        /\ \A k \in 1 .. l - 1 : queued'[k] = queued[k + 1]
    BY <1>1, <1>3, <1>4, HeadTailProperties, EmptySeq DEF l
  <2>2. \A k \in 0 .. l - 1 : Before'[k] = Before[k + 1] - queued[1].n
    BY <1>1, <1>3, <1>4, OffsetsTail DEF Before, l
  <2> QED BY <1>5, <2>1, <2>2 DEF u
<1>16. /\ \A k \in 0 .. l : Before[k] \in Nat
       /\ \A j, k \in 0 .. l : j < k => Before[j] < Before[k]
       /\ \A k \in 0 .. l - 1 : Before[k] \in 0 .. NumTx - 1
       /\ \A k \in 1 .. l : Before[k] - 1 \in 0 .. NumTx - 1
  BY TxOffsets DEF TxInv, l
<1>17. ASSUME NEW k \in 1 .. l, k # 1 PROVE Before[k] > u /\ Before[k] \in Nat
  <2>1. 1 \in 0 .. l /\ k \in 0 .. l /\ 1 < k
    BY <1>3, <1>17
  <2> QED BY <1>6, <1>16, <2>1
<1> DEFINE g == [txbd EXCEPT ![b].sop = FALSE]
<1>28. /\ g \in [TxBds -> TxBdType]
       /\ \A d \in TxBds :
              /\ g[d].next = txbd[d].next /\ g[d].owner = txbd[d].owner
              /\ g[d].eoq = txbd[d].eoq /\ g[d].pbuf = txbd[d].pbuf
              /\ g[d].sop <=> d # b /\ txbd[d].sop
              /\ g[d].eop = txbd[d].eop
  <2>1. b \in TxBds /\ txbd \in [TxBds -> TxBdType]
    BY <1>3, <1>4
  <2> QED BY <2>1 DEF TxBdType
<1>29. txbd' = [g EXCEPT ![e].eop = FALSE]
  BY <1>1
<1> HIDE DEF g
<1>30. /\ txbd' \in [TxBds -> TxBdType]
       /\ \A d \in TxBds :
              /\ txbd'[d].next = g[d].next /\ txbd'[d].owner = g[d].owner
              /\ txbd'[d].eoq = g[d].eoq /\ txbd'[d].pbuf = g[d].pbuf
              /\ txbd'[d].eop <=> d # e /\ g[d].eop
              /\ txbd'[d].sop = g[d].sop
  <2>1. e \in TxBds /\ g \in [TxBds -> TxBdType]
    BY <1>8, <1>28
  <2> QED BY <1>29, <2>1 DEF TxBdType
<1>18. ASSUME NEW d \in TxBds
       PROVE  /\ txbd'[d].next = txbd[d].next /\ txbd'[d].owner = txbd[d].owner
              /\ txbd'[d].eoq = txbd[d].eoq /\ txbd'[d].pbuf = txbd[d].pbuf
              /\ txbd'[d].sop <=> d # b /\ txbd[d].sop
              /\ txbd'[d].eop <=> d # e /\ txbd[d].eop
  BY <1>28, <1>30
<1>31. NumTx \in Nat /\ NumTx >= 2 /\ u \in Nat /\ u >= 1 /\ u < NumTx
  BY <1>4, <1>6
<1>20. TxRing'
  <2>1. txch'.free_head = Slot(InQueue - u)
    <3>1. InQueue - u \in 0 .. NumTx /\ (InQueue - u) + u = InQueue
      BY <1>4, <1>6, <1>7
    <3>2. Slot(InQueue - u) = TxSlot((InQueue - u) + u)
      BY <1>4, <3>1, <1>13
    <3> QED BY <1>10, <3>1, <3>2 DEF TxInv, TxRing
  <2>2. \A d \in TxBds :
            txbd'[d].next = IF txch'.send_tail # NULL /\ Rot(NumTx, d, 1) = txch'.free_head
                            THEN NULL ELSE Rot(NumTx, d, 1)
    BY <1>10, <1>18 DEF TxInv, TxRing
  <2>3. cpu'.pc # "chained"
    BY <1>1
  <2>4. txch'.send_tail # NULL /\ txch'.free_head = Rot(NumTx, txch'.send_tail, 1)
    BY <1>1, <1>5, <1>10 DEF TxInv, TxRing
  <2> QED BY <1>11, <1>12, <2>1, <2>2, <2>3, <2>4 DEF TxRing
<1>21. ASSUME NEW k \in 1 .. l - 1
       PROVE  /\ k \in 0 .. l - 1 /\ k - 1 \in 0 .. l - 1 /\ k + 1 \in 1 .. l /\ k + 1 # 1
              /\ k \in 1 .. l /\ (k - 1) + 1 = k /\ (k + 1) - 1 = k
              /\ Before'[k] = Before[k + 1] - u /\ Before'[k - 1] = Before[k] - u
              /\ Before[k] \in 0 .. NumTx - 1 /\ Before[k] >= u /\ Before[k + 1] > u
              /\ Before[k + 1] - 1 \in 0 .. NumTx - 1
  <2>1. /\ k \in 0 .. l - 1 /\ k - 1 \in 0 .. l - 1 /\ k + 1 \in 1 .. l /\ k + 1 # 1
        /\ k \in 1 .. l /\ (k - 1) + 1 = k /\ (k + 1) - 1 = k
    BY <1>3
  <2>2. Before'[k] = Before[k + 1] - u /\ Before'[k - 1] = Before[(k - 1) + 1] - u
    BY <1>15, <2>1
  <2>3. Before[k] \in 0 .. NumTx - 1 /\ Before[k + 1] - 1 \in 0 .. NumTx - 1
    BY <1>16, <2>1
  <2>4. Before[k + 1] > u
    BY <1>17, <2>1
  <2>5. Before[k] >= u
    <3>1. CASE k = 1
      BY <1>6, <3>1
    <3>2. CASE k # 1
      BY <1>6, <1>17, <2>1, <3>2
    <3> QED BY <3>1, <3>2
  <2> QED BY <2>1, <2>2, <2>3, <2>4, <2>5
<1>22. TxQueue'
  <2>1. ASSUME NEW i \in 0 .. NumTx - 1
        PROVE  txbd'[Slot(i)].sop <=> \E k \in 1 .. l - 1 : i = Before'[k - 1]
    <3> DEFINE j == Old(i)
    <3>1. /\ Slot(i) = TxSlot(j) /\ j \in 0 .. NumTx - 1 /\ Slot(i) \in TxBds
          /\ j < u => i + u >= NumTx
          /\ j >= u => j = i + u
      BY <1>14
    <3> HIDE DEF j
    <3>2. TxSlot(j) = b <=> j = 0
      <4>1. 0 \in 0 .. NumTx - 1
        BY <1>4
      <4> QED BY <1>3, <3>1, <4>1, TxSlots
    <3>3. txbd'[Slot(i)].sop <=> j # 0 /\ \E k \in 1 .. l : j = Before[k - 1]
      BY <1>18, <3>1, <3>2 DEF TxInv, TxQueue, l
    <3>4. ASSUME NEW k \in 1 .. l - 1, i = Before'[k - 1]
          PROVE  j # 0 /\ \E h \in 1 .. l : j = Before[h - 1]
      <4>1. i + u = Before[k] /\ Before[k] < NumTx /\ Before[k] >= u
        BY <1>4, <1>6, <1>21, <3>4
      <4>2. j = Before[k] /\ j # 0
        BY <1>4, <1>6, <3>1, <4>1
      <4>3. k + 1 \in 1 .. l /\ (k + 1) - 1 = k
        BY <1>21
      <4> QED BY <4>2, <4>3
    <3>5. ASSUME j # 0, NEW h \in 1 .. l, j = Before[h - 1]
          PROVE  \E k \in 1 .. l - 1 : i = Before'[k - 1]
      <4>1. h # 1
        BY <1>3, <3>5
      <4> DEFINE k == h - 1
      <4>2. k \in 1 .. l - 1
        BY <1>3, <4>1
      <4>3. j = Before[k]
        BY <3>5
      <4> HIDE DEF k
      <4>4. i = Before'[k - 1]
        BY <1>6, <1>21, <3>1, <4>2, <4>3
      <4> QED BY <4>2, <4>4
    <3> QED BY <3>3, <3>4, <3>5
  <2>2. ASSUME NEW i \in 0 .. NumTx - 1
        PROVE  txbd'[Slot(i)].eop <=> \E k \in 1 .. l - 1 : i = Before'[k] - 1
    <3> DEFINE j == Old(i)
    <3>1. /\ Slot(i) = TxSlot(j) /\ j \in 0 .. NumTx - 1 /\ Slot(i) \in TxBds
          /\ j < u => i + u >= NumTx
          /\ j >= u => j = i + u
      BY <1>14
    <3> HIDE DEF j
    <3>2. TxSlot(j) = e <=> j = u - 1
      BY <1>6, <1>8, <3>1, TxSlots
    <3>3. txbd'[Slot(i)].eop <=> j # u - 1 /\ \E k \in 1 .. l : j = Before[k] - 1
      BY <1>18, <3>1, <3>2 DEF TxInv, TxQueue, l
    <3>4. ASSUME NEW k \in 1 .. l - 1, i = Before'[k] - 1
          PROVE  j # u - 1 /\ \E h \in 1 .. l : j = Before[h] - 1
      <4>1. Before[k + 1] \in Nat
        BY <1>17, <1>21
      <4>2. i + u = Before[k + 1] - 1 /\ i + u < NumTx /\ i + u >= u
        <5>1. Before'[k] = Before[k + 1] - u /\ Before[k + 1] > u
              /\ Before[k + 1] - 1 \in 0 .. NumTx - 1
          BY <1>21
        <5> QED BY <1>31, <3>4, <4>1, <5>1
      <4>3. j = i + u /\ j # u - 1
        BY <1>4, <1>6, <3>1, <4>2
      <4>4. k + 1 \in 1 .. l
        BY <1>21
      <4> QED BY <4>2, <4>3, <4>4
    <3>5. ASSUME j # u - 1, NEW h \in 1 .. l, j = Before[h] - 1
          PROVE  \E k \in 1 .. l - 1 : i = Before'[k] - 1
      <4>1. h # 1
        BY <1>6, <3>5
      <4> DEFINE k == h - 1
      <4>2. k \in 1 .. l - 1 /\ k + 1 = h
        BY <1>3, <4>1
      <4>3. Before[h] > u /\ Before[h] \in Nat
        BY <1>17, <4>1
      <4>4. j >= u /\ j = i + u
        BY <1>6, <3>1, <3>5, <4>3
      <4> HIDE DEF k
      <4>5. Before'[k] = Before[h] - u
        BY <1>21, <4>2
      <4>6. i = Before'[k] - 1
        BY <1>6, <3>5, <4>3, <4>4, <4>5
      <4> QED BY <4>2, <4>6
    <3> QED BY <3>3, <3>4, <3>5
  <2>3. ASSUME NEW k \in 1 .. l - 1
        PROVE  txbd'[Slot(Before'[k] - 1)].pbuf = queued'[k].pbuf
    <3>1. /\ k + 1 \in 1 .. l /\ Before'[k] = Before[k + 1] - u /\ Before[k + 1] > u
          /\ Before[k + 1] - 1 \in 0 .. NumTx - 1 /\ Before[k + 1] \in Nat
      BY <1>17, <1>21
    <3>2. /\ Before'[k] - 1 \in 0 .. NumTx /\ (Before'[k] - 1) + u = Before[k + 1] - 1
          /\ (Before'[k] - 1) + u <= NumTx
      <4> DEFINE c == Before[k + 1]
      <4>1. Before'[k] = c - u /\ c > u /\ c - 1 \in 0 .. NumTx - 1 /\ c \in Nat
        BY <3>1
      <4> HIDE DEF c
      <4>2. /\ Before'[k] - 1 \in 0 .. NumTx /\ (Before'[k] - 1) + u = c - 1
            /\ (Before'[k] - 1) + u <= NumTx
        BY <1>31, <4>1
      <4> QED BY <4>2 DEF c
    <3>3. Slot(Before'[k] - 1) = TxSlot(Before[k + 1] - 1)
      BY <1>13, <3>2
    <3>4. TxSlot(Before[k + 1] - 1) \in TxBds
      <4>1. Before[k + 1] - 1 \in 0 .. NumTx
        BY <1>4, <3>1
      <4> QED BY <4>1, TxSlots
    <3>5. txbd[TxSlot(Before[k + 1] - 1)].pbuf = queued[k + 1].pbuf
      BY <3>1 DEF TxInv, TxQueue, l
    <3> QED BY <1>15, <1>18, <3>3, <3>4, <3>5
  <2>4. Before'[l - 1] = InQueue'
    <3> DEFINE k == l - 1
    <3>1. k \in 0 .. l - 1 /\ k + 1 = l
      BY <1>3
    <3> HIDE DEF k, l
    <3>2. Before'[k] = Before[k + 1] - u
      BY <1>15, <3>1
    <3> QED BY <1>7, <1>11, <3>1, <3>2 DEF k
  <2> QED BY <1>12, <1>15, <2>1, <2>2, <2>3, <2>4 DEF TxQueue
<1>23. /\ m - 1 \in 0 .. l - 1 /\ m \in 1 .. l /\ m \in Nat
       /\ (m < l => m \in 1 .. l - 1 /\ m - 1 < l - 1)
       /\ (m = l => m - 1 = l - 1)
       /\ (m + 1 < l => m + 1 \in 1 .. l - 1 /\ (m - 1) + 1 < l - 1)
       /\ (m - 1) + 1 = m /\ (m + 1) - 1 = m
  BY <1>3
<1>24. ASSUME NEW k \in 1 .. l - 1 PROVE Slot(Before'[k - 1]) = TxSlot(Before[k])
  <2>1. Before'[k - 1] = Before[k] - u /\ Before[k] \in 0 .. NumTx - 1 /\ Before[k] >= u
    BY <1>21
  <2>2. Before'[k - 1] \in 0 .. NumTx /\ Before'[k - 1] + u = Before[k]
        /\ Before'[k - 1] + u <= NumTx
    BY <1>4, <1>6, <2>1
  <2> QED BY <1>13, <2>2
<1>25. SentUpTo(m - 1)'
  <2>1. /\ txdma'.at = txdma.at /\ txdma'.next = txdma.next /\ txdma'.latched = txdma.latched
    BY <1>1 DEF WriteCP, TypeOK, DmaType
  <2>2. ASSUME NEW k \in 1 .. l - 1
        PROVE  txbd'[Slot(Before'[k - 1])].owner <=> k > m - 1
    <3>1. /\ k + 1 \in 1 .. l /\ (k + 1) - 1 = k /\ Before[k] \in 0 .. NumTx - 1
          /\ (k + 1 > m <=> k > m - 1)
      BY <1>21, <1>23
    <3>2. TxSlot(Before[k]) \in TxBds
      <4>1. Before[k] \in 0 .. NumTx
        BY <1>4, <3>1
      <4> QED BY <4>1, TxSlots
    <3>3. txbd[TxSlot(Before[k])].owner <=> k + 1 > m
      BY <1>2, <3>1 DEF SentUpTo, l
    <3> QED BY <1>18, <1>24, <3>1, <3>2, <3>3
  <2>3. txdma'.at # NULL => m - 1 < l - 1 /\ txdma'.at = Slot(Before'[m - 1])
    BY <1>2, <1>23, <1>24, <2>1 DEF SentUpTo, l
  <2>4. txdma'.latched => txdma'.at # NULL
    BY <1>2, <2>1 DEF SentUpTo
  <2>5. txdma'.latched /\ txdma'.next # NULL =>
            (m - 1) + 1 < l - 1 /\ txdma'.next = Slot(Before'[(m - 1) + 1])
    <3>1. SUFFICES ASSUME txdma'.latched, txdma'.next # NULL
                   PROVE  (m - 1) + 1 < l - 1 /\ txdma'.next = Slot(Before'[(m - 1) + 1])
      OBVIOUS
    <3>2. m + 1 < l /\ txdma'.next = TxSlot(Before[m + 1])
      BY <1>2, <2>1, <3>1 DEF SentUpTo, l
    <3>3. Slot(Before'[(m + 1) - 1]) = TxSlot(Before[m + 1])
      BY <1>23, <1>24, <3>2
    <3> QED BY <1>23, <3>2, <3>3
  <2>6. \A d \in TxBds : Rot(NumTx, d, 1) = txch'.free_head /\ txbd'[d].eoq =>
            m - 1 = l - 1 /\ txdma'.at = NULL
    BY <1>2, <1>5, <1>10, <1>18, <1>23, <2>1 DEF SentUpTo, l
  <2>7. cpu'.pc # "chained"
    BY <1>1
  <2> QED BY <1>12, <1>15, <2>2, <2>3, <2>4, <2>5, <2>6, <2>7 DEF SentUpTo
<1>26. TxSent'
  BY <1>15, <1>23, <1>25 DEF TxSent
<1>27. ref' = [ref EXCEPT ![queued[1].pbuf] = @ - 1]
  <2>1. txbd[TxSlot(Before[1] - 1)].pbuf = queued[1].pbuf
    BY <1>3 DEF TxInv, TxQueue, l
  <2> QED BY <1>1, <1>5, <2>1
<1> QED BY <1>3, <1>8, <1>11, <1>20, <1>22, <1>26, <1>27, <1>30 DEF TxInv, e, b

-----------------------------------------------------------------------------
(* The types, and the invariant.                                           *)

CpuType ==
    [pc : {"stack", "rx", "input", "rx_eoi", "tx", "giveup", "alloc", "linked",
           "posted", "chained"},
     ret : {"stack", "input"}, tail : RxBds \cup {NULL}, head : RxBds \cup {NULL}]

Inv == TypeOK /\ CpuOK /\ RxInv /\ RefInv /\ TxInv

\* What the engine's registers hold after each of the writes.
LEMMA DmaTypes ==
    ASSUME NEW B, NEW dma \in DmaType(B), NEW b \in B \cup {NULL}, NEW e \in B
    PROVE  /\ WriteHDP(dma, b) \in DmaType(B) /\ Complete(dma, e, b) \in DmaType(B)
           /\ WriteCP(dma, e) \in DmaType(B) /\ WriteEOI(dma) \in DmaType(B)
           /\ [dma EXCEPT !.pulse = FALSE] \in DmaType(B)
           /\ [dma EXCEPT !.latched = TRUE, !.next = b] \in DmaType(B)
           /\ WriteCP(dma, e).at = dma.at /\ WriteEOI(dma).at = dma.at
           /\ WriteCP(dma, e).clobbered = dma.clobbered
           /\ WriteEOI(dma).clobbered = dma.clobbered
           /\ Complete(dma, e, b).clobbered = dma.clobbered
           /\ [dma EXCEPT !.pulse = FALSE].clobbered = dma.clobbered
           /\ [dma EXCEPT !.latched = TRUE, !.next = b].clobbered = dma.clobbered
<1>1. WriteHDP(dma, b) \in DmaType(B)
  BY DEF WriteHDP, DmaType
<1>2. Complete(dma, e, b) \in DmaType(B) /\ Complete(dma, e, b).clobbered = dma.clobbered
  BY DEF Complete, DmaType
<1>3. /\ WriteCP(dma, e) \in DmaType(B) /\ WriteCP(dma, e).at = dma.at
      /\ WriteCP(dma, e).clobbered = dma.clobbered
  BY DEF WriteCP, DmaType
<1>4. /\ WriteEOI(dma) \in DmaType(B) /\ WriteEOI(dma).at = dma.at
      /\ WriteEOI(dma).clobbered = dma.clobbered
  BY DEF WriteEOI, DmaType
<1>5. /\ [dma EXCEPT !.pulse = FALSE] \in DmaType(B)
      /\ [dma EXCEPT !.latched = TRUE, !.next = b] \in DmaType(B)
      /\ [dma EXCEPT !.pulse = FALSE].clobbered = dma.clobbered
      /\ [dma EXCEPT !.latched = TRUE, !.next = b].clobbered = dma.clobbered
  BY DEF DmaType
<1> QED BY <1>1, <1>2, <1>3, <1>4, <1>5

\* TypeOK, in the names of the proofs.
LEMMA TypesAre ==
    TypeOK <=>
        /\ txbd \in [TxBds -> TxBdType]
        /\ txch \in [free_head : TxBds, send_head : TxBds, send_tail : TxBds \cup {NULL},
                     free_num : 0 .. NumTx]
        /\ rxbd \in [RxBds -> RxBdType]
        /\ rxch \in [free_head : RxBds, recv_head : RxBds, recv_tail : RxBds,
                     free_num : 0 .. NumRx]
        /\ txdma \in DmaType(TxBds) /\ rxdma \in DmaType(RxBds)
        /\ ref \in [Pbufs -> 0 .. MaxRef] /\ held \subseteq Pbufs
        /\ cpu \in CpuType /\ env \in Environments /\ dry \in BOOLEAN
        /\ queued \in Seq(Packets) /\ filled \in Seq(Pool)
BY DEF TypeOK, TxBdType, RxBdType, CpuType, Packets

\* A step that changes nothing that concerns reception.
LEMMA RxSame ==
    ASSUME RxInv, CpuOK, UNCHANGED <<rx, cpu, env>>
    PROVE  RxInv' /\ CpuOK'
<1>1. /\ Given' = Given /\ Posted' = Posted /\ Filled' = Filled
      /\ \A i : RxSlot(i)' = RxSlot(i)
      /\ InRxHandler' <=> InRxHandler
  BY DEF Given, Posted, Filled, RxSlot, InRxHandler, rx
<1>6. UNCHANGED Closed
  BY DEF Closed, rx
<1>2. RxRing'
  BY <1>6 DEF RxInv, RxRing, rx
<1>3. RxFilled'
  BY <1>1, <1>6 DEF RxInv, RxFilled, rx
<1>4. RxEnds'
  BY <1>1, <1>6 DEF RxInv, RxEnds, rx
<1>5. RxAwake'
  BY <1>1, <1>6 DEF RxInv, RxAwake, rx
<1> QED BY <1>2, <1>3, <1>4, <1>5 DEF RxInv, CpuOK

\* A step of the transmit path that takes the processor from one of these places to
\* another.
LEMMA RxAside ==
    ASSUME TypeOK, CpuOK, RxInv, UNCHANGED <<rx, env>>,
           cpu.pc \notin {"rx_eoi", "linked", "posted"},
           cpu'.pc \notin {"rx_eoi", "linked", "posted"},
           Given' = Given, InRxHandler' <=> InRxHandler
    PROVE  RxInv'
BY RxFrame, ClosedSame DEF rx

\* What RefInv says does not change while the pbufs, the queue and the ring do not.
LEMMA RefSame ==
    ASSUME RefInv, UNCHANGED <<ref, held, queued, rxbd, rxch>>, Given' = Given,
           cpu'.pc = "linked" <=> cpu.pc = "linked"
    PROVE  RefInv'
BY RefFrame, ClosedSame

\* The rings the driver builds satisfy the receive side of the invariant.
LEMMA InitRx ==
    ASSUME Init
    PROVE  TypeOK /\ CpuOK /\ RxInv /\ RefInv
<1>1. /\ NumRx \in Nat \ {0} /\ RxBds = 1 .. NumRx /\ NumTx \in Nat /\ NumTx >= 2
      /\ TxBds = 1 .. NumTx /\ NULL = 0 /\ MaxRef \in Nat \ {0} /\ 1 \in TxBds /\ 1 \in RxBds
      /\ NumRx \in RxBds /\ NULL \notin RxBds
  BY SizesAssumption DEF RxBds, TxBds, NULL
<1> DEFINE o == Order(Pool)
<1>2. /\ \A b \in RxBds : o[b] \in Pool
      /\ \A b, c \in RxBds : o[b] = o[c] => b = c
  <2>1. /\ Cardinality(Pool) \in Nat /\ o \in [1 .. Cardinality(Pool) -> Pool]
        /\ \A i, j \in 1 .. Cardinality(Pool) : o[i] = o[j] => i = j
    BY SizesAssumption, OrderType
  <2>2. \A b \in RxBds : b \in 1 .. Cardinality(Pool)
    BY <1>1, <2>1, SizesAssumption
  <2> HIDE DEF o
  <2> QED BY <2>1, <2>2
<1> HIDE DEF o
<1>3. /\ txbd = [b \in TxBds |-> [next |-> (b % NumTx) + 1, owner |-> FALSE, sop |-> FALSE,
                                  eop |-> FALSE, eoq |-> FALSE, pbuf |-> NULL]]
      /\ txch = [free_head |-> 1, send_head |-> 1, send_tail |-> NULL, free_num |-> NumTx]
      /\ txdma = Idle
      /\ rxbd = [b \in RxBds |-> [next |-> IF b = NumRx THEN NULL ELSE b + 1,
                                  owner |-> TRUE, eoq |-> FALSE, pbuf |-> o[b]]]
      /\ ref = [p \in Pbufs |-> IF \E b \in RxBds : p = o[b] THEN 1 ELSE 0]
      /\ rxch = [free_head |-> 1, recv_head |-> 1, recv_tail |-> NumRx, free_num |-> 0]
      /\ rxdma = [Idle EXCEPT !.at = 1]
      /\ held = {}
      /\ cpu = [pc |-> "stack", ret |-> "stack", tail |-> NULL, head |-> NULL]
      /\ env \in Environments
      /\ queued = << >> /\ filled = << >> /\ dry = FALSE
  BY DEF Init, o
<1>16. Closed = rxbd
  BY <1>3 DEF Closed
<1>4. TypeOK
  <2>1. txbd \in [TxBds -> TxBdType]
    <3>1. ASSUME NEW b \in TxBds PROVE (b % NumTx) + 1 \in TxBds
      BY <1>1
    <3> QED BY <1>3, <3>1 DEF TxBdType
  <2>2. rxbd \in [RxBds -> RxBdType]
    <3>1. ASSUME NEW b \in RxBds, b # NumRx PROVE b + 1 \in RxBds
      BY <1>1, <3>1
    <3>2. ASSUME NEW b \in RxBds PROVE rxbd[b] \in RxBdType
      <4> DEFINE x == IF b = NumRx THEN NULL ELSE b + 1
      <4>1. x \in RxBds \cup {NULL} /\ o[b] \in Pool
        BY <1>2, <3>1
      <4>2. rxbd[b] = [next |-> x, owner |-> TRUE, eoq |-> FALSE, pbuf |-> o[b]]
        BY <1>3
      <4> HIDE DEF x
      <4> QED BY <4>1, <4>2 DEF RxBdType
    <3> QED BY <1>3, <3>2
  <2>3. /\ txch \in [free_head : TxBds, send_head : TxBds, send_tail : TxBds \cup {NULL},
                     free_num : 0 .. NumTx]
        /\ rxch \in [free_head : RxBds, recv_head : RxBds, recv_tail : RxBds,
                     free_num : 0 .. NumRx]
    BY <1>1, <1>3
  <2>4. txdma \in DmaType(TxBds) /\ rxdma \in DmaType(RxBds)
    BY <1>1, <1>3 DEF Idle, DmaType
  <2>5. ref \in [Pbufs -> 0 .. MaxRef] /\ held \subseteq Pbufs
    BY <1>1, <1>3
  <2>6. cpu \in CpuType /\ env \in Environments /\ dry \in BOOLEAN
    BY <1>3 DEF CpuType
  <2>7. queued \in Seq(Packets) /\ filled \in Seq(Pool)
    BY <1>3
  <2> QED BY <2>1, <2>2, <2>3, <2>4, <2>5, <2>6, <2>7, TypesAre
<1>5. CpuOK
  BY <1>3 DEF CpuOK
<1>6. Given = 0 /\ Filled = 0 /\ Posted = NumRx /\ Len(filled) = 0 /\ Len(queued) = 0
  BY <1>1, <1>3 DEF Given, Filled, Posted
<1>7. rxdma.at = 1 /\ ~rxdma.latched /\ rxdma.armed
  BY <1>3 DEF Idle
<1>8. /\ rxch.free_head = 1 /\ rxch.recv_head = 1 /\ rxch.recv_tail = NumRx
      /\ rxch.free_num = 0
      /\ \A b \in RxBds : /\ rxbd[b].next = IF b = NumRx THEN NULL ELSE b + 1
                          /\ rxbd[b].owner /\ ~rxbd[b].eoq /\ rxbd[b].pbuf = o[b]
  BY <1>3
<1>9. RxRing
  <2>1. ASSUME NEW b \in RxBds, b # NumRx PROVE b + 1 = Rot(NumRx, b, 1)
    BY <1>1, <2>1 DEF Rot
  <2>2. Rot(NumRx, NumRx, 1) = 1 /\ Rot(NumRx, 1, 0) = 1
    BY <1>1 DEF Rot
  <2> QED BY <1>8, <1>16, <2>1, <2>2 DEF RxRing
<1>10. \A i \in 0 .. NumRx - 1 : RxSlot(i) \in RxBds
  <2>1. \A i \in 0 .. NumRx - 1 : i \in 0 .. NumRx
    BY <1>1
  <2> QED BY <1>4, <1>9, <2>1, RxSlots
<1>11. RxFilled
  <2>1. RxSlot(Filled) = 1
    BY <1>1, <1>6, <1>8 DEF RxSlot, Rot
  <2>2. Filled < Posted /\ Filled <= Posted
    BY <1>1, <1>6
  <2>3. \A i \in 0 .. NumRx - 1 : rxbd[RxSlot(i)].owner <=> ~(Given <= i /\ i < Filled)
    BY <1>6, <1>8, <1>10
  <2>4. \A i \in 1 .. Len(filled) : FALSE
    BY <1>6
  <2> QED BY <1>7, <1>16, <2>1, <2>2, <2>3, <2>4 DEF RxFilled
<1>12. RxEnds
  <2>1. cpu.pc = "stack"
    BY <1>3
  <2> QED BY <1>1, <1>8, <1>16, <2>1 DEF RxEnds
<1>13. RxAwake
  <2>1. cpu.pc = "stack" /\ filled = << >> /\ rxdma.at # NULL
    BY <1>1, <1>3, <1>7
  <2> QED BY <1>7, <2>1 DEF RxAwake
<1>14. RxOwned
  <2>1. ASSUME NEW i \in 0 .. NumRx - 1
        PROVE  /\ ref[rxbd[RxSlot(i)].pbuf] = 1
               /\ \A j \in (0 .. NumRx - 1) \ {i} : rxbd[RxSlot(j)].pbuf # rxbd[RxSlot(i)].pbuf
    <3>1. rxbd[RxSlot(i)].pbuf = o[RxSlot(i)] /\ RxSlot(i) \in RxBds
      BY <1>8, <1>10
    <3>2. o[RxSlot(i)] \in Pbufs
      BY <1>2, <3>1 DEF Pbufs
    <3>3. ref[o[RxSlot(i)]] = 1
      BY <1>3, <3>1, <3>2
    <3>4. ASSUME NEW j \in (0 .. NumRx - 1) \ {i}
          PROVE  rxbd[RxSlot(j)].pbuf # rxbd[RxSlot(i)].pbuf
      <4>1. rxbd[RxSlot(j)].pbuf = o[RxSlot(j)] /\ RxSlot(j) \in RxBds
        BY <1>8, <1>10
      <4>2. RxSlot(j) # RxSlot(i)
        BY <1>4, <1>9, RxSlots
      <4> QED BY <1>2, <3>1, <4>1, <4>2
    <3> QED BY <3>1, <3>3, <3>4
  <2>2. held = {} /\ DOMAIN queued = {}
    BY <1>3
  <2> QED BY <1>6, <1>16, <2>1, <2>2 DEF RxOwned
<1>15. KeptWhileQueued
  <2>1. ASSUME NEW p \in Pbufs
        PROVE  ref[p] >= Cardinality(Of(queued, p)) + (IF p \in held THEN 1 ELSE 0)
    <3>1. Of(queued, p) = {}
      BY <1>3 DEF Of
    <3>2. Cardinality(Of(queued, p)) = 0
      BY <3>1, FS_EmptySet
    <3>3. ref[p] \in Nat /\ p \notin held
      BY <1>3
    <3> QED BY <3>2, <3>3
  <2> QED BY <2>1, KeptIs
<1> QED BY <1>4, <1>5, <1>9, <1>11, <1>12, <1>13, <1>14, <1>15 DEF RxInv, RefInv

\* The rings the driver builds satisfy the transmit side of the invariant.
LEMMA InitTx ==
    ASSUME Init
    PROVE  TxInv
<1>1. /\ NumTx \in Nat /\ NumTx >= 2 /\ TxBds = 1 .. NumTx /\ 1 \in 1 .. NumTx /\ NULL = 0
  BY SizesAssumption DEF TxBds, NULL
<1>2. /\ \A b \in TxBds : /\ txbd[b].next = (b % NumTx) + 1
                          /\ ~txbd[b].sop /\ ~txbd[b].eop /\ ~txbd[b].eoq
      /\ txch.free_head = 1 /\ txch.send_head = 1 /\ txch.send_tail = NULL
      /\ txch.free_num = NumTx
      /\ txdma.at = NULL /\ ~txdma.latched /\ queued = << >> /\ cpu.pc = "stack"
  BY DEF Init, Idle
<1>3. InQueue = 0 /\ TxSlot(InQueue) = 1 /\ Len(queued) = 0
  BY <1>1, <1>2 DEF InQueue, TxSlot, Rot
<1>4. ASSUME NEW b \in TxBds PROVE (b % NumTx) + 1 = Rot(NumTx, b, 1)
  <2>1. CASE b = NumTx
    <3>1. b % NumTx = 0
      BY <1>1, <2>1
    <3> QED BY <1>1, <2>1, <3>1 DEF Rot
  <2>2. CASE b # NumTx
    <3>1. b \in Nat /\ b < NumTx
      BY <1>1, <2>2
    <3>2. b % NumTx = b
      BY <1>1, <3>1
    <3> QED BY <1>1, <3>1, <3>2 DEF Rot
  <2> QED BY <2>1, <2>2
<1>5. TxRing
  BY <1>2, <1>3, <1>4 DEF TxRing
<1>6. Before[0] = 0
  <2>1. queued \in Seq(Packets)
    BY <1>2
  <2> QED BY <2>1, OffsetsType DEF Before
<1>7. TxQueue
  <2>1. \A k \in 1 .. Len(queued) : FALSE
    BY <1>3
  <2>2. \A i \in 0 .. NumTx - 1 : TxSlot(i) \in TxBds
    <3>1. \A i \in 0 .. NumTx - 1 : i \in 0 .. NumTx
      BY <1>1
    <3> QED BY <1>1, <1>2, <3>1, RotType DEF TxSlot
  <2> QED BY <1>2, <1>3, <1>6, <2>1, <2>2 DEF TxQueue
<1>8. SentUpTo(0)
  <2>1. \A k \in 1 .. Len(queued) : FALSE
    BY <1>3
  <2> QED BY <1>2, <2>1 DEF SentUpTo
<1>9. TxSent
  <2>1. 0 \in 0 .. Len(queued)
    BY <1>3
  <2> QED BY <1>8, <2>1 DEF TxSent
<1> QED BY <1>5, <1>7, <1>9 DEF TxInv

\* The same of the next state.
LEMMA TypesNext ==
    ASSUME txbd' \in [TxBds -> TxBdType],
           txch' \in [free_head : TxBds, send_head : TxBds, send_tail : TxBds \cup {NULL},
                     free_num : 0 .. NumTx],
           rxbd' \in [RxBds -> RxBdType],
           rxch' \in [free_head : RxBds, recv_head : RxBds, recv_tail : RxBds,
                     free_num : 0 .. NumRx],
           txdma' \in DmaType(TxBds), rxdma' \in DmaType(RxBds),
           ref' \in [Pbufs -> 0 .. MaxRef], held' \subseteq Pbufs,
           cpu' \in CpuType, env' \in Environments, dry' \in BOOLEAN,
           queued' \in Seq(Packets), filled' \in Seq(Pool)
    PROVE  TypeOK'
BY DEF TypeOK, TxBdType, RxBdType, CpuType, Packets

\* A head descriptor pointer is written while its channel is halted only.
Starts == txdma'.clobbered = txdma.clobbered /\ rxdma'.clobbered = rxdma.clobbered

\* TxBegin keeps the whole invariant and starts only a halted engine.
LEMMA TxBeginStep == ASSUME Inv, TxBegin PROVE Inv' /\ Starts
<1>1. /\ UNCHANGED <<txbd, txch, queued, rx, ref, held, cpu, env>>
      /\ txdma' = [txdma EXCEPT !.latched = TRUE,
                                !.next = txbd[PacketEnd(txbd, txdma.at)].next]
  BY DEF TxBegin
<1>2. TxInv' /\ txdma'.next \in TxBds \cup {NULL}
  BY TxBeginKeeps DEF Inv
<1>3. TypeOK'
  <2>1. txdma' \in DmaType(TxBds)
    <3>1. txdma \in DmaType(TxBds)
      BY TypesAre DEF Inv
    <3>2. txdma'.next = txbd[PacketEnd(txbd, txdma.at)].next
      BY <1>1, <3>1 DEF DmaType
    <3> QED BY <1>1, <1>2, <3>1, <3>2 DEF DmaType
  <2> QED BY <1>1, <2>1 DEF Inv, TypeOK, rx
<1>4. RxInv' /\ CpuOK'
  BY <1>1, RxSame DEF Inv
<1>5. RefInv'
  BY <1>1, RefSame DEF Inv, Given, rx
<1>6. Starts
  BY <1>1, TypesAre DEF Inv, Starts, DmaType, rx
<1> QED BY <1>1, <1>2, <1>3, <1>4, <1>5, <1>6 DEF Inv

\* TxDone keeps the whole invariant and starts only a halted engine.
LEMMA TxDoneStep == ASSUME Inv, TxDone PROVE Inv' /\ Starts
<1> DEFINE e == PacketEnd(txbd, txdma.at)
           next == NextOf(txdma, e, txbd)
<1>1. /\ UNCHANGED <<txch, queued, rx, ref, held, cpu, env>>
      /\ txdma' = Complete(txdma, e, next)
  BY DEF TxDone
<1>2. /\ TxInv' /\ txbd' \in [TxBds -> TxBdType]
      /\ txdma'.at \in TxBds \cup {NULL} /\ txdma'.cp \in TxBds
  BY TxDoneKeeps DEF Inv
<1>3. TypeOK'
  <2>1. txdma' \in DmaType(TxBds)
    <3>1. txdma'.at = next /\ txdma'.cp = e
      BY <1>1 DEF Complete
    <3>2. txdma \in DmaType(TxBds)
      BY TypesAre DEF Inv
    <3> HIDE DEF e, next
    <3> QED BY <1>1, <1>2, <3>1, <3>2, DmaTypes
  <2> QED BY <1>1, <1>2, <2>1 DEF Inv, TypeOK, rx, TxBdType
<1>4. RxInv' /\ CpuOK'
  BY <1>1, RxSame DEF Inv
<1>5. RefInv'
  BY <1>1, RefSame DEF Inv, Given, rx
<1>6. Starts
  BY <1>1 DEF Starts, Complete, rx
<1> QED BY <1>1, <1>2, <1>3, <1>4, <1>5, <1>6 DEF Inv

\* A step that leaves transmission alone.
LEMMA TxAside ==
    ASSUME TxInv, UNCHANGED tx, cpu'.pc = "chained" <=> cpu.pc = "chained"
    PROVE  TxInv'
BY TxFrame DEF tx

\* RxBegin keeps the whole invariant and starts only a halted engine.
LEMMA RxBeginStep == ASSUME Inv, Timely, RxBegin PROVE Inv' /\ Starts
<1>1. /\ UNCHANGED <<tx, rxbd, rxch, filled, dry, ref, held, cpu, env>>
      /\ rxdma.at # NULL
      /\ rxdma' = [rxdma EXCEPT !.latched = TRUE, !.next = rxbd[rxdma.at].next]
  BY DEF RxBegin
<1>2. TypeOK'
  <2>1. rxdma.at \in RxBds /\ rxbd[rxdma.at].next \in RxBds \cup {NULL}
    BY <1>1, RxTypes DEF Inv, RxBdType
  <2>2. rxdma \in DmaType(RxBds)
    BY TypesAre DEF Inv
  <2>3. rxdma' \in DmaType(RxBds)
    BY <1>1, <2>1, <2>2 DEF DmaType
  <2> QED BY <1>1, <2>3 DEF Inv, TypeOK, tx
<1>3. RxInv' /\ CpuOK'
  BY <1>1, EngineSeen, RxBeginKeeps DEF Inv, CpuOK
<1>4. TxInv'
  BY <1>1, TxAside DEF Inv
<1>5. RefInv'
  BY <1>1, RefSame DEF Inv, Given, tx
<1>6. Starts
  BY <1>1, TypesAre DEF Inv, Starts, DmaType, tx
<1> QED BY <1>1, <1>2, <1>3, <1>4, <1>5, <1>6 DEF Inv

\* RxDone keeps the whole invariant and starts only a halted engine.
LEMMA RxDoneStep == ASSUME Inv, Timely, RxDone PROVE Inv' /\ Starts
<1> DEFINE e == rxdma.at
           next == NextOf(rxdma, e, rxbd)
<1>1. /\ UNCHANGED <<tx, rxch, dry, ref, held, cpu, env>> /\ e # NULL
      /\ rxdma' = Complete(rxdma, e, next)
      /\ rxbd' = [rxbd EXCEPT ![e].owner = FALSE, ![e].eoq = (next = NULL)]
      /\ filled' = Append(filled, rxbd[e].pbuf)
  BY DEF RxDone
<1>2. /\ e \in RxBds /\ rxbd \in [RxBds -> RxBdType] /\ rxdma \in DmaType(RxBds)
      /\ filled \in Seq(Pool)
  BY <1>1, RxTypes, TypesAre DEF Inv
<1>3. next \in RxBds \cup {NULL}
  <2>1. rxdma.next \in RxBds \cup {NULL} /\ rxbd[e].next \in RxBds \cup {NULL}
    BY <1>2 DEF DmaType, RxBdType
  <2> QED BY <2>1 DEF NextOf
<1> DEFINE x == next = NULL
<1>4. x \in BOOLEAN /\ rxbd' = [rxbd EXCEPT ![e] = [rxbd[e] EXCEPT !.owner = FALSE, !.eoq = x]]
  <2>1. x \in BOOLEAN
    OBVIOUS
  <2>2. rxbd' = [rxbd EXCEPT ![e] = [rxbd[e] EXCEPT !.owner = FALSE, !.eoq = x]]
    <3> HIDE DEF e, next
    <3> QED BY <1>1, <1>2
  <2> QED BY <2>1, <2>2
<1> HIDE DEF e, next, x
<1>5. rxbd' \in [RxBds -> RxBdType]
  <2>1. rxbd[e] \in RxBdType
    BY <1>2
  <2>2. [rxbd[e] EXCEPT !.owner = FALSE, !.eoq = x] \in RxBdType
    BY <1>4, <2>1 DEF RxBdType
  <2> QED BY <1>2, <1>4, <2>2
<1>6. TypeOK'
  <2>1. rxdma' \in DmaType(RxBds)
    BY <1>1, <1>2, <1>3, DmaTypes
  <2>2. filled' \in Seq(Pool)
    <3>1. rxbd[e].pbuf \in Pool
      BY <1>2 DEF RxBdType
    <3> QED BY <1>1, <1>2, <3>1
  <2> QED BY <1>1, <1>5, <2>1, <2>2 DEF Inv, TypeOK, tx, RxBdType
<1>7. RxInv' /\ CpuOK'
  BY <1>1, EngineSeen, RxDoneKeeps DEF Inv, CpuOK
<1>8. TxInv'
  BY <1>1, TxAside DEF Inv
<1>9. RefInv'
  <2>1. Given' = Given
    BY <1>1 DEF Given
  <2>2. \A b \in RxBds : Closed'[b].pbuf = Closed[b].pbuf
    <3> DEFINE y == NextOf(rxdma, rxdma.at, Closed) = NULL
    <3>1. Closed' = [Closed EXCEPT ![e].owner = FALSE, ![e].eoq = y]
      BY EngineSeen DEF Inv, RxDoneSeen, e
    <3>2. Closed \in [RxBds -> RxBdType]
      BY RxTypes DEF Inv
    <3> HIDE DEF y
    <3> QED BY <1>2, <3>1, <3>2 DEF RxBdType
  <2>3. \A i \in Given .. Posted - 1 : Closed'[RxSlot(i)].pbuf = Closed[RxSlot(i)].pbuf
    <3>1. \A i \in Given .. Posted - 1 : i \in 0 .. NumRx
      BY RxTypes DEF Inv
    <3> QED BY <2>2, <3>1, RxSlots DEF Inv, RxInv
  <2> QED BY <1>1, <2>1, <2>3, RefFrame DEF Inv, tx
<1>10. Starts
  BY <1>1 DEF Starts, Complete, tx
<1> QED BY <1>1, <1>6, <1>7, <1>8, <1>9, <1>10 DEF Inv

-----------------------------------------------------------------------------
(* The stack.                                                              *)

\* Release keeps the whole invariant and starts only a halted engine.
LEMMA ReleaseStep == ASSUME Inv, NEW p \in held, Release(p) PROVE Inv' /\ Starts
<1>1. UNCHANGED <<tx, rx, cpu, env>> /\ held' = held \ {p}
  BY DEF Release
<1>2. RefInv' /\ ref' \in [Pbufs -> 0 .. MaxRef]
  BY ReleaseRefs DEF Inv
<1>3. TypeOK'
  BY <1>1, <1>2 DEF Inv, TypeOK, tx, rx
<1>4. RxInv' /\ CpuOK'
  BY <1>1, RxSame DEF Inv
<1>5. TxInv'
  BY <1>1, TxAside DEF Inv
<1> QED BY <1>1, <1>2, <1>3, <1>4, <1>5 DEF Inv, Starts, tx, rx

\* OutputRefused keeps the whole invariant and starts only a halted engine.
LEMMA OutputRefusedStep ==
    ASSUME Inv, NEW p \in Pbufs, NEW n, OutputRefused(p, n) PROVE Inv' /\ Starts
<1>1. UNCHANGED <<tx, rx, cpu, env>>
  BY DEF OutputRefused
<1>2. RefInv' /\ ref' \in [Pbufs -> 0 .. MaxRef] /\ held' \subseteq Pbufs
  BY OutputRefusedRefs DEF Inv
<1>3. TypeOK'
  BY <1>1, <1>2 DEF Inv, TypeOK, tx, rx
<1>4. RxInv' /\ CpuOK'
  BY <1>1, RxSame DEF Inv
<1>5. TxInv'
  BY <1>1, TxAside DEF Inv
<1> QED BY <1>1, <1>2, <1>3, <1>4, <1>5 DEF Inv, Starts, tx, rx

\* Output keeps the whole invariant and starts only a halted engine.
LEMMA OutputStep ==
    ASSUME Inv, NEW p \in Pbufs, NEW n \in 1 .. MaxChain, Output(p, n) PROVE Inv' /\ Starts
<1>1. /\ UNCHANGED <<rx, env>> /\ InStack
  BY DEF Output
<1>2. /\ InQueue + n <= NumTx /\ InQueue < NumTx
      /\ txbd' \in [TxBds -> TxBdType]
      /\ txch' = [free_head |-> TxSlot(InQueue + n), send_head |-> txch.send_head,
                  send_tail |-> IF txch.send_tail = NULL THEN TxSlot(InQueue + n - 1)
                                ELSE txch.send_tail,
                  free_num |-> txch.free_num - n]
      /\ txch.send_tail = NULL => txdma' = WriteHDP(txdma, TxSlot(InQueue)) /\ cpu' = cpu
      /\ txch.send_tail # NULL =>
             txdma' = txdma /\ cpu' = [cpu EXCEPT !.pc = "chained", !.ret = cpu.pc]
  BY OutputShape DEF Inv, TxInv
<1>3. /\ RefInv' /\ ref' \in [Pbufs -> 0 .. MaxRef] /\ held' \subseteq Pbufs
      /\ queued' \in Seq(Packets) /\ Given' = Given
  BY OutputRefs DEF Inv
<1>4. /\ txdma \in DmaType(TxBds) /\ cpu \in CpuType /\ cpu.pc \in {"stack", "input"}
      /\ cpu.ret # "input"
  BY <1>1, TypesAre DEF Inv, InStack, CpuOK
<1>5. \A i \in 0 .. NumTx : TxSlot(i) \in TxBds
  BY TxSlots DEF Inv
<1>6. /\ InQueue \in 0 .. NumTx /\ InQueue + n \in 0 .. NumTx /\ InQueue + n - 1 \in 0 .. NumTx
      /\ txch.free_num - n \in 0 .. NumTx
      /\ txch.send_head \in TxBds /\ txch.send_tail \in TxBds \cup {NULL}
  <2>1. /\ NumTx \in Nat /\ InQueue \in Nat /\ n \in Nat /\ n >= 1 /\ MaxChain \in Nat
        /\ txch.free_num \in 0 .. NumTx /\ InQueue = NumTx - txch.free_num
        /\ txch.send_head \in TxBds /\ txch.send_tail \in TxBds \cup {NULL}
    BY TxTypes DEF Inv, InQueue
  <2>2. InQueue + n <= NumTx /\ InQueue < NumTx
    BY <1>2
  <2> HIDE DEF InQueue
  <2> QED BY <2>1, <2>2
<1>7. txch' \in [free_head : TxBds, send_head : TxBds, send_tail : TxBds \cup {NULL},
                 free_num : 0 .. NumTx]
  BY <1>2, <1>5, <1>6
<1>8. txdma' \in DmaType(TxBds) /\ cpu' \in CpuType
  <2>1. CASE txch.send_tail = NULL
    <3>1. TxSlot(InQueue) \in TxBds
      BY <1>5, <1>6
    <3>2. txdma' = WriteHDP(txdma, TxSlot(InQueue)) /\ cpu' = cpu
      BY <1>2, <2>1
    <3>3. WriteHDP(txdma, TxSlot(InQueue)) \in DmaType(TxBds)
      BY <1>4, <3>1, DmaTypes
    <3> QED BY <1>4, <3>2, <3>3
  <2>2. CASE txch.send_tail # NULL
    BY <1>2, <1>4, <2>2 DEF CpuType
  <2> QED BY <2>1, <2>2
<1>9. TypeOK'
  <2>1. UNCHANGED <<rxbd, rxch, rxdma, filled, dry, env>>
    BY <1>1 DEF rx
  <2>2. /\ rxbd \in [RxBds -> RxBdType]
        /\ rxch \in [free_head : RxBds, recv_head : RxBds, recv_tail : RxBds,
                     free_num : 0 .. NumRx]
        /\ rxdma \in DmaType(RxBds) /\ env \in Environments /\ dry \in BOOLEAN
        /\ filled \in Seq(Pool)
    BY TypesAre DEF Inv
  <2> QED BY <1>2, <1>3, <1>7, <1>8, <2>1, <2>2, TypesNext
<1>10. /\ cpu'.pc = "chained" \/ cpu' = cpu
       /\ cpu'.pc \notin {"rx_eoi", "linked", "posted"}
       /\ cpu'.ret = "input" => cpu'.pc = "chained"
       /\ InRxHandler' <=> InRxHandler
  <2>1. CASE txch.send_tail = NULL
    BY <1>2, <1>4, <2>1 DEF InRxHandler
  <2>2. CASE txch.send_tail # NULL
    <3>1. cpu'.pc = "chained" /\ cpu'.ret = cpu.pc
      BY <1>2, <1>4, <2>2 DEF CpuType
    <3> QED BY <1>4, <3>1 DEF InRxHandler
  <2> QED BY <2>1, <2>2
<1>11. CpuOK'
  BY <1>10 DEF CpuOK
<1>12. RxInv'
  BY <1>1, <1>3, <1>4, <1>10, RxAside DEF Inv
<1>13. TxInv'
  BY OutputKeeps DEF Inv
<1>14. Starts
  <2>1. CASE txch.send_tail = NULL
    <3>1. txdma.at = NULL
      BY <2>1 DEF Inv, TxInv, TxRing
    <3> QED BY <1>1, <1>2, <1>4, <2>1, <3>1 DEF Starts, WriteHDP, DmaType, rx
  <2>2. CASE txch.send_tail # NULL
    BY <1>1, <1>2, <2>2 DEF Starts, rx
  <2> QED BY <2>1, <2>2
<1> QED BY <1>3, <1>9, <1>11, <1>12, <1>13, <1>14 DEF Inv

\* TransmitKick keeps the whole invariant and starts only a halted engine.
LEMMA TransmitKickStep == ASSUME Inv, TransmitKick PROVE Inv' /\ Starts
<1> DEFINE first == txbd[txch.send_tail].next
<1>1. /\ UNCHANGED <<txbd, queued, rx, ref, held, env>> /\ cpu.pc = "chained"
      /\ txdma' = IF txbd[txch.send_tail].eoq THEN WriteHDP(txdma, first) ELSE txdma
      /\ txch' = [txch EXCEPT !.send_tail = PacketEnd(txbd, first)]
      /\ cpu' = [cpu EXCEPT !.pc = cpu.ret, !.ret = "stack"]
  BY DEF TransmitKick
<1>2. /\ TxInv' /\ txch'.send_tail \in TxBds
      /\ txdma'.clobbered = txdma.clobbered
      /\ txdma'.at \in TxBds \cup {NULL}
  BY TransmitKickKeeps DEF Inv
<1>3. /\ txdma \in DmaType(TxBds) /\ cpu \in CpuType
      /\ txch \in [free_head : TxBds, send_head : TxBds, send_tail : TxBds \cup {NULL},
                   free_num : 0 .. NumTx]
  BY TypesAre DEF Inv
<1>4. /\ txch' \in [free_head : TxBds, send_head : TxBds, send_tail : TxBds \cup {NULL},
                    free_num : 0 .. NumTx]
      /\ cpu' \in CpuType /\ cpu'.pc = cpu.ret /\ cpu'.ret = "stack"
  <2>1. txch'.send_tail = PacketEnd(txbd, first)
    BY <1>1, <1>3
  <2> HIDE DEF first
  <2> QED BY <1>1, <1>2, <1>3, <2>1 DEF CpuType
<1>5. txdma' \in DmaType(TxBds)
  <2> HIDE DEF first
  <2>1. CASE txbd[txch.send_tail].eoq
    <3>1. txdma' = WriteHDP(txdma, first)
      BY <1>1, <2>1
    <3>2. txdma'.at = first
      BY <1>3, <3>1 DEF WriteHDP, DmaType
    <3> QED BY <1>2, <1>3, <3>1, <3>2, DmaTypes
  <2>2. CASE ~txbd[txch.send_tail].eoq
    BY <1>1, <1>3, <2>2
  <2> QED BY <2>1, <2>2
<1>6. TypeOK'
  BY <1>1, <1>4, <1>5 DEF Inv, TypeOK, rx, CpuType
<1>7. /\ cpu.pc \notin {"rx_eoi", "linked", "posted"}
      /\ cpu'.pc \notin {"rx_eoi", "linked", "posted"}
      /\ Given' = Given /\ (InRxHandler' <=> InRxHandler) /\ CpuOK'
  BY <1>1, <1>3, <1>4 DEF Given, InRxHandler, CpuOK, CpuType
<1>8. RxInv'
  BY <1>1, <1>7, RxAside DEF Inv
<1>9. RefInv'
  BY <1>1, <1>7, RefSame DEF Inv, rx
<1> QED BY <1>1, <1>2, <1>6, <1>7, <1>8, <1>9 DEF Inv, Starts, rx

-----------------------------------------------------------------------------
(* The handlers.                                                           *)

\* The processor's record after a step, and CpuOK with it.
LEMMA CpuMoves ==
    ASSUME cpu \in CpuType, cpu.ret # "input",
           NEW pc \in {"stack", "rx", "input", "rx_eoi", "tx", "giveup", "alloc", "linked", "posted"},
           NEW t \in RxBds \cup {NULL}, NEW h \in RxBds \cup {NULL},
           cpu' = [cpu EXCEPT !.pc = pc] \/ cpu' = [cpu EXCEPT !.pc = pc, !.tail = t, !.head = h]
    PROVE  /\ cpu' \in CpuType /\ CpuOK' /\ cpu'.pc = pc /\ cpu'.ret = cpu.ret
           /\ Given' = IF pc = "input" THEN 1 ELSE 0
           /\ InRxHandler' <=> pc \in {"rx", "input", "rx_eoi"}
<1>1. cpu' \in CpuType /\ cpu'.pc = pc /\ cpu'.ret = cpu.ret
  BY DEF CpuType
<1> QED BY <1>1 DEF CpuOK, Given, InRxHandler

\* Where the handlers are, ethernet_input is not to be returned to.
LEMMA InHandler ==
    ASSUME Inv, cpu.pc # "chained"
    PROVE  /\ cpu \in CpuType /\ cpu.ret # "input"
           /\ Given = IF cpu.pc = "input" THEN 1 ELSE 0
           /\ InRxHandler <=> cpu.pc \in {"rx", "input", "rx_eoi"}
<1>1. cpu \in CpuType /\ cpu.ret # "input"
  BY TypesAre DEF Inv, CpuOK
<1> QED BY <1>1 DEF Given, InRxHandler

\* RxIsr keeps the whole invariant and starts only a halted engine.
LEMMA RxIsrStep == ASSUME Inv, RxIsr PROVE Inv' /\ Starts
<1>1. /\ UNCHANGED <<tx, rxbd, rxch, filled, dry, ref, held, env>> /\ cpu.pc = "stack"
      /\ rxdma' = [rxdma EXCEPT !.pulse = FALSE]
      /\ cpu' = [cpu EXCEPT !.pc = "rx"]
  BY DEF RxIsr
<1>2. /\ cpu' \in CpuType /\ CpuOK' /\ cpu'.pc = "rx" /\ Given' = Given
  BY <1>1, CpuMoves, InHandler
<1>3. TypeOK'
  <2>1. rxdma' \in DmaType(RxBds)
    BY <1>1, TypesAre DEF Inv, DmaType
  <2> QED BY <1>1, <1>2, <2>1 DEF Inv, TypeOK, tx, CpuType
<1>4. RxInv'
  BY HandlerSeen, RxIsrKeeps DEF Inv
<1>5. TxInv'
  BY <1>1, <1>2, TxAside DEF Inv
<1>6. RefInv'
  BY <1>1, <1>2, RefSame DEF Inv, tx
<1>7. rxdma'.clobbered = rxdma.clobbered
  BY <1>1, TypesAre DEF Inv, DmaType
<1> QED BY <1>1, <1>2, <1>3, <1>4, <1>5, <1>6, <1>7 DEF Inv, Starts, tx

\* RxPacket keeps the whole invariant and starts only a halted engine.
LEMMA RxPacketStep == ASSUME Inv, RxPacket PROVE Inv' /\ Starts
<1> DEFINE b == rxch.recv_head
<1>1. /\ UNCHANGED <<tx, rxch, rxdma, dry, ref, env>> /\ cpu.pc = "rx"
      /\ rxbd' = [rxbd EXCEPT ![b].owner = TRUE, ![b].eoq = FALSE]
      /\ filled' = Tail(filled)
      /\ cpu' = [cpu EXCEPT !.pc = "input"]
  BY DEF RxPacket
<1>2. /\ cpu' \in CpuType /\ CpuOK' /\ cpu'.pc = "input"
  BY <1>1, CpuMoves, InHandler
<1>3. RxInv' /\ filled # << >>
  BY HandlerSeen, RxPacketKeeps DEF Inv
<1>4. RefInv' /\ held' \subseteq Pbufs
  BY HandlerSeen, RxPacketRefs DEF Inv
<1>5. TypeOK'
  <2>1. b \in RxBds /\ rxbd \in [RxBds -> RxBdType] /\ filled \in Seq(Pool)
    BY RxTypes DEF Inv
  <2>2. rxbd' = [rxbd EXCEPT ![b] = [rxbd[b] EXCEPT !.owner = TRUE, !.eoq = FALSE]]
    BY <1>1, <2>1
  <2>3. rxbd' \in [RxBds -> RxBdType]
    <3>1. [rxbd[b] EXCEPT !.owner = TRUE, !.eoq = FALSE] \in RxBdType
      BY <2>1 DEF RxBdType
    <3> HIDE DEF b
    <3> QED BY <2>1, <2>2, <3>1
  <2>4. filled' \in Seq(Pool)
    BY <1>1, <1>3, <2>1
  <2> QED BY <1>1, <1>2, <1>4, <2>3, <2>4 DEF Inv, TypeOK, tx, CpuType, RxBdType
<1>6. TxInv'
  BY <1>1, <1>2, TxAside DEF Inv
<1> QED BY <1>1, <1>2, <1>3, <1>4, <1>5, <1>6 DEF Inv, Starts, tx

\* RxNext keeps the whole invariant and starts only a halted engine.
LEMMA RxNextStep == ASSUME Inv, RxNext PROVE Inv' /\ Starts
<1> DEFINE pc == IF rxbd[rxch.recv_head].next = NULL THEN "rx_eoi" ELSE "rx"
<1>1. /\ UNCHANGED <<tx, rxbd, filled, dry, ref, held, env>> /\ cpu.pc = "input"
      /\ rxdma' = WriteCP(rxdma, rxch.recv_head)
      /\ rxch' = [rxch EXCEPT !.free_num = @ + 1, !.recv_head = rxch'.recv_head]
      /\ cpu' = [cpu EXCEPT !.pc = pc]
  <2>1. /\ UNCHANGED <<tx, rxbd, filled, dry, ref, held, env>> /\ cpu.pc = "input"
        /\ rxdma' = WriteCP(rxdma, rxch.recv_head)
        /\ cpu' = [cpu EXCEPT !.pc = pc]
    BY DEF RxNext
  <2>2. rxch' = [rxch EXCEPT !.free_num = @ + 1, !.recv_head = rxch'.recv_head]
    BY RxTypes DEF Inv, RxNext
  <2> QED BY <2>1, <2>2
<1>2. pc \in {"rx_eoi", "rx"}
  OBVIOUS
<1> HIDE DEF pc
<1>3. /\ cpu' \in CpuType /\ CpuOK' /\ cpu'.pc # "chained"
  BY <1>1, <1>2, CpuMoves, InHandler
<1>4. TypeOK'
  <2>1. /\ rxch'.recv_head \in RxBds /\ rxch.free_num + 1 <= NumRx
        /\ rxch.free_num \in 0 .. NumRx /\ NumRx \in Nat /\ rxch.recv_head \in RxBds
    BY HandlerSeen, RxNextMoves, RxTypes DEF Inv
  <2>2. rxch.free_num + 1 \in 0 .. NumRx
    BY <2>1
  <2>3. rxch' \in [free_head : RxBds, recv_head : RxBds, recv_tail : RxBds,
                   free_num : 0 .. NumRx]
    BY <1>1, <2>1, <2>2, TypesAre DEF Inv
  <2>4. rxdma' \in DmaType(RxBds)
    BY <1>1, <2>1, TypesAre DEF Inv, WriteCP, DmaType
  <2> QED BY <1>1, <1>3, <2>3, <2>4 DEF Inv, TypeOK, tx, CpuType
<1>5. RxInv'
  BY HandlerSeen, RxNextKeeps DEF Inv
<1>6. RefInv'
  BY HandlerSeen, RxNextRefs DEF Inv
<1>7. TxInv'
  BY <1>1, <1>3, TxAside DEF Inv
<1>8. rxdma'.clobbered = rxdma.clobbered
  BY <1>1, TypesAre DEF Inv, WriteCP, DmaType
<1> QED BY <1>1, <1>3, <1>4, <1>5, <1>6, <1>7, <1>8 DEF Inv, Starts, tx

\* RxEnd keeps the whole invariant and starts only a halted engine.
LEMMA RxEndStep == ASSUME Inv, RxEnd PROVE Inv' /\ Starts
<1>1. /\ UNCHANGED <<tx, rxbd, rxch, filled, dry, ref, held, env>>
      /\ cpu.pc \in {"rx", "rx_eoi"}
      /\ rxdma' = WriteEOI(rxdma)
      /\ cpu' = [cpu EXCEPT !.pc = "alloc"]
  BY DEF RxEnd
<1>2. /\ cpu' \in CpuType /\ CpuOK' /\ cpu'.pc = "alloc" /\ Given' = Given
  BY <1>1, CpuMoves, InHandler
<1>3. rxdma' \in DmaType(RxBds) /\ rxdma'.clobbered = rxdma.clobbered
  BY <1>1, TypesAre DEF Inv, WriteEOI, DmaType
<1>4. TypeOK'
  BY <1>1, <1>2, <1>3 DEF Inv, TypeOK, tx, CpuType
<1>5. RxInv'
  BY HandlerSeen, RxEndKeeps DEF Inv
<1>6. TxInv'
  BY <1>1, <1>2, TxAside DEF Inv
<1>7. RefInv'
  BY <1>1, <1>2, RefSame DEF Inv, tx
<1> QED BY <1>1, <1>2, <1>3, <1>4, <1>5, <1>6, <1>7 DEF Inv, Starts, tx

\* AllocNone keeps the whole invariant and starts only a halted engine.
LEMMA AllocNoneStep == ASSUME Inv, AllocNone PROVE Inv' /\ Starts
<1>1. /\ UNCHANGED <<tx, rxbd, rxch, rxdma, filled, ref, held, env>> /\ cpu.pc = "alloc"
      /\ dry' = (dry \/ rxch.free_num > 0)
      /\ cpu' = [cpu EXCEPT !.pc = "stack"]
  BY DEF AllocNone
<1>2. /\ cpu' \in CpuType /\ CpuOK' /\ cpu'.pc = "stack" /\ Given' = Given
  BY <1>1, CpuMoves, InHandler
<1>3. TypeOK'
  <2>1. dry' \in BOOLEAN
    BY <1>1
  <2> QED BY <1>1, <1>2, <2>1 DEF Inv, TypeOK, tx, CpuType
<1>4. RxInv'
  BY HandlerSeen, AllocNoneKeeps DEF Inv
<1>5. TxInv'
  BY <1>1, <1>2, TxAside DEF Inv
<1>6. RefInv'
  BY <1>1, <1>2, RefSame DEF Inv, tx
<1> QED BY <1>1, <1>2, <1>3, <1>4, <1>5, <1>6 DEF Inv, Starts, tx

\* Alloc keeps the whole invariant and starts only a halted engine.
LEMMA AllocStep == ASSUME Inv, Alloc PROVE Inv' /\ Starts
<1>1. UNCHANGED <<tx, filled, held, env>> /\ cpu.pc = "alloc"
  BY DEF Alloc
<1>2. /\ AllocSize \in 1 .. rxch.free_num
      /\ rxbd' \in [RxBds -> RxBdType]
      /\ rxch' = [free_head |-> Rot(NumRx, rxch.free_head, AllocSize),
                  recv_head |-> rxch.recv_head,
                  recv_tail |-> Rot(NumRx, rxch.free_head, AllocSize - 1),
                  free_num |-> rxch.free_num - AllocSize]
      /\ dry' = (dry \/ AllocSize < rxch.free_num)
      /\ rxdma' = IF AllocSize = NumRx THEN WriteHDP(rxdma, rxch.free_head) ELSE rxdma
      /\ cpu' = [cpu EXCEPT !.pc = "linked", !.tail = rxch.recv_tail, !.head = rxch.free_head]
  BY AllocIsSeen, AllocShape DEF Inv, RxInv
<1>3. /\ NumRx \in Nat /\ RxBds = 1 .. NumRx /\ rxch.free_head \in RxBds
      /\ rxch.recv_head \in RxBds /\ rxch.recv_tail \in RxBds /\ rxch.free_num \in 0 .. NumRx
  BY RxTypes DEF Inv
<1>4. cpu' \in CpuType /\ CpuOK' /\ cpu'.pc = "linked"
  <2>1. cpu \in CpuType /\ cpu.ret # "input"
    BY <1>1, InHandler
  <2> QED BY <1>2, <1>3, <2>1 DEF CpuType, CpuOK
<1>5. rxdma' \in DmaType(RxBds)
  <2>1. CASE AllocSize = NumRx
    <3>1. rxdma' = WriteHDP(rxdma, rxch.free_head)
      BY <1>2, <2>1
    <3> QED BY <1>3, <3>1, TypesAre DEF Inv, WriteHDP, DmaType
  <2>2. CASE AllocSize # NumRx
    BY <1>2, <2>2, TypesAre DEF Inv
  <2> QED BY <2>1, <2>2
<1>6. rxch' \in [free_head : RxBds, recv_head : RxBds, recv_tail : RxBds,
                 free_num : 0 .. NumRx]
  <2> DEFINE k == AllocSize
  <2>1. k \in 1 .. rxch.free_num
    BY <1>2
  <2> HIDE DEF k
  <2>2. k \in 0 .. NumRx /\ k - 1 \in 0 .. NumRx /\ rxch.free_num - k \in 0 .. NumRx
    BY <1>3, <2>1
  <2>3. Rot(NumRx, rxch.free_head, k) \in RxBds /\ Rot(NumRx, rxch.free_head, k - 1) \in RxBds
    BY <1>3, <2>2, RotType
  <2> QED BY <1>2, <1>3, <2>2, <2>3 DEF k
<1>7. RxInv' /\ rxdma'.clobbered = rxdma.clobbered
  BY AllocIsSeen, AllocKeeps DEF Inv
<1>8. RefInv' /\ ref' \in [Pbufs -> 0 .. MaxRef]
  BY AllocIsSeen, AllocRefs DEF Inv
<1>9. TypeOK'
  <2>1. dry' \in BOOLEAN
    BY <1>2
  <2> QED BY <1>1, <1>2, <1>4, <1>5, <1>6, <1>8, <2>1 DEF Inv, TypeOK, tx, CpuType, RxBdType
<1>10. TxInv'
  BY <1>1, <1>4, TxAside DEF Inv
<1> QED BY <1>1, <1>4, <1>7, <1>8, <1>9, <1>10 DEF Inv, Starts, tx

\* AllocClose keeps the whole invariant and starts only a halted engine.
LEMMA AllocCloseStep == ASSUME Inv, AllocClose PROVE Inv' /\ Starts
<1>1. /\ UNCHANGED <<tx, rxch, rxdma, filled, dry, ref, held, env>> /\ cpu.pc = "linked"
      /\ cpu' = [cpu EXCEPT !.pc = "posted"]
  BY DEF AllocClose
<1>2. /\ cpu' \in CpuType /\ CpuOK' /\ cpu'.pc = "posted"
  BY <1>1, CpuMoves, InHandler
<1>3. RxInv' /\ UNCHANGED Closed /\ Given' = Given /\ rxbd' \in [RxBds -> RxBdType]
  BY AllocCloseKeeps DEF Inv
<1>4. TypeOK'
  BY <1>1, <1>2, <1>3 DEF Inv, TypeOK, tx, CpuType, RxBdType
<1>5. TxInv'
  BY <1>1, <1>2, TxAside DEF Inv
<1>6. RefInv'
  BY <1>1, <1>3, RefFrame DEF Inv, tx
<1> QED BY <1>1, <1>2, <1>3, <1>4, <1>5, <1>6 DEF Inv, Starts, tx

\* AllocKick keeps the whole invariant and starts only a halted engine.
LEMMA AllocKickStep == ASSUME Inv, AllocKick PROVE Inv' /\ Starts
<1>1. /\ UNCHANGED <<tx, rxbd, rxch, filled, dry, ref, held, env>> /\ cpu.pc = "posted"
      /\ rxdma' = IF rxbd[cpu.tail].eoq THEN WriteHDP(rxdma, cpu.head) ELSE rxdma
      /\ cpu' = [cpu EXCEPT !.pc = "stack", !.tail = NULL, !.head = NULL]
  BY DEF AllocKick
<1>2. /\ cpu' \in CpuType /\ CpuOK' /\ cpu'.pc = "stack" /\ Given' = Given
  BY <1>1, CpuMoves, InHandler
<1>3. rxdma' \in DmaType(RxBds)
  <2>1. cpu.head \in RxBds \cup {NULL} /\ rxdma \in DmaType(RxBds)
    BY TypesAre DEF Inv, CpuType
  <2> QED BY <1>1, <2>1 DEF WriteHDP, DmaType
<1>4. TypeOK'
  BY <1>1, <1>2, <1>3 DEF Inv, TypeOK, tx, CpuType
<1>5. RxInv' /\ rxdma'.clobbered = rxdma.clobbered
  BY HandlerSeen, AllocKickKeeps DEF Inv
<1>6. TxInv'
  BY <1>1, <1>2, TxAside DEF Inv
<1>7. RefInv'
  BY <1>1, <1>2, RefSame DEF Inv, tx
<1> QED BY <1>1, <1>2, <1>4, <1>5, <1>6, <1>7 DEF Inv, Starts, tx

\* TxIsr keeps the whole invariant and starts only a halted engine.
LEMMA TxIsrStep == ASSUME Inv, TxIsr PROVE Inv' /\ Starts
<1>1. /\ UNCHANGED <<txbd, txch, queued, rx, ref, held, env>> /\ cpu.pc = "stack"
      /\ txdma' = [txdma EXCEPT !.pulse = FALSE]
      /\ cpu' = [cpu EXCEPT !.pc = "tx"]
  BY DEF TxIsr
<1>2. /\ cpu' \in CpuType /\ CpuOK' /\ cpu'.pc = "tx" /\ Given' = Given
      /\ (InRxHandler' <=> InRxHandler)
  BY <1>1, CpuMoves, InHandler
<1>3. /\ txdma' \in DmaType(TxBds) /\ txdma'.at = txdma.at /\ txdma'.next = txdma.next
      /\ txdma'.latched = txdma.latched /\ txdma'.clobbered = txdma.clobbered
  BY <1>1, TypesAre DEF Inv, DmaType
<1>4. TypeOK'
  BY <1>1, <1>2, <1>3 DEF Inv, TypeOK, rx, CpuType
<1>5. RxInv'
  BY <1>1, <1>2, RxAside DEF Inv
<1>6. TxInv'
  BY <1>1, <1>2, <1>3, TxFrame DEF Inv
<1>7. RefInv'
  BY <1>1, <1>2, RefSame DEF Inv, rx
<1> QED BY <1>1, <1>2, <1>3, <1>4, <1>5, <1>6, <1>7 DEF Inv, Starts, rx

\* TxReclaim keeps the whole invariant and starts only a halted engine.
LEMMA TxReclaimStep == ASSUME Inv, TxReclaim PROVE Inv' /\ Starts
<1> DEFINE e == PacketEnd(txbd, txch.send_head)
           n == PacketLength(txbd, txch.send_head)
           link == IF txbd[e].next = NULL THEN txch.free_head ELSE txbd[e].next
<1>1. /\ UNCHANGED <<rx, held, cpu, env>> /\ cpu.pc = "tx"
      /\ txch' = [txch EXCEPT !.free_num = @ + n, !.send_head = link]
      /\ txdma' = WriteCP(txdma, e)
      /\ queued' = Tail(queued)
  BY DEF TxReclaim
<1>2. /\ TxInv' /\ queued # << >> /\ ref' = [ref EXCEPT ![queued[1].pbuf] = @ - 1]
      /\ txbd' \in [TxBds -> TxBdType]
      /\ txch'.send_head \in TxBds /\ txch'.free_num \in 0 .. NumTx
      /\ e \in TxBds
  BY TxReclaimKeeps DEF Inv
<1> HIDE DEF e, n, link
<1>3. RefInv' /\ ref' \in [Pbufs -> 0 .. MaxRef]
  BY <1>2, ReclaimRefs DEF Inv
<1>4. txdma' \in DmaType(TxBds) /\ txdma'.clobbered = txdma.clobbered
  BY <1>1, <1>2, TypesAre DEF Inv, WriteCP, DmaType
<1>5. txch' \in [free_head : TxBds, send_head : TxBds, send_tail : TxBds \cup {NULL},
                 free_num : 0 .. NumTx]
  <2>1. txch \in [free_head : TxBds, send_head : TxBds, send_tail : TxBds \cup {NULL},
                  free_num : 0 .. NumTx]
    BY TypesAre DEF Inv
  <2>2. txch'.send_head = link /\ txch'.free_num = txch.free_num + n
    BY <1>1, <2>1
  <2> QED BY <1>1, <1>2, <2>1, <2>2
<1>6. queued' \in Seq(Packets)
  <2>1. queued \in Seq(Packets)
    BY TypesAre DEF Inv
  <2> QED BY <1>1, <1>2, <2>1
<1>7. TypeOK'
  BY <1>1, <1>2, <1>3, <1>4, <1>5, <1>6 DEF Inv, TypeOK, rx, TxBdType, Packets
<1>8. RxInv' /\ CpuOK'
  BY <1>1, RxSame DEF Inv
<1> QED BY <1>1, <1>2, <1>3, <1>4, <1>7, <1>8 DEF Inv, Starts, rx

\* TxPollsRunOut keeps the whole invariant and starts only a halted engine.
LEMMA TxPollsRunOutStep == ASSUME Inv, TxPollsRunOut PROVE Inv' /\ Starts
<1>1. /\ UNCHANGED <<tx, rx, ref, held, env>> /\ cpu.pc = "tx"
      /\ cpu' = [cpu EXCEPT !.pc = "giveup"]
  BY DEF TxPollsRunOut
<1>2. /\ cpu' \in CpuType /\ CpuOK' /\ cpu'.pc = "giveup" /\ Given' = Given
      /\ (InRxHandler' <=> InRxHandler)
  BY <1>1, CpuMoves, InHandler
<1>3. TypeOK'
  BY <1>1, <1>2 DEF Inv, TypeOK, tx, rx, CpuType
<1>4. RxInv'
  BY <1>1, <1>2, RxAside DEF Inv
<1>5. TxInv'
  BY <1>1, <1>2, TxAside DEF Inv
<1>6. RefInv'
  BY <1>1, <1>2, RefSame DEF Inv, tx, rx
<1> QED BY <1>1, <1>2, <1>3, <1>4, <1>5, <1>6 DEF Inv, Starts, tx, rx

\* TxGiveUp keeps the whole invariant and starts only a halted engine.
LEMMA TxGiveUpStep == ASSUME Inv, GivingUp, TxGiveUp PROVE Inv' /\ Starts
<1>1. /\ UNCHANGED <<txbd, txch, queued, rx, ref, held, env>> /\ cpu.pc = "giveup"
      /\ txdma' = WriteHDP(txdma, txch.send_head)
      /\ cpu' = [cpu EXCEPT !.pc = "stack"]
  BY DEF TxGiveUp
<1>2. /\ cpu' \in CpuType /\ CpuOK' /\ cpu'.pc = "stack" /\ Given' = Given
      /\ (InRxHandler' <=> InRxHandler)
  BY <1>1, CpuMoves, InHandler
<1>3. txdma' \in DmaType(TxBds)
  <2>1. txch.send_head \in TxBds
    BY TxTypes DEF Inv
  <2> QED BY <1>1, <2>1, TypesAre DEF Inv, WriteHDP, DmaType
<1>4. TypeOK'
  BY <1>1, <1>2, <1>3 DEF Inv, TypeOK, rx, CpuType
<1>5. RxInv'
  BY <1>1, <1>2, RxAside DEF Inv
<1>6. TxInv' /\ txdma'.clobbered = txdma.clobbered
  BY TxGiveUpKeeps DEF Inv
<1>7. RefInv'
  BY <1>1, <1>2, RefSame DEF Inv, rx
<1> QED BY <1>1, <1>2, <1>4, <1>5, <1>6, <1>7 DEF Inv, Starts, rx

\* TxEnd keeps the whole invariant and starts only a halted engine.
LEMMA TxEndStep == ASSUME Inv, TxEnd PROVE Inv' /\ Starts
<1>1. /\ UNCHANGED <<txbd, txch, queued, rx, ref, held, env>> /\ cpu.pc = "tx"
      /\ txdma' = WriteEOI(txdma)
      /\ cpu' = [cpu EXCEPT !.pc = "alloc"]
  BY DEF TxEnd
<1>2. /\ cpu' \in CpuType /\ CpuOK' /\ cpu'.pc = "alloc" /\ Given' = Given
      /\ (InRxHandler' <=> InRxHandler)
  BY <1>1, CpuMoves, InHandler
<1>3. /\ txdma' \in DmaType(TxBds) /\ txdma'.at = txdma.at /\ txdma'.next = txdma.next
      /\ txdma'.latched = txdma.latched /\ txdma'.clobbered = txdma.clobbered
  BY <1>1, TypesAre DEF Inv, WriteEOI, DmaType
<1>4. TypeOK'
  BY <1>1, <1>2, <1>3 DEF Inv, TypeOK, rx, CpuType
<1>5. RxInv'
  BY <1>1, <1>2, RxAside DEF Inv
<1>6. TxInv'
  BY <1>1, <1>2, <1>3, TxFrame DEF Inv
<1>7. RefInv'
  BY <1>1, <1>2, RefSame DEF Inv, rx
<1> QED BY <1>1, <1>2, <1>3, <1>4, <1>5, <1>6, <1>7 DEF Inv, Starts, rx

-----------------------------------------------------------------------------
(* The invariant holds.                                                    *)

\* Every step keeps the invariant and starts only a halted engine.
LEMMA NextInv == ASSUME Inv, Timely, GivingUp, Next PROVE Inv' /\ Starts
<1>1. ASSUME NEW p \in held, Release(p) PROVE Inv' /\ Starts
  BY <1>1, ReleaseStep
<1>2. ASSUME NEW p \in env.packets, NEW n \in env.lengths, Output(p, n) \/ OutputRefused(p, n)
      PROVE  Inv' /\ Starts
  <2>1. p \in Pbufs /\ n \in 1 .. MaxChain
    BY RefTypes DEF Inv
  <2>2. CASE Output(p, n)
    BY <2>1, <2>2, OutputStep
  <2>3. CASE OutputRefused(p, n)
    BY <2>1, <2>3, OutputRefusedStep
  <2> QED BY <1>2, <2>2, <2>3
<1>3. CASE TxBegin \/ TxDone \/ RxBegin \/ RxDone
  BY <1>3, TxBeginStep, TxDoneStep, RxBeginStep, RxDoneStep
<1>4. CASE StackStep
  BY <1>1, <1>2, <1>4 DEF StackStep
<1>5. CASE TransmitKick \/ TxIsr \/ TxReclaim \/ TxPollsRunOut \/ TxGiveUp \/ TxEnd
  BY <1>5, TransmitKickStep, TxIsrStep, TxReclaimStep, TxPollsRunOutStep, TxGiveUpStep,
     TxEndStep
<1>6. CASE RxIsr \/ RxPacket \/ RxNext \/ RxEnd
  BY <1>6, RxIsrStep, RxPacketStep, RxNextStep, RxEndStep
<1>7. CASE AllocNone \/ Alloc \/ AllocClose \/ AllocKick
  BY <1>7, AllocNoneStep, AllocStep, AllocCloseStep, AllocKickStep
<1> QED BY <1>3, <1>4, <1>5, <1>6, <1>7 DEF Next, Handler

\* The timings do not change, and while the handler is about to give up nothing but
\* the receive channel moves.
LEMMA NextGivingUp == ASSUME Inv, Timely, GivingUp, Next PROVE Timely' /\ GivingUp'
<1>1. env' = env
  BY DEF Next, TxBegin, TxDone, RxBegin, RxDone, StackStep, Release, Output, OutputRefused,
         Handler, TransmitKick, RxIsr, RxPacket, RxNext, RxEnd, TxIsr, TxReclaim,
         TxPollsRunOut, TxGiveUp, TxEnd, AllocNone, Alloc, AllocClose, AllocKick
<1>2. Timely'
  BY <1>1 DEF Timely
<1>3. cpu \in CpuType
  BY TypesAre DEF Inv
<1>4. ASSUME TxPollsRunOut PROVE GivingUp'
  BY <1>3, <1>4 DEF TxPollsRunOut, Timely, GivingUp, tx
<1>5. ASSUME cpu.pc = "giveup", RxBegin \/ RxDone PROVE GivingUp'
  BY <1>5 DEF RxBegin, RxDone, GivingUp, tx
<1>6. ASSUME cpu.pc = "giveup", TxBegin \/ TxDone PROVE GivingUp'
  BY <1>6 DEF TxBegin, TxDone, GivingUp
<1>7. ASSUME cpu.pc # "giveup", TxBegin \/ TxDone \/ RxBegin \/ RxDone PROVE GivingUp'
  BY <1>7 DEF TxBegin, TxDone, RxBegin, RxDone, GivingUp
<1>8. ASSUME StackStep PROVE cpu'.pc # "giveup"
  <2>1. cpu.pc \in {"stack", "input"} /\ (cpu' = cpu \/ cpu' = [cpu EXCEPT !.pc = "chained", !.ret = cpu.pc])
    BY <1>8 DEF StackStep, Release, Output, OutputRefused, InStack
  <2> QED BY <1>3, <2>1 DEF CpuType
<1>9. ASSUME Handler, ~TxPollsRunOut PROVE cpu'.pc # "giveup"
  <2>1. CASE TransmitKick
    BY <1>3, <2>1 DEF TransmitKick, CpuType
  <2>2. CASE RxIsr \/ RxPacket \/ RxNext \/ RxEnd
    BY <1>3, <2>2 DEF RxIsr, RxPacket, RxNext, RxEnd, CpuType
  <2>3. CASE TxIsr \/ TxReclaim \/ TxGiveUp \/ TxEnd
    BY <1>3, <2>3 DEF TxIsr, TxReclaim, TxGiveUp, TxEnd, CpuType
  <2>4. CASE AllocNone \/ Alloc \/ AllocClose \/ AllocKick
    BY <1>3, <2>4 DEF AllocNone, Alloc, AllocClose, AllocKick, CpuType
  <2> QED BY <1>9, <2>1, <2>2, <2>3, <2>4 DEF Handler
<1>10. GivingUp'
  BY <1>4, <1>5, <1>6, <1>7, <1>8, <1>9 DEF Next, GivingUp
<1> QED BY <1>2, <1>10

\* So does a step that changes nothing.
LEMMA StutterInv == ASSUME Inv, UNCHANGED vars PROVE Inv' /\ Starts
<1>1. UNCHANGED <<tx, rx, ref, held, cpu, env>>
  BY DEF vars
<1>2. TypeOK'
  BY <1>1 DEF Inv, TypeOK, tx, rx
<1>3. RxInv' /\ CpuOK'
  BY <1>1, RxSame DEF Inv
<1>4. TxInv'
  BY <1>1, TxAside DEF Inv
<1>5. RefInv'
  BY <1>1, RefSame DEF Inv, Given, tx, rx
<1> QED BY <1>1, <1>2, <1>3, <1>4, <1>5 DEF Inv, Starts, tx, rx

\* The inductive invariant.
THEOREM InvariantHolds == ASSUME Prompt PROVE Spec => [](Inv /\ Timely /\ GivingUp)
<1>1. Init => Inv /\ Timely /\ GivingUp
  <2>1. Init => Inv
    BY InitRx, InitTx DEF Inv
  <2>2. Init => Timely /\ GivingUp
    BY DEF Init, Prompt, Timely, GivingUp
  <2> QED BY <2>1, <2>2
<1>2. Inv /\ Timely /\ GivingUp /\ [Next]_vars => (Inv /\ Timely /\ GivingUp)'
  <2>1. ASSUME Timely, GivingUp, UNCHANGED vars PROVE Timely' /\ GivingUp'
    BY <2>1 DEF Timely, GivingUp, vars, tx
  <2> QED BY <2>1, NextInv, NextGivingUp, StutterInv
<1> QED BY <1>1, <1>2, PTL DEF Spec

-----------------------------------------------------------------------------
(* The properties.                                                         *)

\* Both rings, both channels, the reference counts and the processor's place keep
\* their types: no count leaves its range, and no head is NULL.
THEOREM TypeCorrect == ASSUME Prompt PROVE Spec => []TypeOK
<1>1. Inv => TypeOK
  BY DEF Inv
<1> QED BY <1>1, InvariantHolds, PTL

\* By the invariant a buffer has one owner.
LEMMA OwnedInv == ASSUME Inv PROVE BufferHasOneOwner
<1> DEFINE at == Walk(Closed, rxdma.at, NumRx + 1)
<1>1. /\ NumRx \in Nat \ {0} /\ NULL \notin RxBds /\ Posted \in 0 .. NumRx /\ RxBds = 1 .. NumRx
      /\ Given \in Nat /\ Filled \in Nat /\ Given <= Filled
  BY RxTypes DEF Inv
<1>2. CASE rxdma.at = NULL
  <2> DEFINE p == [i \in 1 .. NumRx + 1 |-> NULL]
  <2>1. p = [i \in 1 .. NumRx + 1 |-> IF i = 1 THEN rxdma.at
                    ELSE IF p[i - 1] = NULL THEN NULL ELSE Closed[p[i - 1]].next]
    <3>1. ASSUME NEW i \in 1 .. NumRx + 1, i # 1 PROVE p[i - 1] = NULL
      <4>1. i - 1 \in 1 .. NumRx + 1
        BY <1>1, <3>1
      <4> QED BY <4>1
    <3> QED BY <1>2, <3>1
  <2>2. at = p
    <3>1. NumRx + 1 \in Nat
      BY <1>1
    <3> HIDE DEF p
    <3> DEFINE n == NumRx + 1
    <3>3. p = [i \in 1 .. n |-> IF i = 1 THEN rxdma.at
                    ELSE IF p[i - 1] = NULL THEN NULL ELSE Closed[p[i - 1]].next]
      BY <2>1
    <3> HIDE DEF n
    <3>4. n \in Nat
      BY <3>1 DEF n
    <3>5. Walk(Closed, rxdma.at, n) = p
      BY <3>3, <3>4, WalkIs
    <3>2. Walk(Closed, rxdma.at, NumRx + 1) = p
      BY <3>5 DEF n
    <3> QED BY <3>2
  <2>3. \A i \in 1 .. NumRx : at[i] = NULL
    BY <1>1, <2>2
  <2>4. at[NumRx + 1] = NULL
    BY <1>1, <2>2
  <2> HIDE DEF at
  <2> QED BY <2>3, <2>4 DEF BufferHasOneOwner, at
<1>3. CASE rxdma.at # NULL
  <2> DEFINE m == Posted - Filled
             c == RxSlot(Filled)
  <2>1. Filled < Posted /\ rxdma.at = c
    BY <1>3 DEF Inv, RxInv, RxFilled
  <2>2. /\ m \in 1 .. NumRx /\ Filled \in 0 .. NumRx /\ m - 1 \in 0 .. NumRx
        /\ Filled + (m - 1) = Posted - 1 /\ Filled + (m - 1) <= NumRx /\ m < NumRx + 1
        /\ NumRx + 1 \in 1 .. NumRx + 1 /\ Posted > 0 /\ NumRx + 1 \in Nat
    BY <1>1, <2>1
  <2>3. c \in RxBds /\ rxch.recv_tail = Rot(NumRx, c, m - 1)
    <3>1. c \in RxBds
      BY <2>2, RxSlots DEF Inv, RxInv
    <3>2. rxch.recv_tail = RxSlot(Posted - 1) /\ rxch.recv_head \in 1 .. NumRx
      BY <1>1, <2>2, RxSlots, RxTypes DEF Inv, RxInv
    <3>3. Rot(NumRx, RxSlot(Filled), m - 1) = RxSlot(Filled + (m - 1))
      <4> HIDE DEF m
      <4> QED BY <1>1, <2>2, <3>2, RotAdd DEF RxSlot
    <3> QED BY <2>2, <3>1, <3>2, <3>3
  <2>4. at = [i \in 1 .. NumRx + 1 |-> IF i <= m THEN Rot(NumRx, c, i - 1) ELSE NULL]
    <3> HIDE DEF m, c
    <3> QED BY <2>1, <2>2, <2>3, RxWalk DEF Inv, RxInv
  <2> HIDE DEF at
  <2>5. at[NumRx + 1] = NULL
    <3> HIDE DEF m, c
    <3>1. ~(NumRx + 1 <= m)
      BY <1>1, <2>2
    <3> QED BY <2>2, <2>4, <3>1
  <2>6. ASSUME NEW i \in 1 .. NumRx, at[i] # NULL
        PROVE  /\ at[i] = RxSlot(Filled + i - 1) /\ i <= m
               /\ Filled + i - 1 \in Given .. Posted - 1
               /\ Filled + i - 1 \in 0 .. NumRx - 1 /\ Filled <= Filled + i - 1
    <3>1. i \in 1 .. NumRx + 1
      BY <1>1
    <3>2. i <= m /\ at[i] = Rot(NumRx, c, i - 1)
      <4> HIDE DEF m, c
      <4> QED BY <2>4, <2>6, <3>1
    <3>3. /\ i - 1 \in 0 .. NumRx /\ Filled + (i - 1) <= NumRx /\ Filled + (i - 1) = Filled + i - 1
          /\ Filled + i - 1 \in Given .. Posted - 1
          /\ Filled + i - 1 \in 0 .. NumRx - 1 /\ Filled <= Filled + i - 1
      BY <1>1, <2>1, <3>2
    <3>4. Rot(NumRx, RxSlot(Filled), i - 1) = RxSlot(Filled + (i - 1))
      <4>1. NumRx \in Nat /\ rxch.recv_head \in 1 .. NumRx /\ Filled \in 0 .. NumRx
        BY <1>1, <2>2, RxTypes DEF Inv
      <4>2. i - 1 \in 0 .. NumRx /\ Filled + (i - 1) <= NumRx
        BY <3>3
      <4> HIDE DEF m, c
      <4> QED BY <4>1, <4>2, RotAdd DEF RxSlot
    <3> QED BY <3>2, <3>3, <3>4
  <2>7. ASSUME NEW i \in 1 .. NumRx, at[i] # NULL
        PROVE  /\ Closed[at[i]].owner
               /\ ref[Closed[at[i]].pbuf] = 1 /\ Closed[at[i]].pbuf \notin held
               /\ \A q \in DOMAIN queued : queued[q].pbuf # Closed[at[i]].pbuf
               /\ \A j \in 1 .. NumRx : j # i /\ at[j] # NULL =>
                      Closed[at[j]].pbuf # Closed[at[i]].pbuf
               /\ at[i] \in RxBds
    <3> DEFINE s == Filled + i - 1
    <3>1. /\ at[i] = RxSlot(s) /\ s \in Given .. Posted - 1
          /\ s \in 0 .. NumRx - 1 /\ Filled <= s
      BY <2>6, <2>7
    <3>2. Closed[at[i]].owner
      <4>1. ~(s < Filled)
        BY <1>1
      <4> HIDE DEF s
      <4> QED BY <3>1, <4>1 DEF Inv, RxInv, RxFilled
    <3>3. /\ ref[Closed[at[i]].pbuf] = 1 /\ Closed[at[i]].pbuf \notin held
          /\ \A q \in DOMAIN queued : queued[q].pbuf # Closed[at[i]].pbuf
      <4> HIDE DEF s
      <4> QED BY <3>1 DEF Inv, RefInv, RxOwned
    <3>4. ASSUME NEW j \in 1 .. NumRx, j # i, at[j] # NULL
          PROVE  Closed[at[j]].pbuf # Closed[at[i]].pbuf
      <4> DEFINE t == Filled + j - 1
      <4>1. at[j] = RxSlot(t) /\ t \in Given .. Posted - 1
        BY <2>6, <3>4
      <4>2. t # s
        BY <1>1, <3>4
      <4> HIDE DEF s, t
      <4> QED BY <3>1, <4>1, <4>2 DEF Inv, RefInv, RxOwned
    <3>5. at[i] \in RxBds
      <4>1. s \in 0 .. NumRx
        BY <1>1, <3>1
      <4> HIDE DEF s
      <4> QED BY <3>1, <4>1, RxSlots DEF Inv, RxInv
    <3> QED BY <3>2, <3>3, <3>4, <3>5
  <2>8. \A b \in RxBds : rxbd[b].owner = Closed[b].owner /\ rxbd[b].pbuf = Closed[b].pbuf
    BY ClosedIs DEF Inv
  <2>9. ASSUME NEW i \in 1 .. NumRx, at[i] # NULL
        PROVE  /\ rxbd[at[i]].owner
               /\ ref[rxbd[at[i]].pbuf] = 1 /\ rxbd[at[i]].pbuf \notin held
               /\ \A q \in DOMAIN queued : queued[q].pbuf # rxbd[at[i]].pbuf
               /\ \A j \in 1 .. NumRx : j # i /\ at[j] # NULL =>
                      rxbd[at[j]].pbuf # rxbd[at[i]].pbuf
    BY <2>7, <2>8, <2>9
  <2> QED BY <2>5, <2>9 DEF BufferHasOneOwner, at
<1> QED BY <1>2, <1>3

\* The engine never fills a pbuf that the stack or another packet uses, and its chain
\* ends: whatever the size of the ring and the pool, whatever order pbufs are kept and
\* freed in, and whether the engine reads ahead or not.
THEOREM BuffersOwned == ASSUME Prompt PROVE Spec => []BufferHasOneOwner
<1>1. Inv => BufferHasOneOwner
  BY OwnedInv
<1> QED BY <1>1, InvariantHolds, PTL

\* The handler hands the frames up in the order of their arrival, and misses none.
THEOREM OldestIsNext == ASSUME Prompt PROVE Spec => []NextIsOldest
<1>1. ASSUME Inv, filled # << >>, cpu.pc # "input", cpu.ret # "input"
      PROVE  /\ ~rxbd[rxch.recv_head].owner
             /\ rxbd[rxch.recv_head].pbuf = Head(filled)
  <2>8. /\ rxbd[rxch.recv_head].owner = Closed[rxch.recv_head].owner
        /\ rxbd[rxch.recv_head].pbuf = Closed[rxch.recv_head].pbuf
    BY <1>1, ClosedIs, RxTypes DEF Inv
  <2>1. Given = 0 /\ Filled = Len(filled) /\ Len(filled) \in Nat
    BY <1>1, RxTypes DEF Inv, Given, Filled
  <2>2. Len(filled) > 0 /\ NumRx \in Nat /\ NumRx # 0
    BY <1>1, <2>1, RxTypes, EmptySeq DEF Inv
  <2>3. RxSlot(0) = rxch.recv_head
    BY <1>1, RxSlots DEF Inv, RxInv
  <2>4. ~Closed[RxSlot(0)].owner
    <3>1. 0 \in 0 .. NumRx - 1 /\ Given <= 0 /\ 0 < Filled
      BY <2>1, <2>2
    <3> QED BY <1>1, <3>1 DEF Inv, RxInv, RxFilled
  <2>5. Closed[RxSlot(Given + 1 - 1)].pbuf = filled[1]
    <3>1. 1 \in 1 .. Len(filled)
      BY <2>1, <2>2
    <3> QED BY <1>1, <3>1 DEF Inv, RxInv, RxFilled
  <2>6. Given + 1 - 1 = 0
    BY <2>1
  <2>7. Head(filled) = filled[1]
    BY <1>1, HeadTailProperties, RxTypes DEF Inv
  <2> QED BY <2>3, <2>4, <2>5, <2>6, <2>7, <2>8
<1>2. Inv => NextIsOldest
  BY <1>1 DEF NextIsOldest
<1> QED BY <1>2, InvariantHolds, PTL

\* By the invariant the receive ring is posted and free descriptors, each once.
LEMMA PartitionedInv == ASSUME Inv, cpu.pc # "input", cpu.ret # "input" PROVE RingPartitioned
<1> DEFINE use == Walk(Closed, rxch.recv_head, NumRx + 1)
           free == Walk(Closed, rxch.free_head, NumRx)
           used == {use[i] : i \in 1 .. Posted}
           spare == {free[i] : i \in 1 .. rxch.free_num}
           m == IF Posted = 0 THEN NumRx ELSE Posted
<1>1. /\ NumRx \in Nat \ {0} /\ NULL \notin RxBds /\ Posted \in 0 .. NumRx /\ RxBds = 1 .. NumRx
      /\ rxch.free_head \in RxBds /\ rxch.recv_head \in RxBds /\ rxch.recv_tail \in RxBds
      /\ rxch.free_num \in 0 .. NumRx /\ Posted = NumRx - rxch.free_num
  BY RxTypes DEF Inv, Posted
<1> HIDE DEF Posted
<1>2. m \in 1 .. NumRx /\ NumRx + 1 \in Nat /\ NumRx \in 1 .. NumRx /\ NumRx \in Nat
  BY <1>1
<1>3. use = [i \in 1 .. NumRx + 1 |-> IF i <= m THEN Rot(NumRx, rxch.recv_head, i - 1) ELSE NULL]
  <2>1. rxch.recv_tail = Rot(NumRx, rxch.recv_head, m - 1)
    <3>1. CASE Posted = 0
      BY <3>1, RxSlots DEF Inv, RxInv, RxSlot
    <3>2. CASE Posted # 0
      <4>1. Posted > 0
        BY <1>1, <3>2
      <4> QED BY <3>2, <4>1, RxSlots DEF Inv, RxInv, RxSlot
    <3> QED BY <3>1, <3>2
  <2> HIDE DEF m
  <2>2. Walk(Closed, rxch.recv_head, NumRx + 1)
            = [i \in 1 .. NumRx + 1 |-> IF i <= m THEN Rot(NumRx, rxch.recv_head, i - 1) ELSE NULL]
    <3> DEFINE n == NumRx + 1
               h == rxch.recv_head
    <3>1. TypeOK /\ RxRing /\ n \in Nat /\ m \in 1 .. NumRx /\ h \in RxBds
      BY <1>1, <1>2 DEF Inv, RxInv
    <3>2. rxch.recv_tail = Rot(NumRx, h, m - 1)
      BY <2>1
    <3> HIDE DEF n, h
    <3>3. Walk(Closed, h, n) = [i \in 1 .. n |-> IF i <= m THEN Rot(NumRx, h, i - 1) ELSE NULL]
      BY <3>1, <3>2, RxWalk
    <3> QED BY <3>3 DEF n, h
  <2> QED BY <2>2
<1>4. free = [i \in 1 .. NumRx |-> IF i <= NumRx THEN Rot(NumRx, rxch.free_head, i - 1) ELSE NULL]
  <2>1. rxch.recv_tail = Rot(NumRx, rxch.free_head, NumRx - 1)
    <3>1. rxch.free_head = Rot(NumRx, rxch.recv_tail, 1)
      BY DEF Inv, RxInv, RxRing
    <3>2. /\ 1 \in 0 .. NumRx /\ NumRx - 1 \in 0 .. NumRx /\ 1 + (NumRx - 1) <= NumRx
          /\ 1 + (NumRx - 1) = NumRx
      <4>1. NumRx \in Nat /\ NumRx >= 1
        BY <1>1
      <4> QED BY <4>1
    <3> DEFINE d == NumRx - 1
    <3>3. d \in 0 .. NumRx /\ 1 + d <= NumRx /\ 1 + d = NumRx
      BY <3>2
    <3> HIDE DEF d
    <3>4. Rot(NumRx, Rot(NumRx, rxch.recv_tail, 1), d) = Rot(NumRx, rxch.recv_tail, 1 + d)
      <4>1. NumRx \in Nat /\ rxch.recv_tail \in 1 .. NumRx /\ 1 \in 0 .. NumRx
        BY <1>1, <1>2, <3>2
      <4> QED BY <3>3, <4>1, RotAdd
    <3>5. Rot(NumRx, rxch.recv_tail, NumRx) = rxch.recv_tail
      BY <1>1, <1>2, RotRound
    <3> QED BY <3>1, <3>3, <3>4, <3>5 DEF d
  <2>2. Walk(Closed, rxch.free_head, NumRx)
            = [i \in 1 .. NumRx |-> IF i <= NumRx THEN Rot(NumRx, rxch.free_head, i - 1) ELSE NULL]
    <3> DEFINE h == rxch.free_head
    <3>1. /\ TypeOK /\ RxRing /\ NumRx \in Nat /\ NumRx \in 1 .. NumRx
          /\ h \in RxBds
      BY <1>1, <1>2 DEF Inv, RxInv
    <3>2. rxch.recv_tail = Rot(NumRx, h, NumRx - 1)
      BY <2>1
    <3> HIDE DEF h
    <3>3. Walk(Closed, h, NumRx)
              = [i \in 1 .. NumRx |-> IF i <= NumRx THEN Rot(NumRx, h, i - 1) ELSE NULL]
      BY <3>1, <3>2, RxWalk
    <3> QED BY <3>3 DEF h
  <2> QED BY <2>2
<1>5. ASSUME NEW i \in 1 .. Posted PROVE use[i] = RxSlot(i - 1)
  <2>1. i \in 1 .. NumRx + 1 /\ i <= m
    BY <1>1
  <2> HIDE DEF m, use
  <2> QED BY <1>3, <2>1 DEF RxSlot
<1>6. ASSUME NEW i \in 1 .. rxch.free_num PROVE free[i] = RxSlot(Posted + (i - 1))
  <2>1. i \in 1 .. NumRx /\ i <= NumRx /\ i - 1 \in 0 .. rxch.free_num - 1
    BY <1>1
  <2>2. free[i] = Rot(NumRx, rxch.free_head, i - 1)
    <3> HIDE DEF free
    <3> QED BY <1>4, <2>1
  <2>3. Rot(NumRx, rxch.free_head, i - 1) = RxSlot(Posted + (i - 1))
    BY <2>1, RxSlots DEF Inv, RxInv
  <2> QED BY <2>2, <2>3
<1>7. Posted > 0 => use[Posted] = rxch.recv_tail /\ use[Posted + 1] = NULL
  <2>1. SUFFICES ASSUME Posted > 0
                 PROVE  use[Posted] = rxch.recv_tail /\ use[Posted + 1] = NULL
    OBVIOUS
  <2>2. Posted \in 1 .. Posted /\ Posted + 1 \in 1 .. NumRx + 1 /\ ~(Posted + 1 <= m)
    BY <1>1, <2>1
  <2>3. use[Posted] = RxSlot(Posted - 1)
    BY <1>5, <2>2
  <2>4. rxch.recv_tail = RxSlot(Posted - 1)
    BY <2>1, RxSlots DEF Inv, RxInv
  <2>5. use[Posted + 1] = NULL
    <3> HIDE DEF m, use
    <3> QED BY <1>3, <2>2
  <2> QED BY <2>3, <2>4, <2>5
<1> HIDE DEF use, free, m
<1>8. used \cup spare = RxBds
  <2>1. ASSUME NEW i \in 1 .. Posted PROVE use[i] \in RxBds
    <3>1. i - 1 \in 0 .. NumRx
      BY <1>1
    <3> QED BY <1>5, <3>1, RxSlots DEF Inv, RxInv
  <2>2. ASSUME NEW i \in 1 .. rxch.free_num PROVE free[i] \in RxBds
    <3>1. Posted + (i - 1) \in 0 .. NumRx
      BY <1>1
    <3> QED BY <1>6, <3>1, RxSlots DEF Inv, RxInv
  <2>3. ASSUME NEW c \in RxBds PROVE c \in used \cup spare
    <3>1. PICK j \in 0 .. NumRx - 1 : c = RxSlot(j)
      BY RxSlots DEF Inv, RxInv
    <3>2. CASE j < Posted
      <4>1. j + 1 \in 1 .. Posted /\ (j + 1) - 1 = j
        BY <1>1, <3>2
      <4>2. c = use[j + 1]
        BY <1>5, <3>1, <4>1
      <4> QED BY <4>1, <4>2
    <3>3. CASE ~(j < Posted)
      <4>1. j - Posted + 1 \in 1 .. rxch.free_num /\ Posted + ((j - Posted + 1) - 1) = j
        <5>1. j \in Nat /\ j >= Posted /\ j < NumRx /\ rxch.free_num \in Nat
              /\ Posted \in Nat /\ Posted = NumRx - rxch.free_num /\ NumRx \in Nat
          BY <1>1, <3>3
        <5>2. j - Posted + 1 \in 1 .. rxch.free_num
          BY <5>1
        <5>3. Posted + ((j - Posted + 1) - 1) = j
          BY <5>1
        <5> QED BY <5>2, <5>3
      <4>2. c = free[j - Posted + 1]
        BY <1>6, <3>1, <4>1
      <4> QED BY <4>1, <4>2
    <3> QED BY <3>2, <3>3
  <2> QED BY <2>1, <2>2, <2>3
<1> HIDE DEF used, spare
<1> QED BY <1>1, <1>7, <1>8 DEF RingPartitioned, Posted, use, free, used, spare

\* Between them the posted descriptors and the free ones are the whole receive ring:
\* none is lost and none is counted twice, however often the ring turns.
THEOREM RingShared == ASSUME Prompt PROVE Spec => []RingPartitioned
<1>1. Inv => RingPartitioned
  BY PartitionedInv DEF RingPartitioned
<1> QED BY <1>1, InvariantHolds, PTL

\* By the invariant the transmit ring holds the queue's packets and no other.
LEMMA HoldsInv == ASSUME Inv PROVE RingHoldsQueued
<1> DEFINE at == Walk(txbd, txch.send_head, NumTx)
<1>1. /\ NumTx \in Nat /\ InQueue \in 0 .. NumTx /\ txch.free_num \in 0 .. NumTx
      /\ InQueue = NumTx - txch.free_num
  BY TxTypes DEF Inv, InQueue
<1>2. Before[Len(queued)] = InQueue /\ DOMAIN queued = 1 .. Len(queued) /\ Len(queued) \in Nat
  BY RefTypes DEF Inv, TxInv, TxQueue
<1>3. Before[Len(queued)] + txch.free_num = NumTx
  <2> HIDE DEF InQueue
  <2> QED BY <1>1, <1>2
<1>4. ASSUME NEW k \in 1 .. Len(queued)
      PROVE  LET b == at[Before[k - 1] + 1]
                 e == at[Before[k]]
             IN  /\ txbd[b].sop /\ PacketLength(txbd, b) = queued[k].n
                 /\ txbd[e].pbuf = queued[k].pbuf
                 /\ k = Len(queued) => txbd[e].next = NULL
  <2>1. /\ PacketLength(txbd, TxSlot(Before[k - 1])) = queued[k].n
        /\ txch.send_tail # NULL
        /\ txbd[TxSlot(Before[k] - 1)].next =
               IF k = Len(queued) THEN NULL ELSE TxSlot(Before[k])
    BY PacketShape DEF Inv, TxInv
  <2>2. /\ Before[k - 1] \in 0 .. InQueue - 1 /\ Before[k] - 1 \in 0 .. InQueue - 1
        /\ Before[k] \in Nat /\ Before[k - 1] \in 0 .. NumTx - 1
    <3>1. k - 1 \in 0 .. Len(queued) - 1 /\ k \in 0 .. Len(queued)
      BY <1>2
    <3> QED BY <3>1, TxOffsets DEF Inv, TxInv
  <2>3. at = [i \in 1 .. NumTx |-> IF i <= InQueue THEN TxSlot(i - 1) ELSE NULL]
    <3>1. 0 \in 0 .. InQueue - 1
      BY <1>1, <2>2
    <3>2. TxSlot(0) = txch.send_head
      BY TxSlots DEF Inv
    <3>3. Walk(txbd, TxSlot(0), NumTx)
              = [i \in 1 .. NumTx |-> IF 0 + i <= InQueue THEN TxSlot(0 + i - 1) ELSE NULL]
      BY <1>1, <2>1, <3>1, TxWalk DEF Inv, TxInv
    <3> DEFINE p == [i \in 1 .. NumTx |-> IF 0 + i <= InQueue THEN TxSlot(0 + i - 1) ELSE NULL]
               q == [i \in 1 .. NumTx |-> IF i <= InQueue THEN TxSlot(i - 1) ELSE NULL]
    <3>4. ASSUME NEW i \in 1 .. NumTx PROVE p[i] = q[i]
      <4>1. 0 + i = i
        OBVIOUS
      <4> QED BY <4>1
    <3>5. p = q
      BY <3>4
    <3> HIDE DEF p, q
    <3>6. Walk(txbd, txch.send_head, NumTx) = q
      BY <3>2, <3>3, <3>5 DEF p
    <3> QED BY <3>6 DEF q
  <2> HIDE DEF at
  <2>4. /\ Before[k - 1] + 1 \in 1 .. NumTx /\ Before[k - 1] + 1 <= InQueue
        /\ (Before[k - 1] + 1) - 1 = Before[k - 1]
        /\ Before[k] \in 1 .. NumTx /\ Before[k] <= InQueue
    <3>1. /\ InQueue \in Nat /\ InQueue <= NumTx /\ NumTx \in Nat
          /\ Before[k - 1] \in Nat /\ Before[k - 1] < InQueue
      BY <1>1, <2>2
    <3>2. Before[k] \in Nat /\ Before[k] >= 1 /\ Before[k] <= InQueue
      BY <1>1, <2>2
    <3> HIDE DEF InQueue
    <3> QED BY <3>1, <3>2
  <2>5. at[Before[k - 1] + 1] = TxSlot(Before[k - 1]) /\ at[Before[k]] = TxSlot(Before[k] - 1)
    <3>1. at[Before[k - 1] + 1] = TxSlot((Before[k - 1] + 1) - 1)
      BY <2>3, <2>4
    <3>2. at[Before[k]] = TxSlot(Before[k] - 1)
      BY <2>3, <2>4
    <3> QED BY <2>4, <3>1, <3>2
  <2>6. txbd[TxSlot(Before[k - 1])].sop /\ txbd[TxSlot(Before[k] - 1)].pbuf = queued[k].pbuf
    BY <2>2 DEF Inv, TxInv, TxQueue
  <2> QED BY <2>1, <2>5, <2>6
<1> QED BY <1>2, <1>3, <1>4 DEF RingHoldsQueued, Before

\* The transmit ring holds the accepted packets, whole and in order, for chains of any
\* length: the handler frees the descriptors of the packet that was sent, and no other.
THEOREM RingHolds == ASSUME Prompt PROVE Spec => []RingHoldsQueued
<1>1. Inv => RingHoldsQueued
  BY HoldsInv
<1> QED BY <1>1, InvariantHolds, PTL

\* A pbuf in the transmit ring keeps the reference cpswif_output took, and one more
\* when the stack has it too.
THEOREM Kept == ASSUME Prompt PROVE Spec => []KeptWhileQueued
<1>1. Inv => KeptWhileQueued
  BY DEF Inv, RefInv
<1> QED BY <1>1, InvariantHolds, PTL

\* With an engine that does not read ahead, reception stops for good only after the
\* pool has run dry.
THEOREM StallsOnlyDry == ASSUME Prompt PROVE Spec => []StallsOnlyWhenDry
<1>1. ASSUME Inv, Stalled PROVE dry \/ env.ahead
  <2>1. /\ cpu.pc = "stack" /\ ~rxdma.pulse /\ rxdma.at = NULL /\ rxch.free_num < NumRx
    BY <1>1 DEF Stalled, Quiet
  <2>2. Given = 0 /\ ~InRxHandler
    BY <1>1, <2>1, InHandler
  <2>3. filled = << >>
    BY <1>1, <2>1, <2>2 DEF Inv, RxInv, RxAwake
  <2>4. Filled = 0
    BY <2>2, <2>3 DEF Filled
  <2>5. Posted # 0
    BY <1>1, <2>1, RxTypes DEF Inv, Posted
  <2> QED BY <1>1, <2>1, <2>4, <2>5 DEF Inv, RxInv, RxAwake
<1>2. Inv => StallsOnlyWhenDry
  BY <1>1 DEF StallsOnlyWhenDry
<1> QED BY <1>2, InvariantHolds, PTL

\* The head descriptor pointers are written while their channels are halted only: by
\* cpswif_output, by the two that look for EOQ, and by the handler that gives up.
THEOREM StartsHalted == ASSUME Prompt PROVE Spec => []StartsOnlyHalted
<1> DEFINE Never == ~txdma.clobbered /\ ~rxdma.clobbered
<1>1. Init => Never
  BY DEF Init, Idle
<1>2. Inv /\ Timely /\ GivingUp /\ Never /\ [Next]_vars => Never'
  <2>1. Inv /\ Timely /\ GivingUp /\ [Next]_vars => Starts
    BY NextInv, StutterInv
  <2> QED BY <2>1 DEF Starts
<1>3. Never => StartsOnlyHalted
  BY DEF StartsOnlyHalted
<1> HIDE DEF Never
<1> QED BY <1>1, <1>2, <1>3, InvariantHolds, PTL DEF Spec

===============================================================================
