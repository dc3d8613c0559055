---------------------------- MODULE USBDEnumProofs ----------------------------
(***************************************************************************)
(* Theorems about USBDEnum: whatever a host asks for and drops, it reads   *)
(* the answer to its own request, whole; requests are refused exactly when *)
(* there is nothing to answer; the address follows the status stage.       *)
(*                                                                         *)
(* They follow from one invariant, Inv: the host, the controller and the   *)
(* device are in one of seven phases.  First come the lemmas about bytes   *)
(* and sections, then what each handler does to the record it takes, then  *)
(* the phases and a lemma for every action, and the theorems at the end.   *)
(***************************************************************************)
EXTENDS USBDEnum, SequenceTheorems, WellFoundedInduction, TLAPS

-----------------------------------------------------------------------------
(* Numbers and recursive functions.                                        *)

\* The smaller of two numbers.
LEMMA LeastIs ==
    ASSUME NEW a \in Int, NEW b \in Int
    PROVE  /\ Least(a, b) \in {a, b} /\ Least(a, b) <= a /\ Least(a, b) <= b
           /\ a \in Nat /\ b \in Nat => Least(a, b) \in Nat
BY DEF Least

\* Induction, with a set for the property.
LEMMA SetInduction ==
    ASSUME NEW S, 0 \in S, \A n \in Nat : n \in S => n + 1 \in S
    PROVE  Nat \subseteq S
<1> DEFINE T == Nat \ S
           R == OpToRel(<, Nat)
<1>1. SUFFICES ASSUME T # {} PROVE FALSE
  OBVIOUS
<1>2. PICK x \in T : \A y \in T : ~ (<<y, x>> \in R)
  <2>1. T \subseteq Nat
    OBVIOUS
  <2>2. IsWellFoundedOn(R, Nat)
    BY NatLessThanWellFounded
  <2> HIDE DEF T, R
  <2> QED BY <1>1, <2>1, <2>2, WFMin
<1>3. x \in Nat /\ x # 0 /\ x - 1 \in Nat /\ (x - 1) + 1 = x
  OBVIOUS
<1>4. x - 1 \notin S
  BY <1>3
<1>5. <<x - 1, x>> \in R
  BY <1>3 DEF OpToRel
<1> QED BY <1>2, <1>3, <1>4, <1>5

\* A value stepped n times.
LEMMA Iterates ==
    ASSUME NEW n \in Nat, NEW x, NEW step
    PROVE  LET f == CHOOSE f : f = [i \in 0 .. n |-> IF i = 0 THEN x ELSE step[f[i - 1]]]
           IN  f = [i \in 0 .. n |-> IF i = 0 THEN x ELSE step[f[i - 1]]]
<1> DEFINE Next1(f, m) == [i \in 0 .. m |-> IF i = 0 THEN x ELSE step[f[i - 1]]]
           S == {m \in Nat : \E f : f = Next1(f, m)}
<1>1. 0 \in S
  <2> DEFINE f == [i \in 0 .. 0 |-> x]
  <2>1. f = Next1(f, 0)
    OBVIOUS
  <2> QED BY <2>1
<1>2. ASSUME NEW m \in Nat, m \in S PROVE m + 1 \in S
  <2>1. PICK f : f = Next1(f, m)
    BY <1>2
  <2> DEFINE g == [i \in 0 .. m + 1 |-> IF i = m + 1 THEN step[f[m]] ELSE f[i]]
  <2>2. ASSUME NEW i \in 0 .. m + 1 PROVE g[i] = IF i = 0 THEN x ELSE step[g[i - 1]]
    <3>1. CASE i = m + 1
      <4>1. g[i] = step[f[m]] /\ i # 0 /\ i - 1 = m /\ m \in 0 .. m + 1 /\ m # m + 1
        BY <3>1
      <4>2. g[m] = f[m]
        BY <4>1
      <4> QED BY <4>1, <4>2
    <3>2. CASE i # m + 1
      <4>1. i \in 0 .. m /\ (i # 0 => i - 1 \in 0 .. m + 1 /\ i - 1 # m + 1)
        BY <3>2
      <4>2. f[i] = IF i = 0 THEN x ELSE step[f[i - 1]]
        <5>1. f[i] = Next1(f, m)[i]
          BY <2>1
        <5> QED BY <4>1, <5>1
      <4>3. g[i] = f[i] /\ (i # 0 => g[i - 1] = f[i - 1])
        BY <3>2, <4>1
      <4> HIDE DEF g
      <4> QED BY <4>2, <4>3
    <3> QED BY <3>1, <3>2
  <2>3. g = [i \in 0 .. m + 1 |-> g[i]]
    OBVIOUS
  <2>4. g = Next1(g, m + 1)
    <3> HIDE DEF g
    <3> QED BY <2>2, <2>3
  <2> HIDE DEF Next1
  <2> QED BY <2>4
<1>3. n \in S
  <2> HIDE DEF S
  <2>1. Nat \subseteq S
    BY <1>1, <1>2, SetInduction
  <2> QED BY <2>1
<1>4. PICK f : f = Next1(f, n)
  BY <1>3
<1> QED BY <1>4

\* The same for the sums of the first numbers of a sequence.
LEMMA Sums ==
    ASSUME NEW q \in Seq(Nat)
    PROVE  LET f == CHOOSE f : f = [i \in 0 .. Len(q) |-> IF i = 0 THEN 0 ELSE f[i - 1] + q[i]]
           IN  /\ f \in [0 .. Len(q) -> Nat] /\ f[0] = 0
               /\ \A i \in 1 .. Len(q) : f[i] = f[i - 1] + q[i]
<1> DEFINE Next1(f, m) == [i \in 0 .. m |-> IF i = 0 THEN 0 ELSE f[i - 1] + q[i]]
           S == {m \in Nat : \E f : f = Next1(f, m)}
<1>1. 0 \in S
  <2> DEFINE f == [i \in 0 .. 0 |-> 0]
  <2>1. f = Next1(f, 0)
    OBVIOUS
  <2> QED BY <2>1
<1>2. ASSUME NEW m \in Nat, m \in S PROVE m + 1 \in S
  <2>1. PICK f : f = Next1(f, m)
    BY <1>2
  <2> DEFINE g == [i \in 0 .. m + 1 |-> IF i = m + 1 THEN f[m] + q[m + 1] ELSE f[i]]
  <2>2. ASSUME NEW i \in 0 .. m + 1 PROVE g[i] = IF i = 0 THEN 0 ELSE g[i - 1] + q[i]
    <3>1. CASE i = m + 1
      <4>1. g[i] = f[m] + q[i] /\ i # 0 /\ i - 1 = m /\ m \in 0 .. m + 1 /\ m # m + 1
        BY <3>1
      <4>2. g[m] = f[m]
        BY <4>1
      <4> QED BY <4>1, <4>2
    <3>2. CASE i # m + 1
      <4>1. i \in 0 .. m /\ (i # 0 => i - 1 \in 0 .. m + 1 /\ i - 1 # m + 1)
        BY <3>2
      <4>2. f[i] = IF i = 0 THEN 0 ELSE f[i - 1] + q[i]
        <5>1. f[i] = Next1(f, m)[i]
          BY <2>1
        <5> QED BY <4>1, <5>1
      <4>3. g[i] = f[i] /\ (i # 0 => g[i - 1] = f[i - 1])
        BY <3>2, <4>1
      <4> HIDE DEF g
      <4> QED BY <4>2, <4>3
    <3> QED BY <3>1, <3>2
  <2>3. g = [i \in 0 .. m + 1 |-> g[i]]
    OBVIOUS
  <2>4. g = Next1(g, m + 1)
    <3> HIDE DEF g
    <3> QED BY <2>2, <2>3
  <2> HIDE DEF Next1
  <2> QED BY <2>4
<1>3. Len(q) \in S
  <2> HIDE DEF S
  <2>1. Nat \subseteq S
    BY <1>1, <1>2, SetInduction
  <2>2. Len(q) \in Nat
    OBVIOUS
  <2> QED BY <2>1, <2>2
<1> DEFINE f == CHOOSE f : f = Next1(f, Len(q))
<1>4. f = Next1(f, Len(q))
  BY <1>3
<1>5. /\ DOMAIN f = 0 .. Len(q) /\ f[0] = 0
      /\ \A i \in 1 .. Len(q) : f[i] = f[i - 1] + q[i]
  <2> HIDE DEF f
  <2> QED BY <1>4
<1>6. \A i \in 0 .. Len(q) : f[i] \in Nat
  <2> DEFINE T == {i \in Nat : i \in 0 .. Len(q) => f[i] \in Nat}
  <2> HIDE DEF f
  <2>1. 0 \in T
    BY <1>5
  <2>2. ASSUME NEW i \in Nat, i \in T PROVE i + 1 \in T
    <3>1. SUFFICES ASSUME i + 1 \in 0 .. Len(q) PROVE f[i + 1] \in Nat
      OBVIOUS
    <3>2. i \in 0 .. Len(q) /\ i + 1 \in 1 .. Len(q) /\ (i + 1) - 1 = i
      BY <3>1
    <3>3. f[i] \in Nat /\ q[i + 1] \in Nat
      BY <2>2, <3>2, ElementOfSeq
    <3> QED BY <1>5, <3>2, <3>3
  <2>3. Nat \subseteq T
    <3> HIDE DEF T
    <3> QED BY <2>1, <2>2, SetInduction
  <2> QED BY <2>3
<1>7. f = [i \in 0 .. Len(q) |-> f[i]]
  <2> HIDE DEF f
  <2> QED BY <1>4
<1>8. f \in [0 .. Len(q) -> Nat]
  <2> HIDE DEF f
  <2> QED BY <1>6, <1>7
<1> QED BY <1>5, <1>8

-----------------------------------------------------------------------------
(* Bytes.                                                                  *)

\* The names of bytes, which are also the pointers.
Byte ==
    {"null", "device", "header", "config", "string", "status", "interface_status", "halt",
     "configuration", "interface", "class", "out", "setup", "buffer"}
    \X (Nat \cup Alternates \cup (Nat \X Nat)) \X Nat

\* Bytes from a pointer on, and the pointer behind them.
LEMMA BytesType ==
    ASSUME NEW p \in Byte, NEW n \in Nat
    PROVE  /\ Bytes(p, n) \in Seq(Byte) /\ Len(Bytes(p, n)) = n
           /\ \A i \in 1 .. n : Bytes(p, n)[i] = <<p[1], p[2], p[3] + i>>
           /\ Behind(p, n) \in Byte
<1>1. \A i \in Nat : <<p[1], p[2], p[3] + i>> \in Byte
  BY DEF Byte
<1>2. Bytes(p, n) \in [1 .. n -> Byte]
  BY <1>1 DEF Bytes
<1>3. Bytes(p, n) \in Seq(Byte)
  BY <1>2, SeqDef
<1>4. Len(Bytes(p, n)) = n
  BY <1>2, <1>3
<1>5. \A i \in 1 .. n : Bytes(p, n)[i] = <<p[1], p[2], p[3] + i>>
  BY DEF Bytes
<1>6. Behind(p, n) \in Byte
  BY <1>1 DEF Behind
<1> QED BY <1>3, <1>4, <1>5, <1>6

\* Bytes sent in two parts.
LEMMA BytesSplit ==
    ASSUME NEW p \in Byte, NEW m \in Nat, NEW n \in Nat, m <= n
    PROVE  Bytes(p, n) = Bytes(p, m) \o Bytes(Behind(p, m), n - m)
<1> DEFINE a == Bytes(p, m)
           b == Bytes(Behind(p, m), n - m)
<1>1. /\ a \in Seq(Byte) /\ Len(a) = m
      /\ \A i \in 1 .. m : a[i] = <<p[1], p[2], p[3] + i>>
      /\ Behind(p, m) \in Byte
  BY BytesType
<1>2. n - m \in Nat
  OBVIOUS
<1>3. /\ b \in Seq(Byte) /\ Len(b) = n - m
      /\ \A i \in 1 .. n - m : b[i] = <<Behind(p, m)[1], Behind(p, m)[2], Behind(p, m)[3] + i>>
  BY <1>1, <1>2, BytesType
<1>4. Behind(p, m)[1] = p[1] /\ Behind(p, m)[2] = p[2] /\ Behind(p, m)[3] = p[3] + m
  BY DEF Behind
<1>5. p[3] \in Nat
  BY DEF Byte
<1>6. /\ Bytes(p, n) \in Seq(Byte) /\ Len(Bytes(p, n)) = n
      /\ \A i \in 1 .. n : Bytes(p, n)[i] = <<p[1], p[2], p[3] + i>>
  BY BytesType
<1> HIDE DEF a, b
<1>7. /\ a \o b \in Seq(Byte) /\ Len(a \o b) = m + (n - m)
      /\ \A i \in 1 .. m + (n - m) : (a \o b)[i] = IF i <= m THEN a[i] ELSE b[i - m]
  <2>1. /\ a \o b \in Seq(Byte) /\ Len(a \o b) = Len(a) + Len(b)
        /\ \A i \in 1 .. Len(a) + Len(b) :
               (a \o b)[i] = IF i <= Len(a) THEN a[i] ELSE b[i - Len(a)]
    BY <1>1, <1>3, ConcatProperties
  <2> QED BY <1>1, <1>3, <2>1
<1>8. ASSUME NEW i \in 1 .. n PROVE Bytes(p, n)[i] = (a \o b)[i]
  <2>1. CASE i <= m
    <3>1. i \in 1 .. m /\ i \in 1 .. m + (n - m)
      BY <2>1
    <3> QED BY <1>1, <1>6, <1>7, <2>1, <3>1
  <2>2. CASE ~(i <= m)
    <3>1. i - m \in 1 .. n - m /\ (p[3] + m) + (i - m) = p[3] + i /\ i \in 1 .. m + (n - m)
      BY <1>5, <2>2
    <3>2. b[i - m] = <<p[1], p[2], (p[3] + m) + (i - m)>>
      BY <1>3, <1>4, <3>1
    <3> QED BY <1>6, <1>7, <2>2, <3>1, <3>2
  <2> QED BY <2>1, <2>2
<1>9. m + (n - m) = n
  OBVIOUS
<1>10. Bytes(p, n) = a \o b
  BY <1>6, <1>7, <1>8, <1>9, SeqEqual
<1> QED BY <1>10 DEF a, b

-----------------------------------------------------------------------------
(* The sections of a configuration.                                        *)

\* How many there are, and the size of section k, which is counted from 0.
NumSections(c) == Len(Configs[c + 1])
Size(c, k) == Configs[c + 1][k + 1]

\* The sizes and the places where the sections start.
LEMMA StartFacts ==
    ASSUME NEW c \in 0 .. Len(Configs) - 1
    PROVE  /\ c \in Nat /\ c + 1 \in DOMAIN Configs /\ NumSections(c) \in Nat \ {0}
           /\ \A k \in 0 .. NumSections(c) - 1 : Size(c, k) \in Nat
           /\ Size(c, 0) >= ConfDescSize
           /\ SectionStart[c][0] = 0
           /\ \A k \in 0 .. NumSections(c) : SectionStart[c][k] \in Nat
           /\ \A k \in 0 .. NumSections(c) - 1 :
                  SectionStart[c][k + 1] = SectionStart[c][k] + Size(c, k)
<1>1. /\ c \in Nat /\ c + 1 \in 1 .. Len(Configs) /\ c + 1 \in DOMAIN Configs
      /\ Configs[c + 1] \in Seq(Nat)
  BY SizesAssumption
<1>2. Configs[c + 1] # << >> /\ Configs[c + 1][1] >= ConfDescSize
  BY <1>1, SizesAssumption
<1>3. Len(Configs[c + 1]) \in Nat \ {0}
  BY <1>1, <1>2, EmptySeq
<1> DEFINE q == Configs[c + 1]
<1>4. SectionStart[c] =
          CHOOSE f : f = [i \in 0 .. Len(q) |-> IF i = 0 THEN 0 ELSE f[i - 1] + q[i]]
  BY DEF SectionStart
<1> HIDE DEF q
<1>5. /\ SectionStart[c] \in [0 .. Len(q) -> Nat] /\ SectionStart[c][0] = 0
      /\ \A i \in 1 .. Len(q) : SectionStart[c][i] = SectionStart[c][i - 1] + q[i]
  BY <1>1, <1>4, Sums DEF q
<1>6. ASSUME NEW k \in 0 .. Len(q) - 1
      PROVE  SectionStart[c][k + 1] = SectionStart[c][k] + q[k + 1] /\ q[k + 1] \in Nat
  <2>1. k + 1 \in 1 .. Len(q) /\ (k + 1) - 1 = k
    BY <1>3 DEF q
  <2>2. q[k + 1] \in Nat
    BY <1>1, <2>1, ElementOfSeq DEF q
  <2> QED BY <1>5, <2>1, <2>2
<1>7. Size(c, 0) = q[1]
  BY DEF Size, q
<1> QED BY <1>1, <1>2, <1>3, <1>5, <1>6, <1>7 DEF q, NumSections, Size

\* A later section starts no earlier.
LEMMA StartGrows ==
    ASSUME NEW c \in 0 .. Len(Configs) - 1
    PROVE  \A k \in 0 .. NumSections(c) : \A j \in 0 .. k :
               SectionStart[c][j] <= SectionStart[c][k]
<1> DEFINE L == NumSections(c)
           start == SectionStart[c]
           S == {k \in Nat : k <= L => \A j \in 0 .. k : start[j] <= start[k]}
<1>1. /\ L \in Nat /\ \A k \in 0 .. L : start[k] \in Nat
      /\ \A k \in 0 .. L - 1 : start[k + 1] = start[k] + Size(c, k) /\ Size(c, k) \in Nat
  BY StartFacts
<1> HIDE DEF L, start
<1>2. 0 \in S
  BY <1>1
<1>3. ASSUME NEW k \in Nat, k \in S PROVE k + 1 \in S
  <2>1. SUFFICES ASSUME k + 1 <= L, NEW j \in 0 .. k + 1 PROVE start[j] <= start[k + 1]
    OBVIOUS
  <2>2. k \in 0 .. L - 1 /\ k \in 0 .. L /\ k + 1 \in 0 .. L /\ k + 1 \in 1 .. L
    BY <1>1, <2>1
  <2>3. Size(c, k) \in Nat
    BY <1>1, <2>2
  <2>4. start[k] <= start[k + 1] /\ start[k] \in Nat /\ start[k + 1] \in Nat
    BY <1>1, <2>2, <2>3
  <2>5. CASE j = k + 1
    BY <2>4, <2>5
  <2>6. CASE j # k + 1
    <3>1. j \in 0 .. k /\ j \in 0 .. L
      BY <1>1, <2>1, <2>6
    <3>2. start[j] <= start[k] /\ start[j] \in Nat
      BY <1>1, <1>3, <2>1, <2>2, <3>1
    <3> QED BY <2>4, <3>2
  <2> QED BY <2>5, <2>6
<1>4. Nat \subseteq S
  <2> HIDE DEF S
  <2> QED BY <1>2, <1>3, SetInduction
<1>5. \A k \in 0 .. L : \A j \in 0 .. k : start[j] <= start[k]
  BY <1>1, <1>4
<1> QED BY <1>5 DEF L, start

\* Every byte of the configuration lies in a section.
LEMMA SectionExists ==
    ASSUME NEW c \in 0 .. Len(Configs) - 1, NEW i \in 1 .. TotalLength(c)
    PROVE  \E j \in 0 .. NumSections(c) - 1 :
               SectionStart[c][j] < i /\ i <= SectionStart[c][j + 1]
<1> DEFINE L == NumSections(c)
           start == SectionStart[c]
           In(k) == \E j \in 0 .. k - 1 : start[j] < i /\ i <= start[j + 1]
           S == {k \in Nat : k <= L /\ i <= start[k] => In(k)}
<1>1. /\ L \in Nat /\ (\A k \in 0 .. L : start[k] \in Nat) /\ start[0] = 0
      /\ i <= start[L] /\ i \in Int
  BY StartFacts DEF TotalLength, NumSections
<1> HIDE DEF L, start
<1>2. 0 \in S
  BY <1>1
<1>3. ASSUME NEW k \in Nat, k \in S PROVE k + 1 \in S
  <2>1. SUFFICES ASSUME k + 1 <= L, i <= start[k + 1] PROVE In(k + 1)
    OBVIOUS
  <2>2. k \in 0 .. L /\ k + 1 \in 0 .. L
    BY <1>1, <2>1
  <2>3. CASE i <= start[k]
    <3>1. In(k)
      BY <1>1, <1>3, <2>1, <2>3
    <3> QED BY <3>1
  <2>4. CASE ~(i <= start[k])
    <3>1. start[k] < i /\ k \in 0 .. (k + 1) - 1
      BY <1>1, <2>2, <2>4
    <3> QED BY <2>1, <3>1
  <2> QED BY <2>3, <2>4
<1>4. Nat \subseteq S
  <2> HIDE DEF S
  <2> QED BY <1>2, <1>3, SetInduction
<1>5. In(L)
  BY <1>1, <1>4
<1> QED BY <1>5 DEF L, start

\* And in one section only.
LEMMA SectionUnique ==
    ASSUME NEW c \in 0 .. Len(Configs) - 1, NEW i \in Nat,
           NEW j \in 0 .. NumSections(c) - 1, NEW k \in 0 .. NumSections(c) - 1,
           SectionStart[c][j] < i, i <= SectionStart[c][j + 1],
           SectionStart[c][k] < i, i <= SectionStart[c][k + 1]
    PROVE  j = k
<1> DEFINE L == NumSections(c)
           start == SectionStart[c]
<1>1. L \in Nat /\ \A n \in 0 .. L : start[n] \in Nat
  BY StartFacts
<1>2. \A n \in 0 .. L : \A m \in 0 .. n : start[m] <= start[n]
  BY StartGrows
<1>3. /\ j \in 0 .. L - 1 /\ k \in 0 .. L - 1
      /\ start[j] < i /\ i <= start[j + 1] /\ start[k] < i /\ i <= start[k + 1]
  OBVIOUS
<1> HIDE DEF L, start
<1>4. /\ j \in 0 .. L /\ k \in 0 .. L /\ j + 1 \in 0 .. L /\ k + 1 \in 0 .. L
      /\ start[j] \in Nat /\ start[k] \in Nat /\ start[j + 1] \in Nat /\ start[k + 1] \in Nat
  BY <1>1, <1>3
<1>5. ~(j < k)
  <2>1. SUFFICES ASSUME j < k PROVE FALSE
    OBVIOUS
  <2>2. j + 1 \in 0 .. k
    BY <1>3, <2>1
  <2>3. start[j + 1] <= start[k]
    BY <1>2, <1>4, <2>2
  <2> QED BY <1>3, <1>4, <2>3
<1>6. ~(k < j)
  <2>1. SUFFICES ASSUME k < j PROVE FALSE
    OBVIOUS
  <2>2. k + 1 \in 0 .. j
    BY <1>3, <2>1
  <2>3. start[k + 1] <= start[j]
    BY <1>2, <1>4, <2>2
  <2> QED BY <1>3, <1>4, <2>3
<1> QED BY <1>3, <1>5, <1>6

\* Byte i of a configuration, when it is not of the header: its place in its section.
LEMMA ConfigByteIs ==
    ASSUME NEW c \in 0 .. Len(Configs) - 1, NEW i \in 1 .. TotalLength(c), i > ConfDescSize,
           NEW k \in 0 .. NumSections(c) - 1,
           SectionStart[c][k] < i, i <= SectionStart[c][k + 1]
    PROVE  ConfigBytes[c][i] = <<"config", <<c, k>>, i - SectionStart[c][k]>>
<1> DEFINE In(j) == SectionStart[c][j] < i /\ i <= SectionStart[c][j + 1]
           found == CHOOSE j \in 0 .. NumSections(c) - 1 : In(j)
<1>1. i \in Nat /\ ConfDescSize \in Nat
  BY SizesAssumption
<1>2. found \in 0 .. NumSections(c) - 1 /\ In(found)
  OBVIOUS
<1>3. found = k
  <2> HIDE DEF found
  <2> QED BY <1>1, <1>2, SectionUnique
<1>4. ConfigBytes[c][i] = IF i <= ConfDescSize THEN <<"header", c, i>>
                          ELSE <<"config", <<c, found>>, i - SectionStart[c][found]>>
  BY DEF ConfigBytes, NumSections
<1> HIDE DEF found
<1> QED BY <1>1, <1>3, <1>4

\* A configuration is its header and at least as many bytes as that.
LEMMA ConfigType ==
    ASSUME NEW c \in 0 .. Len(Configs) - 1
    PROVE  /\ TotalLength(c) \in Nat /\ TotalLength(c) >= ConfDescSize
           /\ TotalLength(c) = SectionStart[c][NumSections(c)]
           /\ ConfigBytes[c] \in Seq(Byte) /\ Len(ConfigBytes[c]) = TotalLength(c)
           /\ \A i \in 1 .. ConfDescSize : ConfigBytes[c][i] = <<"header", c, i>>
<1> DEFINE L == NumSections(c)
           start == SectionStart[c]
           n == TotalLength(c)
           b == ConfigBytes[c]
<1>1. /\ L \in Nat \ {0} /\ (\A k \in 0 .. L : start[k] \in Nat) /\ start[0] = 0 /\ c \in Nat
      /\ Size(c, 0) >= ConfDescSize
      /\ \A k \in 0 .. L - 1 : start[k + 1] = start[k] + Size(c, k) /\ Size(c, k) \in Nat
  BY StartFacts
<1>2. ConfDescSize \in Nat
  BY SizesAssumption
<1>3. n = start[L] /\ n \in Nat
  <2>1. n = start[L]
    BY DEF TotalLength, NumSections
  <2> HIDE DEF n, start, L
  <2> QED BY <1>1, <2>1
<1>4. n >= ConfDescSize
  <2>1. \A k \in 0 .. L : \A j \in 0 .. k : start[j] <= start[k]
    BY StartGrows
  <2> HIDE DEF n, start, L
  <2>2. L \in 0 .. L /\ 1 \in 0 .. L /\ 0 \in 0 .. L - 1 /\ 0 + 1 = 1
    BY <1>1
  <2>3. start[1] <= start[L] /\ start[1] = start[0] + Size(c, 0) /\ Size(c, 0) \in Nat
    BY <1>1, <2>1, <2>2
  <2> QED BY <1>1, <1>2, <1>3, <2>2, <2>3
<1>5. ASSUME NEW i \in 1 .. n PROVE b[i] \in Byte
  <2>1. CASE i <= ConfDescSize
    <3>1. b[i] = <<"header", c, i>>
      BY <2>1 DEF ConfigBytes
    <3> QED BY <1>1, <1>3, <3>1 DEF Byte
  <2>2. CASE ~(i <= ConfDescSize)
    <3>1. PICK k \in 0 .. L - 1 : start[k] < i /\ i <= start[k + 1]
      BY SectionExists
    <3>2. b[i] = <<"config", <<c, k>>, i - start[k]>>
      <4>1. i > ConfDescSize
        BY <1>2, <1>3, <2>2
      <4> QED BY <3>1, <4>1, ConfigByteIs
    <3> HIDE DEF n, start, L, b
    <3>3. k \in 0 .. L /\ start[k] \in Nat /\ i - start[k] \in Nat /\ k \in Nat
      BY <1>1, <1>3, <3>1, SMTT(30)
    <3>4. c \in Nat
      BY <1>1
    <3> QED BY <3>2, <3>3, <3>4 DEF Byte
  <2> QED BY <2>1, <2>2
<1>6. b = [i \in 1 .. n |-> b[i]]
  BY DEF ConfigBytes
<1>7. b \in [1 .. n -> Byte]
  <2> HIDE DEF b, n
  <2> QED BY <1>5, <1>6
<1>8. b \in Seq(Byte)
  BY <1>3, <1>7, SeqDef
<1>9. Len(b) = n
  BY <1>3, <1>7, <1>8
<1>10. \A i \in 1 .. ConfDescSize : b[i] = <<"header", c, i>>
  BY <1>2, <1>3, <1>4 DEF ConfigBytes
<1> QED BY <1>3, <1>4, <1>8, <1>9, <1>10

\* A place in a configuration: offset o of section k, or its end; and the number of
\* bytes before it.
Place(c, k, o) ==
    /\ c \in 0 .. Len(Configs) - 1 /\ k \in 0 .. NumSections(c) /\ o \in Nat
    /\ IF k = NumSections(c) THEN o = 0 ELSE o <= Configs[c + 1][k + 1]
Position(c, k, o) == SectionStart[c][k] + o

\* The bytes between two positions of a configuration.
Between(c, m, n) == SubSeq(ConfigBytes[c], m + 1, n)

\* No place is behind the end.
LEMMA PlaceFacts ==
    ASSUME NEW c, NEW k, NEW o, Place(c, k, o)
    PROVE  /\ Position(c, k, o) \in 0 .. TotalLength(c)
           /\ k = NumSections(c) => Position(c, k, o) = TotalLength(c)
           /\ k # NumSections(c) => Position(c, k, o) <= SectionStart[c][k + 1]
                                    /\ SectionStart[c][k + 1] <= TotalLength(c)
<1> DEFINE L == NumSections(c)
           start == SectionStart[c]
<1>1. c \in 0 .. Len(Configs) - 1 /\ k \in 0 .. L /\ o \in Nat
      /\ IF k = L THEN o = 0 ELSE o <= Size(c, k)
  BY DEF Place, NumSections, Size
<1>2. /\ L \in Nat \ {0} /\ \A j \in 0 .. L : start[j] \in Nat
      /\ \A j \in 0 .. L - 1 : start[j + 1] = start[j] + Size(c, j) /\ Size(c, j) \in Nat
  BY <1>1, StartFacts
<1>3. TotalLength(c) = start[L]
  BY <1>1, ConfigType
<1>4. \A n \in 0 .. L : \A j \in 0 .. n : start[j] <= start[n]
  BY <1>1, StartGrows
<1>5. Position(c, k, o) = start[k] + o
  BY DEF Position
<1> HIDE DEF L, start
<1>6. CASE k = L
  <2>1. start[k] \in Nat
    BY <1>1, <1>2
  <2> QED BY <1>1, <1>3, <1>5, <1>6, <2>1 DEF L
<1>7. CASE k # L
  <2>1. k \in 0 .. L - 1 /\ k + 1 \in 0 .. L /\ k \in 0 .. L /\ L \in 0 .. L
    BY <1>1, <1>2, <1>7
  <2>2. start[k + 1] = start[k] + Size(c, k) /\ Size(c, k) \in Nat
    BY <1>2, <2>1
  <2>3. start[k + 1] <= start[L] /\ start[k] \in Nat /\ start[L] \in Nat /\ start[k + 1] \in Nat
    BY <1>2, <1>4, <2>1
  <2>4. start[k] + o <= start[k + 1]
    BY <1>1, <1>7, <2>2, <2>3
  <2>5. start[k] + o \in 0 .. start[L]
    BY <1>1, <2>3, <2>4
  <2> QED BY <1>3, <1>5, <1>7, <2>3, <2>4, <2>5 DEF L, start
<1> QED BY <1>6, <1>7

\* A stretch that stays in a section is read from the section.
LEMMA InSection ==
    ASSUME NEW c, NEW k, NEW o, Place(c, k, o), k # NumSections(c), NEW m \in Nat,
           o + m <= Configs[c + 1][k + 1], m = 0 \/ Position(c, k, o) >= ConfDescSize
    PROVE  /\ Bytes(SectionAt(c, k, o), m) \in Seq(ConfigByte)
           /\ Bytes(SectionAt(c, k, o), m) = Between(c, Position(c, k, o), Position(c, k, o) + m)
<1> DEFINE L == NumSections(c)
           start == SectionStart[c]
           P == Position(c, k, o)
           b == Bytes(SectionAt(c, k, o), m)
<1>1. c \in 0 .. Len(Configs) - 1 /\ k \in 0 .. L /\ k # L /\ o \in Nat /\ o + m <= Size(c, k)
  BY DEF Place, NumSections, Size
<1>2. /\ L \in Nat \ {0} /\ (\A j \in 0 .. L : start[j] \in Nat) /\ c \in Nat
      /\ \A j \in 0 .. L - 1 : start[j + 1] = start[j] + Size(c, j) /\ Size(c, j) \in Nat
  BY <1>1, StartFacts
<1>3. P \in 0 .. TotalLength(c) /\ start[k + 1] <= TotalLength(c)
  BY PlaceFacts
<1>4. P = start[k] + o
  BY DEF Position
<1>5. /\ k \in 0 .. L - 1 /\ k \in Nat /\ start[k] \in Nat /\ start[k + 1] \in Nat
      /\ P + m <= start[k + 1] /\ P \in Nat
  <2> HIDE DEF L, start, P
  <2>1. k \in 0 .. L - 1 /\ k + 1 \in 0 .. L
    BY <1>1, <1>2
  <2>2. start[k] \in Nat /\ start[k + 1] \in Nat /\ start[k + 1] = start[k] + Size(c, k)
        /\ Size(c, k) \in Nat
    BY <1>1, <1>2, <2>1
  <2>3. o \in Nat /\ o + m <= Size(c, k)
    BY <1>1
  <2>4. k \in Nat /\ P \in Nat /\ P + m <= start[k + 1]
    BY <1>4, <2>1, <2>2, <2>3
  <2> QED BY <2>1, <2>2, <2>4
<1>6. TotalLength(c) \in Nat /\ ConfigBytes[c] \in Seq(Byte)
      /\ Len(ConfigBytes[c]) = TotalLength(c)
  BY <1>1, ConfigType
<1>7. b = [i \in 1 .. m |-> <<"config", <<c, k>>, o + i>>]
  BY DEF Bytes, SectionAt
<1>8. \A i \in 1 .. m : <<"config", <<c, k>>, o + i>> \in ConfigByte
  <2>1. c \in Nat /\ k \in Nat /\ o \in Nat
    BY <1>1, <1>2, <1>5
  <2>2. \A i \in 1 .. m : o + i \in Nat
    BY <2>1
  <2> QED BY <2>1, <2>2 DEF ConfigByte
<1>9. b \in [1 .. m -> ConfigByte]
  <2> HIDE DEF b
  <2> QED BY <1>7, <1>8
<1>10. b \in Seq(ConfigByte) /\ Len(b) = m
  <2>1. b \in Seq(ConfigByte)
    BY <1>9, SeqDef
  <2> QED BY <1>9, <2>1
<1>11. SectionAt(c, k, o) \in Byte
  BY <1>1, <1>2, <1>5 DEF SectionAt, Byte
<1>12. b \in Seq(Byte)
  BY <1>11, BytesType
<1> HIDE DEF b, P, L, start
<1>13. /\ Between(c, P, P + m) \in Seq(Byte) /\ Len(Between(c, P, P + m)) = m
       /\ \A i \in 1 .. m : Between(c, P, P + m)[i] = ConfigBytes[c][P + i]
  <2>1. \A i \in P + 1 .. P + m : ConfigBytes[c][i] \in Byte
    <3>1. TAKE i \in P + 1 .. P + m
    <3>2. i \in 1 .. TotalLength(c)
      BY <1>3, <1>5, <1>6
    <3> QED BY <1>6, <3>2, ElementOfSeq
  <2>2. P + 1 \in Int /\ P + m \in Int
    BY <1>5
  <2>3. /\ Between(c, P, P + m) \in Seq(Byte)
        /\ Len(Between(c, P, P + m)) = IF P + 1 <= P + m THEN (P + m) - (P + 1) + 1 ELSE 0
        /\ \A i \in 1 .. (P + m) - (P + 1) + 1 :
               Between(c, P, P + m)[i] = ConfigBytes[c][(P + 1) + i - 1]
    BY <2>1, <2>2, SubSeqProperties DEF Between
  <2>4. ASSUME NEW i \in 1 .. m PROVE Between(c, P, P + m)[i] = ConfigBytes[c][P + i]
    <3>1. i \in 1 .. (P + m) - (P + 1) + 1 /\ (P + 1) + i - 1 = P + i
      BY <1>5
    <3> QED BY <2>3, <3>1
  <2> QED BY <1>5, <2>3, <2>4
<1>14. ASSUME NEW i \in 1 .. m PROVE b[i] = Between(c, P, P + m)[i]
  <2>1. P >= ConfDescSize /\ ConfDescSize \in Nat
    <3>1. m # 0
      OBVIOUS
    <3> QED BY <3>1, SizesAssumption DEF P
  <2>2. /\ P + i \in 1 .. TotalLength(c) /\ P + i > ConfDescSize
        /\ start[k] < P + i /\ P + i <= start[k + 1] /\ (P + i) - start[k] = o + i
    <3>1. i \in Nat /\ i >= 1 /\ i <= m
      OBVIOUS
    <3>2. P + i \in 1 .. TotalLength(c) /\ P + i > ConfDescSize
      BY <1>3, <1>5, <1>6, <2>1, <3>1
    <3>3. start[k] < P + i /\ (P + i) - start[k] = o + i
      <4>1. o \in Nat /\ start[k] \in Nat /\ P = start[k] + o
        BY <1>1, <1>4, <1>5
      <4> QED BY <3>1, <4>1
    <3>4. P + i <= start[k + 1]
      <4>1. P \in Nat /\ start[k + 1] \in Nat /\ P + m <= start[k + 1]
        BY <1>5
      <4> QED BY <3>1, <4>1
    <3> QED BY <3>2, <3>3, <3>4
  <2>3. ConfigBytes[c][P + i] = <<"config", <<c, k>>, (P + i) - start[k]>>
    BY <1>1, <1>5, <2>2, ConfigByteIs DEF L, start
  <2>4. b[i] = <<"config", <<c, k>>, o + i>>
    BY <1>7
  <2> QED BY <1>13, <2>2, <2>3, <2>4
<1>15. b = Between(c, P, P + m)
  BY <1>10, <1>12, <1>13, <1>14, SeqEqual
<1> QED BY <1>10, <1>15 DEF b, P

\* A sequence of stretches: neighbours make one.
LEMMA BetweenFacts ==
    ASSUME NEW c \in 0 .. Len(Configs) - 1, NEW m \in Nat, NEW n \in Nat, m <= n,
           n <= TotalLength(c)
    PROVE  /\ Between(c, m, n) \in Seq(Byte) /\ Len(Between(c, m, n)) = n - m
           /\ Between(c, m, m) = << >>
           /\ \A i \in m .. n : Between(c, m, n) = Between(c, m, i) \o Between(c, i, n)
<1>1. TotalLength(c) \in Nat /\ ConfigBytes[c] \in Seq(Byte)
      /\ Len(ConfigBytes[c]) = TotalLength(c)
  BY ConfigType
<1>2. \A i \in m + 1 .. n : ConfigBytes[c][i] \in Byte
  <2>1. TAKE i \in m + 1 .. n
  <2>2. i \in 1 .. TotalLength(c)
    BY <1>1
  <2> QED BY <1>1, <2>2, ElementOfSeq
<1>3. /\ Between(c, m, n) \in Seq(Byte)
      /\ Len(Between(c, m, n)) = IF m + 1 <= n THEN n - (m + 1) + 1 ELSE 0
  <2>1. m + 1 \in Int /\ n \in Int
    OBVIOUS
  <2> QED BY <1>2, <2>1, SubSeqProperties DEF Between
<1>4. Len(Between(c, m, n)) = n - m
  BY <1>3
<1>5. Between(c, m, m) = << >>
  <2>1. m + 1 \in Int /\ m \in Int /\ m < m + 1
    OBVIOUS
  <2> QED BY <2>1, SubSeqEmpty DEF Between
<1>6. ASSUME NEW i \in m .. n PROVE Between(c, m, n) = Between(c, m, i) \o Between(c, i, n)
  <2> DEFINE s == ConfigBytes[c]
  <2>1. /\ m + 1 \in 1 .. Len(s) + 1 /\ i \in (m + 1) - 1 .. Len(s) /\ n \in i .. Len(s)
    BY <1>1
  <2>2. s \in Seq(Byte)
    BY <1>1
  <2> HIDE DEF s
  <2>3. SubSeq(s, m + 1, i) \o SubSeq(s, i + 1, n) = SubSeq(s, m + 1, n)
    BY <2>1, <2>2, ConcatAdjacentSubSeq
  <2> QED BY <2>3 DEF Between, s
<1> QED BY <1>3, <1>4, <1>5, <1>6

\* A turn of the loop that sends something.
LEMMA TurnFacts ==
    ASSUME NEW c, NEW k, NEW o, Place(c, k, o), NEW n \in Nat \ {0},
           Position(c, k, o) + n <= TotalLength(c), Position(c, k, o) >= ConfDescSize,
           NEW sent \in Seq(ConfigByte)
    PROVE  \E k1, o1, m :
               /\ SendSection(c)[<<k, o, n, sent>>] =
                      <<k1, o1, n - m, sent \o Between(c, Position(c, k, o),
                                                       Position(c, k, o) + m)>>
               /\ Place(c, k1, o1) /\ m \in 0 .. n /\ (m = n \/ k1 = k + 1)
               /\ Position(c, k1, o1) = Position(c, k, o) + m
               /\ sent \o Between(c, Position(c, k, o), Position(c, k, o) + m)
                      \in Seq(ConfigByte)
<1> DEFINE L == NumSections(c)
           start == SectionStart[c]
           P == Position(c, k, o)
           m == Least(Size(c, k) - o, n)
           more == sent \o Bytes(SectionAt(c, k, o), m)
<1>1. c \in 0 .. Len(Configs) - 1 /\ k \in 0 .. L /\ o \in Nat
      /\ IF k = L THEN o = 0 ELSE o <= Size(c, k)
  BY DEF Place, NumSections, Size
<1>2. /\ L \in Nat \ {0} /\ (\A j \in 0 .. L : start[j] \in Nat) /\ c \in Nat
      /\ \A j \in 0 .. L - 1 : start[j + 1] = start[j] + Size(c, j) /\ Size(c, j) \in Nat
  BY <1>1, StartFacts
<1>3. P \in 0 .. TotalLength(c) /\ TotalLength(c) \in Nat /\ k # L
  <2>1. TotalLength(c) \in Nat
    BY <1>1, ConfigType
  <2>2. P \in 0 .. TotalLength(c) /\ (k = L => P = TotalLength(c))
    BY PlaceFacts
  <2>3. P + n <= TotalLength(c)
    OBVIOUS
  <2> HIDE DEF P, L
  <2> QED BY <2>1, <2>2, <2>3
<1>4. /\ k \in 0 .. L - 1 /\ Size(c, k) \in Nat /\ k + 1 \in 0 .. L /\ start[k] \in Nat
      /\ start[k + 1] = start[k] + Size(c, k)
  <2> HIDE DEF L, start
  <2> QED BY <1>1, <1>2, <1>3
<1>5. m \in Nat /\ m <= n /\ o + m <= Size(c, k) /\ (m = n \/ o + m = Size(c, k))
  BY <1>1, <1>3, <1>4, SMTT(30) DEF Least
<1>6. SendSection(c)[<<k, o, n, sent>>] =
          IF o + m = Size(c, k) THEN <<k + 1, 0, n - m, more>>
          ELSE <<k, o + m, n - m, more>>
  <2> DEFINE x == <<k, o, n, sent>>
             S == (0 .. L) \X Nat \X Nat \X Seq(ConfigByte)
  <2>1. x \in S /\ x[1] = k /\ x[2] = o /\ x[3] = n /\ x[4] = sent
    <3> HIDE DEF L
    <3> QED BY <1>1
  <2>2. SendSection(c)[x] =
            IF x[3] = 0 THEN x
            ELSE IF x[2] + Least(Size(c, x[1]) - x[2], x[3]) = Size(c, x[1])
                 THEN <<x[1] + 1, 0, x[3] - Least(Size(c, x[1]) - x[2], x[3]),
                        x[4] \o Bytes(SectionAt(c, x[1], x[2]), Least(Size(c, x[1]) - x[2], x[3]))>>
            ELSE <<x[1], x[2] + Least(Size(c, x[1]) - x[2], x[3]),
                   x[3] - Least(Size(c, x[1]) - x[2], x[3]),
                   x[4] \o Bytes(SectionAt(c, x[1], x[2]), Least(Size(c, x[1]) - x[2], x[3]))>>
    <3> HIDE DEF x
    <3> QED BY <2>1 DEF SendSection, NumSections, Size
  <2> HIDE DEF x
  <2> QED BY <2>1, <2>2 DEF x
<1>7. /\ Bytes(SectionAt(c, k, o), m) \in Seq(ConfigByte)
      /\ Bytes(SectionAt(c, k, o), m) = Between(c, P, P + m)
  <2>1. o + m <= Configs[c + 1][k + 1]
    BY <1>5 DEF Size
  <2> HIDE DEF m
  <2> QED BY <1>3, <1>5, <2>1, InSection
<1>8. more \in Seq(ConfigByte) /\ more = sent \o Between(c, P, P + m)
  <2> HIDE DEF m, P
  <2> QED BY <1>7, ConcatProperties
<1> HIDE DEF m, more, L, start
<1>9. CASE o + m = Size(c, k)
  <2>1. Place(c, k + 1, 0)
    <3>1. k + 1 \in 0 .. L - 1 => Size(c, k + 1) \in Nat
      BY <1>2
    <3>2. k + 1 # L => k + 1 \in 0 .. L - 1
      BY <1>2, <1>4
    <3> QED BY <1>1, <1>4, <3>1, <3>2 DEF Place, L, NumSections, Size
  <2>2. Position(c, k + 1, 0) = P + m
    BY <1>1, <1>4, <1>5, <1>9 DEF Position, start
  <2>3. SendSection(c)[<<k, o, n, sent>>] = <<k + 1, 0, n - m, sent \o Between(c, P, P + m)>>
    BY <1>6, <1>8, <1>9
  <2>4. m \in 0 .. n
    BY <1>5
  <2> HIDE DEF P
  <2> QED BY <1>8, <2>1, <2>2, <2>3, <2>4 DEF P
<1>10. CASE o + m # Size(c, k)
  <2>1. Place(c, k, o + m)
    BY <1>1, <1>3, <1>4, <1>5 DEF Place, L, NumSections, Size
  <2>2. Position(c, k, o + m) = P + m
    BY <1>1, <1>4, <1>5 DEF Position, start
  <2>3. SendSection(c)[<<k, o, n, sent>>] = <<k, o + m, n - m, sent \o Between(c, P, P + m)>>
    BY <1>6, <1>8, <1>10
  <2>4. m \in 0 .. n /\ m = n
    BY <1>5, <1>10
  <2> HIDE DEF P
  <2> QED BY <1>8, <2>1, <2>2, <2>3, <2>4 DEF P
<1> QED BY <1>9, <1>10

\* The loop sends the next n bytes of the configuration, and comes to the place
\* behind them.
LEMMA LoopFacts ==
    ASSUME NEW c, NEW k, NEW o, Place(c, k, o), NEW n \in Nat,
           Position(c, k, o) + n <= TotalLength(c),
           n = 0 \/ Position(c, k, o) >= ConfDescSize
    PROVE  LET body == SectionBytes(c, k, o, n)
           IN  /\ Place(c, body[1], body[2])
               /\ Position(c, body[1], body[2]) = Position(c, k, o) + n
               /\ body[4] = Between(c, Position(c, k, o), Position(c, k, o) + n)
<1> DEFINE L == NumSections(c)
           P == Position(c, k, o)
           step == SendSection(c)
           first == <<k, o, n, << >>>>
           at == CHOOSE f : f = [i \in 0 .. L |-> IF i = 0 THEN first ELSE step[f[i - 1]]]
           Good(x, i) == \E k1, o1, m, sent :
               /\ x = <<k1, o1, n - m, sent>> /\ m \in 0 .. n
               /\ Place(c, k1, o1) /\ Position(c, k1, o1) = P + m
               /\ sent \in Seq(ConfigByte) /\ sent = Between(c, P, P + m)
               /\ m = n \/ k1 >= i
           S == {i \in Nat : i <= L => Good(at[i], i)}
<1>1. c \in 0 .. Len(Configs) - 1 /\ k \in 0 .. L /\ k \in Nat
  BY StartFacts DEF Place, NumSections
<1>2. L \in Nat /\ TotalLength(c) \in Nat /\ P \in 0 .. TotalLength(c) /\ P \in Nat
  <2>1. L \in Nat /\ TotalLength(c) \in Nat
    BY <1>1, StartFacts, ConfigType
  <2>2. P \in 0 .. TotalLength(c)
    BY PlaceFacts
  <2> HIDE DEF P, L
  <2> QED BY <2>1, <2>2
<1>3. SectionBytes(c, k, o, n) = at[L]
  BY DEF SectionBytes, NumSections
<1>4. at = [i \in 0 .. L |-> IF i = 0 THEN first ELSE step[at[i - 1]]]
  <2>1. L \in Nat
    BY <1>2
  <2> HIDE DEF step, L, first
  <2> QED BY ONLY <2>1, Iterates, SMTT(30)
<1>5. P + n <= TotalLength(c) /\ (n = 0 \/ P >= ConfDescSize)
  OBVIOUS
<1>6. ConfDescSize \in Nat
  BY SizesAssumption
<1> HIDE DEF L, at, P, first, step
<1>7. 0 \in S
  <2>1. at[0] = <<k, o, n - 0, << >>>>
    BY <1>2, <1>4 DEF first
  <2>2. Between(c, P, P + 0) = << >>
    BY <1>1, <1>2, BetweenFacts
  <2>3. Position(c, k, o) = P + 0 /\ 0 \in 0 .. n /\ k >= 0
    BY <1>1, <1>2 DEF P
  <2>4. << >> \in Seq(ConfigByte)
    OBVIOUS
  <2>5. Good(at[0], 0)
    BY <2>1, <2>2, <2>3, <2>4
  <2> QED BY <2>5
<1>8. ASSUME NEW i \in Nat, i \in S PROVE i + 1 \in S
  <2>1. SUFFICES ASSUME i + 1 <= L PROVE Good(at[i + 1], i + 1)
    OBVIOUS
  <2>2. at[i + 1] = step[at[i]]
    <3>1. i + 1 \in 0 .. L /\ i + 1 # 0 /\ (i + 1) - 1 = i
      BY <1>2, <2>1
    <3> QED BY <1>4, <3>1
  <2>3. Good(at[i], i)
    BY <1>2, <1>8, <2>1
  <2>4. PICK k1, o1, m, sent :
            /\ at[i] = <<k1, o1, n - m, sent>> /\ m \in 0 .. n
            /\ Place(c, k1, o1) /\ Position(c, k1, o1) = P + m
            /\ sent \in Seq(ConfigByte) /\ sent = Between(c, P, P + m)
            /\ m = n \/ k1 >= i
    BY <2>3
  <2>5. k1 \in 0 .. L /\ k1 \in Nat /\ o1 \in Nat
    BY <1>2, <2>4 DEF Place, L, NumSections
  <2>6. CASE m = n
    <3>1. n - m = 0
      BY <2>6
    <3> DEFINE x == <<k1, o1, 0, sent>>
    <3>2. step[x] = x
      <4>1. x \in (0 .. L) \X Nat \X Nat \X Seq(ConfigByte) /\ x[3] = 0
        BY <2>4, <2>5
      <4> HIDE DEF x
      <4> QED BY <4>1 DEF SendSection, L, NumSections, step
    <3>3. at[i + 1] = <<k1, o1, n - m, sent>>
      BY <2>2, <2>4, <3>1, <3>2
    <3> QED BY <2>4, <2>6, <3>3
  <2>7. CASE m # n
    <3>1. n - m \in Nat \ {0} /\ m \in Nat /\ n # 0
      BY <2>4, <2>7
    <3>2. (P + m) + (n - m) <= TotalLength(c) /\ P + m >= ConfDescSize
      BY <1>2, <1>5, <1>6, <3>1
    <3>3. PICK k2, o2, m2 :
              /\ step[<<k1, o1, n - m, sent>>] =
                     <<k2, o2, (n - m) - m2, sent \o Between(c, P + m, (P + m) + m2)>>
              /\ Place(c, k2, o2) /\ m2 \in 0 .. n - m /\ (m2 = n - m \/ k2 = k1 + 1)
              /\ Position(c, k2, o2) = (P + m) + m2
              /\ sent \o Between(c, P + m, (P + m) + m2) \in Seq(ConfigByte)
      <4> DEFINE P1 == Position(c, k1, o1)
                 left == n - m
      <4>1. P1 = P + m /\ Place(c, k1, o1) /\ sent \in Seq(ConfigByte)
        BY <2>4
      <4>2. left \in Nat \ {0} /\ P1 + left <= TotalLength(c) /\ P1 >= ConfDescSize
        BY <3>1, <3>2, <4>1
      <4> HIDE DEF left
      <4>3. \E k2, o2, m2 :
              /\ SendSection(c)[<<k1, o1, left, sent>>] =
                     <<k2, o2, left - m2, sent \o Between(c, P1, P1 + m2)>>
              /\ Place(c, k2, o2) /\ m2 \in 0 .. left /\ (m2 = left \/ k2 = k1 + 1)
              /\ Position(c, k2, o2) = P1 + m2
              /\ sent \o Between(c, P1, P1 + m2) \in Seq(ConfigByte)
        BY <4>1, <4>2, TurnFacts
      <4> HIDE DEF P1
      <4> QED BY <4>1, <4>3 DEF step, left
    <3>4. /\ m + m2 \in 0 .. n /\ (n - m) - m2 = n - (m + m2) /\ (P + m) + m2 = P + (m + m2)
          /\ (m + m2 = n \/ k2 >= i + 1)
      <4>1. m2 \in Nat /\ m2 <= n - m
        BY <3>1, <3>3
      <4>2. n \in Nat /\ m \in Nat /\ m <= n /\ P \in Nat /\ k1 \in Nat /\ i \in Nat /\ k1 >= i
        BY <1>2, <2>4, <2>5, <2>7, <3>1
      <4>3. m2 = n - m \/ k2 = k1 + 1
        BY <3>3
      <4> QED BY <4>1, <4>2, <4>3
    <3>5. sent \o Between(c, P + m, (P + m) + m2) = Between(c, P, P + (m + m2))
      <4>1. P \in Nat /\ P + (m + m2) \in Nat /\ P <= P + (m + m2)
            /\ P + (m + m2) <= TotalLength(c) /\ P + m \in P .. P + (m + m2)
        BY <1>2, <1>5, <3>1, <3>3, <3>4
      <4>2. Between(c, P, P + (m + m2)) = Between(c, P, P + m) \o Between(c, P + m, P + (m + m2))
        BY <1>1, <4>1, BetweenFacts
      <4> QED BY <2>4, <3>4, <4>2
    <3>6. at[i + 1] = <<k2, o2, n - (m + m2), Between(c, P, P + (m + m2))>>
      BY <2>2, <2>4, <3>3, <3>4, <3>5
    <3> QED BY <3>3, <3>4, <3>5, <3>6
  <2> QED BY <2>6, <2>7
<1>9. L \in S
  <2> HIDE DEF S
  <2>1. Nat \subseteq S
    BY <1>7, <1>8, SetInduction
  <2> QED BY <1>2, <2>1
<1>10. PICK k1, o1, m, sent :
            /\ at[L] = <<k1, o1, n - m, sent>> /\ m \in 0 .. n
            /\ Place(c, k1, o1) /\ Position(c, k1, o1) = P + m
            /\ sent \in Seq(ConfigByte) /\ sent = Between(c, P, P + m)
            /\ m = n \/ k1 >= L
  BY <1>2, <1>9
<1>11. m = n
  <2>1. SUFFICES ASSUME k1 >= L PROVE m = n
    BY <1>10
  <2>2. k1 \in 0 .. L
    BY <1>10 DEF Place, L, NumSections
  <2>3. k1 = L
    BY <1>2, <2>1, <2>2
  <2>4. P + m = TotalLength(c)
    BY <1>10, <2>3, PlaceFacts DEF L
  <2> QED BY <1>2, <1>5, <1>10, <2>4
<1>12. /\ SectionBytes(c, k, o, n)[1] = k1 /\ SectionBytes(c, k, o, n)[2] = o1
       /\ SectionBytes(c, k, o, n)[4] = sent
  BY <1>3, <1>10
<1> QED BY <1>10, <1>11, <1>12 DEF P

-----------------------------------------------------------------------------
(* What is always so.  s stands for <<inst, csr, class>> as one record, as *)
(* the handlers take it, i for inst, h for host and r for a request.       *)

Dev == [inst |-> inst, csr |-> csr, class |-> class]

Inst ==
    [eEP0State : {"IDLE", "TX", "TX_CONFIG", "RX", "STATUS", "STALL"},
     ulDevAddress : Nat, pending : BOOLEAN, ulConfiguration : 0 .. Len(Configs),
     altSetting : Alternates, pEP0Data : Byte, ulEP0DataRemain : Nat, ulOUTDataSize : Nat,
     remoteWake : {0, 1}, ucHalt : [Endpoints -> {0, 1}], ucConfigIndex : 0 .. Len(Configs) - 1,
     ucConfigSection : Nat, ucSectionOffset : Nat]
Csr ==
    [rx : Seq(Byte), tx : Seq(Byte), txrdy : BOOLEAN, dataend : BOOLEAN, sendstall : BOOLEAN,
     sentstall : BOOLEAN, faddr : Nat, alternate : Alternates]
Class == [buffer : Seq(Byte), told : {<< >>} \cup (Nat \X Seq(Byte))]
Host ==
    [menu : Menus, stage : {"idle", "in", "out", "statusIn", "statusOut"},
     req : {NoRequest} \cup UNION Menus, got : Seq(Byte), sent : Nat, retried : BOOLEAN,
     late : BOOLEAN, trouble : BOOLEAN, addr : Nat, config : {Unknown} \cup Nat,
     alt : {Unknown} \cup Alternates, wake : {0, 1}, halt : [Endpoints -> {0, 1}]]

\* How much of the configuration that is being sent has been read.
Reached(i) == Position(i.ucConfigIndex, i.ucConfigSection, i.ucSectionOffset)

\* The instance is at a place of the configuration, and what remains does not go
\* beyond its end.
AtPlace(i) ==
    /\ Place(i.ucConfigIndex, i.ucConfigSection, i.ucSectionOffset)
    /\ Reached(i) + i.ulEP0DataRemain <= TotalLength(i.ucConfigIndex)

\* A packet is no longer than it may be; what is not ready to be sent is empty; a
\* configuration is sent on from behind its header.
DeviceOK(s) ==
    /\ s.inst \in Inst /\ s.csr \in Csr /\ s.class \in Class
    /\ s = [inst |-> s.inst, csr |-> s.csr, class |-> s.class]
    /\ Len(s.csr.rx) <= EP0_MAX_PACKET_SIZE /\ Len(s.csr.tx) <= EP0_MAX_PACKET_SIZE
    /\ s.csr.txrdy \/ s.csr.tx = << >>
    /\ s.inst.ucConfigSection <= NumSections(s.inst.ucConfigIndex)
    /\ s.inst.eEP0State = "TX_CONFIG" => AtPlace(s.inst) /\ Reached(s.inst) >= ConfDescSize

\* What the device has still to hand to the controller.
Rest(i) ==
    CASE i.eEP0State = "TX" -> Bytes(i.pEP0Data, i.ulEP0DataRemain)
      [] i.eEP0State = "TX_CONFIG" ->
             Between(i.ucConfigIndex, Reached(i), Reached(i) + i.ulEP0DataRemain)
      [] OTHER -> << >>

\* The requests that the device takes for others: they clear the halt of endpoint
\* NUM_USB_EP, which does not exist, name a feature that has the bit of the remote wakeup,
\* or a string behind those of a language; and the hosts that make none.
StrayHalt(r) ==
    r.kind = "CLEAR_HALT" /\ r.value \in {<<"in", NUM_USB_EP>>, <<"out", NUM_USB_EP>>}
StrayFeature(r) ==
    /\ r.kind \in {"SET_FEATURE", "CLEAR_FEATURE"}
    /\ r.value % 2 = REMOTE_WAKE /\ r.value # REMOTE_WAKE
StrayString(r) == r.kind = "GET_STRING" /\ r.value[2] > StringsPerLang
Stray(r) == StrayHalt(r) \/ StrayFeature(r) \/ StrayString(r)
NoStray == \A menu \in Menus : \A r \in menu : ~Stray(r)

\* The string that the device sends for a request, and whether it finds one.
StringOf(r) == StringIndexFromRequest(r.value[1], r.value[2])
FindsString(r) == StringOf(r) # NotFound

\* The requests the device has something for, its own reading of them.
Serves(r) ==
    \/ r.kind \in {"SET_ADDRESS", "CLASS_OUT", "CLASS_NONE", "GET_DEVICE", "GET_STATUS_DEVICE",
                   "GET_STATUS_INTERFACE", "GET_CONFIGURATION", "CLASS_IN"}
    \/ r.kind \in {"SET_FEATURE", "CLEAR_FEATURE"} /\ r.value % 2 = REMOTE_WAKE
    \/ r.kind \in {"SET_HALT", "CLEAR_HALT", "GET_STATUS_EP"} /\ r.value \in Endpoints
    \/ r.kind = "SET_CONFIGURATION" /\ r.value <= Len(Configs)
    \/ r.kind = "SET_INTERFACE" /\ r.value \in Alternates
    \/ r.kind = "GET_CONFIG" /\ r.value + 1 \in DOMAIN Configs
    \/ r.kind = "GET_STRING" /\ FindsString(r)
    \/ r.kind = "GET_INTERFACE" /\ r.value < USB_MAX_INTERFACES_PER_DEVICE

\* What it sends for them, and Believe, with the host as a parameter.
AnswersTo(r, h) ==
    CASE r.kind = "GET_DEVICE" -> {Bytes(<<"device", 0, 0>>, DeviceDescSize)}
      [] r.kind = "GET_CONFIG" /\ r.value + 1 \in DOMAIN Configs -> {ConfigBytes[r.value]}
      [] r.kind = "GET_STRING" /\ FindsString(r) ->
             {Bytes(<<"string", StringOf(r), 0>>, StringSize(StringOf(r)))}
      [] r.kind = "GET_STATUS_DEVICE" -> {Bytes(<<"status", h.wake, 0>>, 2)}
      [] r.kind = "GET_STATUS_INTERFACE" -> {Bytes(<<"interface_status", 0, 0>>, 2)}
      [] r.kind = "GET_STATUS_EP" /\ r.value \in Endpoints ->
             {Bytes(<<"halt", h.halt[r.value], 0>>, 2)}
      [] r.kind = "GET_CONFIGURATION" ->
             {Bytes(<<"configuration", v, 0>>, 1) : v \in Known(h.config, 0 .. Len(Configs))}
      [] r.kind = "GET_INTERFACE" /\ r.value = 0 ->
             {Bytes(<<"interface", v, 0>>, 1) : v \in Known(h.alt, Alternates)}
      [] r.kind = "GET_INTERFACE" /\ r.value \in 1 .. USB_MAX_INTERFACES_PER_DEVICE - 1 ->
             {Bytes(<<"interface", 0, 0>>, 1)}
      [] r.kind = "CLASS_IN" -> {Bytes(<<"class", 0, 0>>, r.length)}
      [] OTHER -> {}
Believed(r, h) ==
    CASE r.kind = "SET_ADDRESS" -> [h EXCEPT !.addr = r.value]
      [] r.kind = "SET_CONFIGURATION" -> [h EXCEPT !.config = r.value, !.alt = Unknown]
      [] r.kind = "SET_INTERFACE" -> [h EXCEPT !.alt = r.value]
      [] r.kind = "SET_FEATURE" -> [h EXCEPT !.wake = 1]
      [] r.kind = "CLEAR_FEATURE" -> [h EXCEPT !.wake = 0]
      [] r.kind = "SET_HALT" -> [h EXCEPT !.halt[r.value] = 1]
      [] r.kind = "CLEAR_HALT" -> [h EXCEPT !.halt[r.value] = 0]
      [] OTHER -> h

\* The part of an answer that the host asked for.
Owed(r, a) == SubSeq(a, 1, Least(Len(a), r.length))

\* The device has the settings that the host knows of.
Knows(i, h) ==
    /\ h.config # Unknown => i.ulConfiguration = h.config
    /\ h.alt # Unknown => i.altSetting = h.alt
    /\ i.remoteWake = h.wake /\ (NoStray => i.ucHalt = h.halt)

\* The interrupts that are still to be served, and that endpoint 0's is so once only.
Raised == irq \cup seen
Once == ~("EP0" \in irq /\ "EP0" \in seen)

\* What the device knows while a reset has not been served.
Aware ==
    IF "RESET" \in Raised
    THEN /\ host.config = Unknown /\ host.alt = Unknown /\ host.wake = 0
         /\ NoStray => inst.ucHalt = host.halt
    ELSE Knows(inst, host)

\* The device has the address that the host uses, or takes it at the next interrupt.
Addressed == csr.faddr = host.addr /\ ~inst.pending
AddressDue ==
    /\ inst.pending /\ inst.eEP0State = "STATUS" /\ inst.ulDevAddress = host.addr
    /\ "EP0" \in Raised /\ "RESET" \notin Raised

SetupPacket == <<(<<"setup", 0, 0>>)>>

\* No transfer: a SETUP packet may be left over from one that was dropped.
Idle ==
    /\ host.stage = "idle" /\ ~csr.sendstall /\ inst.eEP0State # "RX"
    /\ csr.rx = << >> \/ (csr.rx = SetupPacket /\ Raised = {} /\ host.trouble)
    /\ ~host.trouble => inst.eEP0State \in {"IDLE", "STATUS"}
    /\ "RESET" \in Raised => Raised = {"RESET"}
    /\ Aware /\ (Addressed \/ AddressDue)

\* A SETUP packet the device has not read.
Asked ==
    /\ csr.rx = SetupPacket /\ host.req \in host.menu /\ host.stage = Stage(host.req)
    /\ host.got = << >> /\ host.sent = 0 /\ ~csr.sendstall /\ inst.eEP0State # "RX" /\ Once
    /\ "EP0" \in Raised => ~csr.txrdy /\ ~csr.dataend
    /\ ~host.trouble => "EP0" \in Raised /\ inst.eEP0State \in {"IDLE", "STATUS"}
    /\ Aware /\ csr.faddr = host.addr /\ (Addressed \/ AddressDue)

Stalled ==
    /\ host.req \in host.menu /\ host.stage = Stage(host.req) /\ host.got = << >>
    /\ csr.sendstall /\ csr.rx = << >> /\ Raised = {} /\ inst.eEP0State # "RX"
    /\ ~Serves(host.req) /\ Knows(inst, host) /\ Addressed

\* The device is sending the answer, a full packet at a time, and then a short one.
Packets ==
    \/ /\ inst.eEP0State \in {"TX", "TX_CONFIG"} /\ ~csr.dataend
       /\ csr.txrdy /\ Len(csr.tx) = EP0_MAX_PACKET_SIZE /\ Raised = {}
    \/ /\ inst.eEP0State \in {"TX", "TX_CONFIG"} /\ ~csr.dataend
       /\ ~csr.txrdy /\ Raised = {"EP0"} /\ Once
    \/ /\ inst.eEP0State = "STATUS" /\ Raised = {}
       /\ csr.txrdy /\ Len(csr.tx) < EP0_MAX_PACKET_SIZE
Sending ==
    /\ host.req \in host.menu /\ host.req.length > 0 /\ Serves(host.req)
    /\ csr.rx = << >> /\ ~csr.sendstall /\ "RESET" \notin Raised
    /\ inst.eEP0State \in {"TX", "TX_CONFIG", "STATUS", "IDLE"}
    /\ Believed(host.req, host) = host
    /\ inst.eEP0State \in {"TX", "TX_CONFIG"} => Len(host.got) % EP0_MAX_PACKET_SIZE = 0
    /\ \/ /\ host.stage = "in" /\ Packets
          /\ Len(host.got \o (csr.tx \o Rest(inst))) <= host.req.length
          /\ NoStray => \E a \in AnswersTo(host.req, host) :
                            Owed(host.req, a) = host.got \o (csr.tx \o Rest(inst))
       \/ /\ host.stage = "statusOut"
          /\ inst.eEP0State \in {"TX", "TX_CONFIG"} =>
                 host.got # << >> /\ Len(host.got) >= host.req.length
          /\ NoStray => \E a \in AnswersTo(host.req, host) : Owed(host.req, a) = host.got
    /\ Knows(inst, host) /\ Addressed

\* The device is reading the data of the class's request.
Receiving ==
    /\ host.req \in host.menu /\ host.req.kind = "CLASS_OUT" /\ host.got = << >>
    /\ ~csr.sendstall /\ ~csr.dataend /\ inst.eEP0State = "RX"
    /\ inst.ulOUTDataSize = host.req.length
    /\ class.buffer \o csr.rx = OutData(host.sent) /\ host.sent <= host.req.length
    /\ Len(class.buffer) < host.req.length
    /\ inst.ulEP0DataRemain = host.req.length - Len(class.buffer)
    /\ host.stage = IF host.sent = host.req.length THEN "statusIn" ELSE "out"
    /\ IF csr.rx = << >> THEN Raised = {}
       ELSE /\ Raised = {"EP0"} /\ Once
            /\ Len(csr.rx) = Least(EP0_MAX_PACKET_SIZE, inst.ulEP0DataRemain)
    /\ Knows(inst, host) /\ Addressed

\* The request is carried out, but for the address.
Done ==
    /\ host.req \in host.menu /\ host.stage = "statusIn" /\ host.got = << >>
    /\ csr.rx = << >> /\ ~csr.sendstall /\ Raised = {}
    /\ Serves(host.req) \/ Stray(host.req)
    /\ Knows(inst, Believed(host.req, host)) /\ csr.faddr = host.addr
    /\ IF host.req.kind = "SET_ADDRESS"
       THEN inst.eEP0State = "STATUS" /\ inst.pending /\ inst.ulDevAddress = host.req.value
       ELSE inst.eEP0State = "IDLE" /\ ~inst.pending

\* The SETUP was late, and has been served by an interrupt of the transfer before, or
\* will be: its own then finds the transfer in any of its states.  What is sent may be
\* skipped, and what is received be told of before it is there.
LateAsked ==
    /\ csr.rx = SetupPacket /\ ~csr.sendstall /\ inst.eEP0State # "RX"
    /\ host.stage = Stage(host.req) /\ host.sent = 0
    /\ Knows(inst, host) /\ csr.faddr = host.addr /\ (Addressed \/ AddressDue)
LateRefused ==
    /\ csr.rx = << >> /\ csr.sendstall /\ inst.eEP0State # "RX"
    /\ host.stage = Stage(host.req) /\ ~Serves(host.req)
    /\ Knows(inst, host) /\ Addressed
LateServed ==
    /\ csr.rx = << >> /\ ~csr.sendstall /\ inst.eEP0State # "RX"
    /\ Serves(host.req) \/ Stray(host.req)
    /\ Knows(inst, Believed(host.req, host))
    /\ IF host.req.kind = "SET_ADDRESS"
       THEN /\ host.stage = "statusIn"
            /\ IF inst.pending
               THEN /\ inst.eEP0State = "STATUS" /\ inst.ulDevAddress = host.req.value
                    /\ csr.faddr = host.addr
               ELSE csr.faddr = host.req.value
       ELSE Addressed
    /\ \/ host.stage = "statusIn"
       \/ host.stage \in {"in", "statusOut"} /\ host.req.length > 0 /\ host.req.kind # "CLASS_OUT"
       \/ host.stage = "out" /\ host.req.kind = "CLASS_OUT" /\ csr.dataend
          /\ inst.eEP0State = "IDLE"
LateReceiving ==
    /\ host.req.kind = "CLASS_OUT" /\ ~csr.sendstall /\ inst.eEP0State = "RX"
    /\ host.sent <= host.req.length
    /\ host.stage = IF host.sent = host.req.length THEN "statusIn" ELSE "out"
    /\ 0 < inst.ulEP0DataRemain
    /\ inst.ulEP0DataRemain <= (host.req.length - host.sent) + Len(csr.rx)
    /\ Len(csr.rx) <= host.sent + 1
    /\ Knows(inst, host) /\ Addressed
Late ==
    /\ host.late /\ host.req \in host.menu /\ "RESET" \notin Raised
    /\ LateAsked \/ LateRefused \/ LateServed \/ LateReceiving

\* What holds in every phase: the host has put a reset on the bus at rest, and knows of
\* the transfers that need not be served at once.
Sound ==
    /\ DeviceOK(Dev) /\ host \in Host
    /\ irq \subseteq {"EP0", "RESET"} /\ seen \subseteq {"EP0", "RESET"}
    /\ "RESET" \in irq => seen = {}
    /\ host.retried \/ host.late => host.trouble

Inv ==
    /\ Sound
    /\ Idle \/ Asked \/ Stalled \/ Sending \/ Receiving \/ Done \/ Late

-----------------------------------------------------------------------------
(* The controller's endpoint 0, and the states that send.                  *)

\* What a state that sends leaves as it is.
Same(i, j) ==
    /\ j.ulDevAddress = i.ulDevAddress /\ j.pending = i.pending
    /\ j.ulConfiguration = i.ulConfiguration /\ j.altSetting = i.altSetting
    /\ j.remoteWake = i.remoteWake /\ j.ucHalt = i.ucHalt
Kept(s, t) ==
    /\ Same(s.inst, t.inst) /\ t.class = s.class
    /\ t.csr.rx = s.csr.rx /\ t.csr.sendstall = s.csr.sendstall /\ t.csr.faddr = s.csr.faddr

\* A packet of bytes is ready to be sent, and the rest of them is still to come.
Sent(s, bytes, t) ==
    /\ DeviceOK(t) /\ Kept(s, t) /\ t.csr.txrdy
    /\ t.inst.eEP0State \in {"TX", "TX_CONFIG", "STATUS"}
    /\ ~s.csr.txrdy =>
           /\ bytes = t.csr.tx \o Rest(t.inst)
           /\ IF t.inst.eEP0State = "STATUS" THEN Len(t.csr.tx) < EP0_MAX_PACKET_SIZE
              ELSE Len(t.csr.tx) = EP0_MAX_PACKET_SIZE /\ t.csr.dataend = s.csr.dataend

\* s is a record of the three parts.
Parts(s) == s = [inst |-> s.inst, csr |-> s.csr, class |-> s.class]

\* Data put into the FIFO.
LEMMA PutFacts ==
    ASSUME NEW s, Parts(s), s.csr \in Csr, NEW b \in Seq(Byte)
    PROVE  LET t == DataPut(s, b)
           IN  /\ Parts(t) /\ t.inst = s.inst /\ t.class = s.class /\ t.csr \in Csr
               /\ t.csr = [s.csr EXCEPT !.tx = IF s.csr.txrdy THEN @ ELSE @ \o b]
<1>1. CASE s.csr.txrdy
  BY <1>1 DEF DataPut, Parts, Csr
<1>2. CASE ~s.csr.txrdy
  <2> DEFINE t == DataPut(s, b)
  <2>1. t = [s EXCEPT !.csr.tx = @ \o b]
    BY <1>2 DEF DataPut
  <2> HIDE DEF t
  <2>2. Parts(t) /\ t.inst = s.inst /\ t.class = s.class /\ t.csr = [s.csr EXCEPT !.tx = @ \o b]
    BY <2>1 DEF Parts
  <2>3. s.csr.tx \o b \in Seq(Byte)
    BY ConcatProperties DEF Csr
  <2>4. [s.csr EXCEPT !.tx = @ \o b] \in Csr
    BY <2>3 DEF Csr
  <2> QED BY <1>2, <2>2, <2>4 DEF t
<1> QED BY <1>1, <1>2

\* The packet sent.
LEMMA SendFacts ==
    ASSUME NEW s, Parts(s), s.csr \in Csr, NEW last \in BOOLEAN
    PROVE  LET t == DataSend(s, last)
           IN  /\ Parts(t) /\ t.inst = s.inst /\ t.class = s.class /\ t.csr \in Csr
               /\ t.csr.txrdy /\ t.csr.tx = s.csr.tx /\ t.csr.rx = s.csr.rx
               /\ t.csr.sendstall = s.csr.sendstall /\ t.csr.faddr = s.csr.faddr
               /\ ~s.csr.txrdy => t.csr.dataend = (s.csr.dataend \/ last)
<1>1. CASE s.csr.txrdy
  BY <1>1 DEF DataSend, Parts
<1>2. CASE ~s.csr.txrdy
  <2> DEFINE t == DataSend(s, last)
             e == [s.csr EXCEPT !.txrdy = TRUE, !.dataend = @ \/ last]
  <2>1. t = [s EXCEPT !.csr.txrdy = TRUE, !.csr.dataend = @ \/ last]
    BY <1>2 DEF DataSend
  <2> HIDE DEF t
  <2>2. Parts(t) /\ t.inst = s.inst /\ t.class = s.class /\ t.csr = e
    BY <2>1 DEF Parts
  <2>3. /\ e \in Csr /\ e.txrdy /\ e.tx = s.csr.tx /\ e.rx = s.csr.rx
        /\ e.sendstall = s.csr.sendstall /\ e.faddr = s.csr.faddr
        /\ e.dataend = (s.csr.dataend \/ last)
    BY DEF Csr
  <2> HIDE DEF e
  <2> QED BY <2>2, <2>3 DEF t
<1> QED BY <1>1, <1>2

\* The end of both states that send: after a short packet, the status stage.
SendLast(a, n) ==
    IF n = EP0_MAX_PACKET_SIZE THEN DataSend(a, FALSE)
    ELSE LastSent(a)

\* SendLast hands the packet over, and marks a short one as the last.
LEMMA SendLastFacts ==
    ASSUME NEW a, Parts(a), a.csr \in Csr, NEW n \in Nat
    PROVE  LET t == SendLast(a, n)
           IN  /\ Parts(t) /\ t.class = a.class /\ t.csr \in Csr
               /\ t.csr.txrdy /\ t.csr.tx = a.csr.tx /\ t.csr.rx = a.csr.rx
               /\ t.csr.sendstall = a.csr.sendstall /\ t.csr.faddr = a.csr.faddr
               /\ ~a.csr.txrdy => t.csr.dataend = (a.csr.dataend \/ n # EP0_MAX_PACKET_SIZE)
               /\ t.inst = IF n = EP0_MAX_PACKET_SIZE THEN a.inst
                           ELSE [a.inst EXCEPT !.eEP0State = "STATUS",
                                   !.ulOUTDataSize = IF HasDataSent THEN 0 ELSE @]
<1>1. CASE n = EP0_MAX_PACKET_SIZE
  <2> DEFINE no == FALSE
             t == DataSend(a, no)
  <2>1. SendLast(a, n) = t /\ no \in BOOLEAN /\ ~no
    BY <1>1 DEF SendLast
  <2> HIDE DEF no
  <2>2. /\ Parts(t) /\ t.inst = a.inst /\ t.class = a.class /\ t.csr \in Csr
        /\ t.csr.txrdy /\ t.csr.tx = a.csr.tx /\ t.csr.rx = a.csr.rx
        /\ t.csr.sendstall = a.csr.sendstall /\ t.csr.faddr = a.csr.faddr
        /\ ~a.csr.txrdy => t.csr.dataend = (a.csr.dataend \/ no)
    BY <2>1, SendFacts
  <2> HIDE DEF t
  <2> QED BY <1>1, <2>1, <2>2
<1>2. CASE n # EP0_MAX_PACKET_SIZE
  <2> DEFINE b == [a EXCEPT !.inst.eEP0State = "STATUS",
                            !.inst.ulOUTDataSize = IF HasDataSent THEN 0 ELSE @]
  <2>2. SendLast(a, n) = DataSend(b, TRUE)
    BY <1>2 DEF SendLast, LastSent
  <2>3. b = [a EXCEPT !.inst.eEP0State = "STATUS",
                      !.inst.ulOUTDataSize = IF HasDataSent THEN 0 ELSE @]
    OBVIOUS
  <2> HIDE DEF b
  <2>1. /\ Parts(b) /\ b.csr = a.csr /\ b.class = a.class
        /\ b.inst = [a.inst EXCEPT !.eEP0State = "STATUS",
                                   !.ulOUTDataSize = IF HasDataSent THEN 0 ELSE @]
    BY <2>3 DEF Parts
  <2> DEFINE t == DataSend(b, TRUE)
  <2>4. /\ Parts(t) /\ t.inst = b.inst /\ t.class = b.class /\ t.csr \in Csr
        /\ t.csr.txrdy /\ t.csr.tx = b.csr.tx /\ t.csr.rx = b.csr.rx
        /\ t.csr.sendstall = b.csr.sendstall /\ t.csr.faddr = b.csr.faddr
        /\ ~b.csr.txrdy => t.csr.dataend = (b.csr.dataend \/ TRUE)
    BY <2>1, SendFacts
  <2> HIDE DEF t
  <2> QED BY <1>2, <2>1, <2>2, <2>4 DEF t
<1> QED BY <1>1, <1>2

\* USBDEP0StateTx sends the next packet from the pointer.
LEMMA TxFacts ==
    ASSUME NEW s, DeviceOK(s)
    PROVE  Sent(s, Bytes(s.inst.pEP0Data, s.inst.ulEP0DataRemain), EP0StateTx(s))
<1> DEFINE i == s.inst
           p == i.pEP0Data
           m == i.ulEP0DataRemain
           n == Least(m, EP0_MAX_PACKET_SIZE)
           full == n = EP0_MAX_PACKET_SIZE
           b == Bytes(p, n)
           s0 == [s EXCEPT !.inst.eEP0State = "TX", !.inst.ulEP0DataRemain = @ - n,
                           !.inst.pEP0Data = Behind(p, n)]
           i0 == [i EXCEPT !.eEP0State = "TX", !.ulEP0DataRemain = @ - n,
                           !.pEP0Data = Behind(p, n)]
           a == DataPut(s0, b)
           t == EP0StateTx(s)
           j == t.inst
<1>1. /\ i \in Inst /\ s.csr \in Csr /\ s.class \in Class /\ Parts(s)
      /\ Len(s.csr.rx) <= EP0_MAX_PACKET_SIZE /\ Len(s.csr.tx) <= EP0_MAX_PACKET_SIZE
      /\ s.csr.txrdy \/ s.csr.tx = << >>
      /\ i.ucConfigSection <= NumSections(i.ucConfigIndex)
  <2> HIDE DEF j, t, a, b, s0, i0, full, n
  <2>1. /\ s.inst \in Inst /\ s.csr \in Csr /\ s.class \in Class
        /\ Len(s.csr.rx) <= EP0_MAX_PACKET_SIZE /\ Len(s.csr.tx) <= EP0_MAX_PACKET_SIZE
        /\ s.csr.txrdy \/ s.csr.tx = << >>
        /\ s.inst.ucConfigSection <= NumSections(s.inst.ucConfigIndex)
    BY DEF DeviceOK
  <2>2. Parts(s)
    BY DEF DeviceOK, Parts
  <2> QED BY <2>1, <2>2
<1>2. p \in Byte /\ m \in Nat /\ EP0_MAX_PACKET_SIZE \in Nat \ {0}
  <2>1. p \in Byte /\ m \in Nat
    BY <1>1 DEF Inst
  <2>2. EP0_MAX_PACKET_SIZE \in Nat \ {0}
    BY SizesAssumption
  <2> QED BY <2>1, <2>2
<1>3. n \in Nat /\ n <= m /\ n <= EP0_MAX_PACKET_SIZE /\ n \in {m, EP0_MAX_PACKET_SIZE} /\ m - n \in Nat
  BY <1>2 DEF Least
<1>4. b \in Seq(Byte) /\ Len(b) = n /\ Behind(p, n) \in Byte
  BY <1>2, <1>3, BytesType
<1>5. t = SendLast(a, n)
  BY DEF EP0StateTx, SendLast
<1>6. Parts(s0) /\ s0.inst = i0 /\ s0.csr = s.csr /\ s0.class = s.class
  <2>1. s0 = [s EXCEPT !.inst.eEP0State = "TX", !.inst.ulEP0DataRemain = @ - n,
                       !.inst.pEP0Data = Behind(p, n)]
    OBVIOUS
  <2> HIDE DEF n, p, b, s0
  <2> QED BY <1>1, <2>1 DEF Parts
<1>7. /\ i0 \in Inst /\ Same(i, i0) /\ i0.pEP0Data = Behind(p, n) /\ i0.ulEP0DataRemain = m - n
      /\ i0.eEP0State = "TX"
      /\ i0.ucConfigSection = i.ucConfigSection /\ i0.ucConfigIndex = i.ucConfigIndex
  <2> HIDE DEF n, i, p
  <2> QED BY <1>1, <1>3, <1>4 DEF Inst, Same, m
<1> HIDE DEF s0
<1>8. /\ Parts(a) /\ a.inst = i0 /\ a.class = s.class /\ a.csr \in Csr
      /\ a.csr = [s.csr EXCEPT !.tx = IF s.csr.txrdy THEN @ ELSE @ \o b]
  <2> HIDE DEF b, i0
  <2>1. /\ Parts(a) /\ a.inst = s0.inst /\ a.class = s0.class /\ a.csr \in Csr
        /\ a.csr = [s0.csr EXCEPT !.tx = IF s0.csr.txrdy THEN @ ELSE @ \o b]
    BY <1>1, <1>4, <1>6, PutFacts
  <2> HIDE DEF a
  <2> QED BY <1>6, <2>1
<1>9. /\ a.csr.tx = (IF s.csr.txrdy THEN s.csr.tx ELSE b) /\ a.csr.rx = s.csr.rx
      /\ a.csr.sendstall = s.csr.sendstall /\ a.csr.faddr = s.csr.faddr
      /\ a.csr.txrdy = s.csr.txrdy /\ a.csr.dataend = s.csr.dataend
  <2>1. << >> \o b = b
    BY <1>4, ConcatEmptySeq
  <2> HIDE DEF a, b
  <2> QED BY <1>1, <1>8, <2>1 DEF Csr
<1> HIDE DEF a
<1>10. /\ Parts(t) /\ t.class = s.class /\ t.csr \in Csr /\ t.csr.txrdy
       /\ t.csr.tx = (IF s.csr.txrdy THEN s.csr.tx ELSE b) /\ t.csr.rx = s.csr.rx
       /\ t.csr.sendstall = s.csr.sendstall /\ t.csr.faddr = s.csr.faddr
       /\ ~s.csr.txrdy => t.csr.dataend = (s.csr.dataend \/ ~full)
       /\ j = IF full THEN i0
               ELSE [i0 EXCEPT !.eEP0State = "STATUS",
                               !.ulOUTDataSize = IF HasDataSent THEN 0 ELSE @]
  <2> DEFINE u == SendLast(a, n)
  <2> HIDE DEF t, b, n, i0
  <2>1. Parts(a) /\ a.csr \in Csr
    BY <1>8
  <2>2. /\ Parts(u) /\ u.class = a.class /\ u.csr \in Csr
        /\ u.csr.txrdy /\ u.csr.tx = a.csr.tx /\ u.csr.rx = a.csr.rx
        /\ u.csr.sendstall = a.csr.sendstall /\ u.csr.faddr = a.csr.faddr
        /\ ~a.csr.txrdy => u.csr.dataend = (a.csr.dataend \/ n # EP0_MAX_PACKET_SIZE)
        /\ u.inst = IF n = EP0_MAX_PACKET_SIZE THEN a.inst
                    ELSE [a.inst EXCEPT !.eEP0State = "STATUS",
                                   !.ulOUTDataSize = IF HasDataSent THEN 0 ELSE @]
    BY <1>3, <2>1, SendLastFacts
  <2>3. t = u
    BY <1>5
  <2> HIDE DEF u
  <2> QED BY <1>8, <1>9, <2>2, <2>3
<1> HIDE DEF t
<1>11. /\ j \in Inst /\ Same(i, j) /\ j.pEP0Data = Behind(p, n) /\ j.ulEP0DataRemain = m - n
       /\ j.eEP0State = (IF full THEN "TX" ELSE "STATUS")
       /\ j.ucConfigSection = i.ucConfigSection /\ j.ucConfigIndex = i.ucConfigIndex
  <2> HIDE DEF i0, n, i, m, p, full, j
  <2> QED BY <1>7, <1>10 DEF Inst, Same
<1>12. DeviceOK(t) /\ Kept(s, t)
  <2> HIDE DEF n, m, full, b
  <2>1. Len(t.csr.tx) <= EP0_MAX_PACKET_SIZE
    BY <1>1, <1>3, <1>4, <1>10
  <2> QED BY <1>1, <1>10, <1>11, <2>1 DEF DeviceOK, Kept, Parts
<1>13. ASSUME ~s.csr.txrdy
       PROVE  /\ Bytes(p, m) = t.csr.tx \o Rest(j)
              /\ IF j.eEP0State = "STATUS" THEN Len(t.csr.tx) < EP0_MAX_PACKET_SIZE
                 ELSE Len(t.csr.tx) = EP0_MAX_PACKET_SIZE /\ t.csr.dataend = s.csr.dataend
  <2>1. t.csr.tx = b /\ Len(b) = n
    BY <1>4, <1>10, <1>13
  <2>2. CASE full
    <3>1. Bytes(p, m) = b \o Bytes(Behind(p, n), m - n)
      <4> HIDE DEF n, p, m
      <4> QED BY <1>2, <1>3, BytesSplit
    <3>2. Rest(j) = Bytes(Behind(p, n), m - n) /\ j.eEP0State = "TX"
      <4> HIDE DEF j, p, m, n
      <4> QED BY <1>11, <2>2 DEF Rest
    <3>3. t.csr.dataend = s.csr.dataend
      <4> HIDE DEF j, p, m, n, b
      <4> QED BY <1>1, <1>10, <1>13, <2>2 DEF Csr
    <3> HIDE DEF b, n, m, p, j
    <3> QED BY <2>1, <2>2, <3>1, <3>2, <3>3
  <2>3. CASE ~full
    <3>1. n = m /\ n < EP0_MAX_PACKET_SIZE
      BY <1>2, <1>3, <2>3
    <3>2. j.eEP0State = "STATUS" /\ Rest(j) = << >>
      <4> HIDE DEF j, p, m, n, b
      <4> QED BY <1>11, <2>3 DEF Rest
    <3>3. b \o << >> = b
      <4> HIDE DEF b
      <4> QED BY <1>4, ConcatEmptySeq
    <3> HIDE DEF n, j, p, m
    <3> QED BY <2>1, <3>1, <3>2, <3>3
  <2> QED BY <2>2, <2>3
<1>14. j.eEP0State \in {"TX", "TX_CONFIG", "STATUS"}
  <2> HIDE DEF j
  <2> QED BY <1>11
<1> QED BY <1>10, <1>12, <1>13, <1>14 DEF Sent, t

\* A packet of a configuration: how much of it is header, where the loop over the
\* sections starts, and what it does.
HeaderPart(k, o, n) == IF k = 0 /\ o = 0 THEN Least(n, ConfDescSize) ELSE 0
HeaderBytes(c, k, o, n) == Bytes(<<"header", c, 0>>, HeaderPart(k, o, n))
LoopStart(c, k, o, h) ==
    IF k = 0 /\ o = 0 /\ Configs[c + 1][1] = h THEN <<1, 0>>
    ELSE IF k = 0 /\ o = 0 THEN <<0, h>>
    ELSE <<k, o>>
Loop(c, k, o, n) ==
    LET h == HeaderPart(k, o, n)
        at == LoopStart(c, k, o, h)
    IN  SectionBytes(c, at[1], at[2], n - h)

\* The header is what the configuration starts with.
LEMMA HeaderFacts ==
    ASSUME NEW c \in 0 .. Len(Configs) - 1, NEW h \in 0 .. ConfDescSize
    PROVE  /\ Bytes(<<"header", c, 0>>, h) \in Seq(Byte) /\ Len(Bytes(<<"header", c, 0>>, h)) = h
           /\ Bytes(<<"header", c, 0>>, h) = Between(c, 0, h)
<1> DEFINE p == <<"header", c, 0>>
           b == Bytes(p, h)
           e == Between(c, 0, h)
<1>1. c \in Nat /\ h \in Nat /\ ConfDescSize \in Nat /\ h <= ConfDescSize
  BY StartFacts, SizesAssumption
<1>2. p \in Byte
  BY <1>1 DEF Byte
<1>3. /\ TotalLength(c) \in Nat /\ TotalLength(c) >= ConfDescSize
      /\ ConfigBytes[c] \in Seq(Byte) /\ Len(ConfigBytes[c]) = TotalLength(c)
      /\ \A i \in 1 .. ConfDescSize : ConfigBytes[c][i] = <<"header", c, i>>
  BY ConfigType
<1>4. b \in Seq(Byte) /\ Len(b) = h /\ \A i \in 1 .. h : b[i] = <<p[1], p[2], p[3] + i>>
  <2> HIDE DEF p
  <2> QED BY <1>1, <1>2, BytesType
<1>5. h <= TotalLength(c) /\ 0 <= h /\ 0 \in Nat
  BY <1>1, <1>3
<1>6. e \in Seq(Byte) /\ Len(e) = h - 0
  <2> DEFINE z == 0
  <2>1. h \in Nat /\ z \in Nat /\ z <= h /\ h <= TotalLength(c)
    BY <1>1, <1>5
  <2> HIDE DEF z
  <2>2. Between(c, z, h) \in Seq(Byte) /\ Len(Between(c, z, h)) = h - z
    BY <2>1, BetweenFacts
  <2> QED BY <2>2 DEF z
<1>7. ASSUME NEW i \in 1 .. h PROVE b[i] = e[i]
  <2>1. b[i] = <<"header", c, i>>
    <3>1. b[i] = <<p[1], p[2], p[3] + i>>
      BY <1>4
    <3>2. p[1] = "header" /\ p[2] = c /\ p[3] = 0 /\ 0 + i = i
      OBVIOUS
    <3> HIDE DEF p, b
    <3> QED BY <3>1, <3>2
  <2>2. e[i] = ConfigBytes[c][i]
    <3>1. \A j \in 0 + 1 .. h : ConfigBytes[c][j] \in Byte
      <4>1. TAKE j \in 0 + 1 .. h
      <4>2. j \in 1 .. Len(ConfigBytes[c])
        BY <1>1, <1>3
      <4> QED BY <1>3, <4>2, ElementOfSeq
    <3>2. 0 + 1 \in Int /\ h \in Int
      BY <1>1
    <3>3. \A j \in 1 .. h - (0 + 1) + 1 : e[j] = ConfigBytes[c][(0 + 1) + j - 1]
      BY <3>1, <3>2, SubSeqProperties DEF Between
    <3>4. i \in 1 .. h - (0 + 1) + 1 /\ (0 + 1) + i - 1 = i
      BY <1>1
    <3> QED BY <3>3, <3>4
  <2>3. i \in 1 .. ConfDescSize
    BY <1>1
  <2> QED BY <1>3, <2>1, <2>2, <2>3
<1>8. b = e
  <2> HIDE DEF b, e
  <2>1. Len(e) = h
    BY <1>1, <1>6
  <2> QED BY <1>4, <1>6, <1>7, <2>1, SeqEqual
<1> QED BY <1>4, <1>8

\* A packet of n bytes: the bytes from the place on, and the place behind them.
LEMMA PacketFacts ==
    ASSUME NEW c \in Nat, NEW k \in Nat, NEW o \in Nat, Place(c, k, o), NEW n \in Nat,
           Position(c, k, o) + n <= TotalLength(c),
           (k = 0 /\ o = 0) \/ Position(c, k, o) >= ConfDescSize
    PROVE  /\ Place(c, Loop(c, k, o, n)[1], Loop(c, k, o, n)[2])
           /\ Position(c, Loop(c, k, o, n)[1], Loop(c, k, o, n)[2]) = Position(c, k, o) + n
           /\ HeaderBytes(c, k, o, n) \in Seq(Byte) /\ Loop(c, k, o, n)[4] \in Seq(Byte)
           /\ HeaderBytes(c, k, o, n) \o Loop(c, k, o, n)[4]
                  = Between(c, Position(c, k, o), Position(c, k, o) + n)
           /\ Len(Between(c, Position(c, k, o), Position(c, k, o) + n)) = n
<1> DEFINE h == HeaderPart(k, o, n)
           at == LoopStart(c, k, o, h)
           k1 == at[1]
           o1 == at[2]
           body == Loop(c, k, o, n)
           head == HeaderBytes(c, k, o, n)
           R == Position(c, k, o)
           L == NumSections(c)
           T == TotalLength(c)
<1>1. c \in 0 .. Len(Configs) - 1 /\ k \in 0 .. L /\ o \in Nat
  BY DEF Place
<1>2. /\ c \in Nat /\ L \in Nat \ {0} /\ SectionStart[c][0] = 0 /\ Size(c, 0) \in Nat
      /\ Size(c, 0) >= ConfDescSize /\ SectionStart[c][0 + 1] = SectionStart[c][0] + Size(c, 0)
      /\ \A j \in 0 .. L - 1 : Size(c, j) \in Nat
  <2>1. /\ c \in Nat /\ L \in Nat \ {0} /\ SectionStart[c][0] = 0 /\ Size(c, 0) >= ConfDescSize
        /\ \A j \in 0 .. L - 1 : Size(c, j) \in Nat
        /\ \A j \in 0 .. L - 1 : SectionStart[c][j + 1] = SectionStart[c][j] + Size(c, j)
    BY <1>1, StartFacts
  <2> HIDE DEF L
  <2>2. 0 \in 0 .. L - 1
    BY <2>1
  <2> QED BY <2>1, <2>2
<1>3. T \in Nat /\ R \in 0 .. T
  BY <1>1, ConfigType, PlaceFacts
<1>4. ConfDescSize \in Nat \ {0}
  BY SizesAssumption
<1>5. h \in Nat /\ h <= n /\ h <= ConfDescSize /\ h \in 0 .. ConfDescSize /\ n - h \in Nat
  BY <1>4 DEF HeaderPart, Least
<1>6. /\ Place(c, k1, o1) /\ Position(c, k1, o1) = R + h
      /\ n - h = 0 \/ Position(c, k1, o1) >= ConfDescSize
      /\ head = Between(c, R, R + h) /\ head \in Seq(Byte)
  <2>1. CASE k = 0 /\ o = 0
    <3>1. h \in {n, ConfDescSize}
      BY <1>4, <2>1 DEF HeaderPart, Least
    <3>2. R = 0
      BY <1>2, <2>1 DEF Position
    <3>3. Place(c, k1, o1) /\ Position(c, k1, o1) = h
      <4>1. CASE Configs[c + 1][1] = h
        <5>1. k1 = 1 /\ o1 = 0
          BY <2>1, <4>1 DEF LoopStart
        <5>2. Size(c, 0) = h
          BY <4>1 DEF Size
        <5>3. SectionStart[c][1] = h
          BY <1>2, <1>5, <5>2
        <5>4. 1 \in 0 .. L /\ (1 # L => Size(c, 1) \in Nat)
          <6> HIDE DEF L
          <6>1. 1 # L => 1 \in 0 .. L - 1
            BY <1>2
          <6> QED BY <1>2, <6>1
        <5> HIDE DEF k1, o1, h
        <5>5. Place(c, 1, 0)
          BY <1>1, <5>4 DEF Place, Size
        <5>6. Position(c, 1, 0) = h
          BY <1>5, <5>3 DEF Position
        <5> QED BY <5>1, <5>5, <5>6
      <4>2. CASE Configs[c + 1][1] # h
        <5>1. k1 = 0 /\ o1 = h
          BY <2>1, <4>2 DEF LoopStart
        <5> HIDE DEF k1, o1, h
        <5>2. Size(c, 0) >= h /\ Size(c, 0) = Configs[c + 1][0 + 1] /\ 0 # L
          <6>1. Size(c, 0) = Configs[c + 1][0 + 1]
            BY DEF Size
          <6> HIDE DEF L
          <6> QED BY <1>2, <1>4, <1>5, <6>1
        <5>3. Place(c, 0, h)
          BY <1>1, <1>2, <1>5, <5>2 DEF Place
        <5>4. Position(c, 0, h) = h
          BY <1>2, <1>5 DEF Position
        <5> QED BY <5>1, <5>3, <5>4
      <4> QED BY <4>1, <4>2
    <3>4. head \in Seq(Byte) /\ head = Between(c, 0, h)
      <4>1. head = Bytes(<<"header", c, 0>>, h)
        BY DEF HeaderBytes
      <4> HIDE DEF h, head
      <4> QED BY <1>1, <1>5, <4>1, HeaderFacts
    <3> HIDE DEF k1, o1, h, head, R
    <3> QED BY <1>4, <1>5, <3>1, <3>2, <3>3, <3>4
  <2>2. CASE ~(k = 0 /\ o = 0)
    <3>1. h = 0 /\ k1 = k /\ o1 = o
      BY <2>2 DEF HeaderPart, LoopStart
    <3>2. head = << >> /\ head \in Seq(Byte)
      <4>1. <<"header", c, 0>> \in Byte
        BY <1>2 DEF Byte
      <4>2. Bytes(<<"header", c, 0>>, 0) \in Seq(Byte) /\ Len(Bytes(<<"header", c, 0>>, 0)) = 0
        BY <4>1, BytesType
      <4> QED BY <3>1, <4>2, EmptySeq DEF HeaderBytes
    <3>3. Between(c, R, R) = << >>
      <4> HIDE DEF R, T
      <4> QED BY <1>1, <1>3, BetweenFacts DEF T
    <3>4. R >= ConfDescSize /\ R + 0 = R
      BY <1>3, <2>2
    <3> HIDE DEF k1, o1, h, head
    <3> QED BY <3>1, <3>2, <3>3, <3>4
  <2> QED BY <2>1, <2>2
<1>7. body = SectionBytes(c, k1, o1, n - h)
  BY DEF Loop
<1> HIDE DEF h, k1, o1, body, head, R, T
<1>8. Position(c, k1, o1) + (n - h) <= T /\ R + n <= T
  BY <1>3, <1>5, <1>6 DEF R, T
<1>9. /\ Place(c, body[1], body[2]) /\ Position(c, body[1], body[2]) = Position(c, k1, o1) + (n - h)
      /\ body[4] = Between(c, Position(c, k1, o1), Position(c, k1, o1) + (n - h))
  <2> DEFINE m == n - h
  <2>1. m \in Nat /\ Position(c, k1, o1) + m <= T /\ (m = 0 \/ Position(c, k1, o1) >= ConfDescSize)
    BY <1>5, <1>6, <1>8
  <2> HIDE DEF m
  <2>2. LET b == SectionBytes(c, k1, o1, m)
        IN  /\ Place(c, b[1], b[2]) /\ Position(c, b[1], b[2]) = Position(c, k1, o1) + m
            /\ b[4] = Between(c, Position(c, k1, o1), Position(c, k1, o1) + m)
    BY <1>6, <2>1, LoopFacts DEF T
  <2>3. body = SectionBytes(c, k1, o1, m)
    BY <1>7 DEF m
  <2> QED BY <2>2, <2>3 DEF m
<1>10. (R + h) + (n - h) = R + n /\ R + n \in Nat /\ R \in Nat /\ R <= R + n /\ R + h \in R .. R + n
       /\ R + h \in Nat /\ R + h <= R + n
  BY <1>3, <1>5
<1>11. body[4] = Between(c, R + h, R + n)
  BY <1>6, <1>9, <1>10
<1>12. /\ Between(c, R, R + n) = Between(c, R, R + h) \o Between(c, R + h, R + n)
       /\ Len(Between(c, R, R + n)) = (R + n) - R
       /\ Between(c, R + h, R + n) \in Seq(Byte)
  <2> DEFINE e == R + n
             d == R + h
  <2>1. e \in Nat /\ d \in Nat /\ R <= e /\ d <= e /\ e <= TotalLength(c) /\ d \in R .. e
    BY <1>8, <1>10 DEF T
  <2> HIDE DEF e, d
  <2>2. Between(c, R, e) = Between(c, R, d) \o Between(c, d, e) /\ Len(Between(c, R, e)) = e - R
    BY <1>1, <1>10, <2>1, BetweenFacts
  <2>3. Between(c, d, e) \in Seq(Byte)
    BY <1>1, <2>1, BetweenFacts
  <2> QED BY <2>2, <2>3 DEF d, e
<1>13. (R + n) - R = n
  BY <1>10
<1>14. Position(c, body[1], body[2]) = R + n
  BY <1>6, <1>9, <1>10
<1> QED BY <1>6, <1>9, <1>11, <1>12, <1>13, <1>14 DEF h, body, head, R

\* USBDEP0StateTxConfig sends the next packet of the configuration.
LEMMA TxConfigFacts ==
    ASSUME NEW s, DeviceOK(s), AtPlace(s.inst),
           (s.inst.ucConfigSection = 0 /\ s.inst.ucSectionOffset = 0)
               \/ Reached(s.inst) >= ConfDescSize
    PROVE  Sent(s, Between(s.inst.ucConfigIndex, Reached(s.inst),
                           Reached(s.inst) + s.inst.ulEP0DataRemain),
                EP0StateTxConfig(s))
<1> DEFINE i == s.inst
           c == i.ucConfigIndex
           k == i.ucConfigSection
           o == i.ucSectionOffset
           m == i.ulEP0DataRemain
           n == Least(m, EP0_MAX_PACKET_SIZE)
           head == HeaderBytes(c, k, o, n)
           body == Loop(c, k, o, n)
           R == Reached(i)
           T == TotalLength(c)
           remain == IF Len(Configs[c + 1]) <= body[1] THEN 0 ELSE m - n
           a0 == DataPut(s, head)
           a == DataPut(a0, body[4])
           j0 == [i EXCEPT !.eEP0State = "TX_CONFIG", !.ulEP0DataRemain = remain,
                           !.ucConfigSection = body[1], !.ucSectionOffset = body[2],
                           !.pEP0Data = IF remain # 0 THEN SectionAt(c, body[1], body[2]) ELSE @]
           b == [a EXCEPT !.inst.eEP0State = "TX_CONFIG", !.inst.ulEP0DataRemain = remain,
                          !.inst.ucConfigSection = body[1], !.inst.ucSectionOffset = body[2],
                          !.inst.pEP0Data = IF remain # 0 THEN SectionAt(c, body[1], body[2])
                                            ELSE @]
           t == EP0StateTxConfig(s)
           j == t.inst
<1>1. /\ i \in Inst /\ s.csr \in Csr /\ s.class \in Class /\ Parts(s)
      /\ Len(s.csr.rx) <= EP0_MAX_PACKET_SIZE /\ Len(s.csr.tx) <= EP0_MAX_PACKET_SIZE
      /\ s.csr.txrdy \/ s.csr.tx = << >>
  BY DEF DeviceOK, Parts
<1>2. /\ Place(c, k, o) /\ R + m <= T /\ R = Position(c, k, o)
      /\ (k = 0 /\ o = 0) \/ R >= ConfDescSize
  BY DEF AtPlace, Reached
<1>3. /\ m \in Nat /\ EP0_MAX_PACKET_SIZE \in Nat \ {0} /\ ConfDescSize <= EP0_MAX_PACKET_SIZE
      /\ ConfDescSize \in Nat /\ c \in 0 .. Len(Configs) - 1 /\ T \in Nat /\ R \in 0 .. T
  <2>1. EP0_MAX_PACKET_SIZE \in Nat \ {0} /\ ConfDescSize <= EP0_MAX_PACKET_SIZE /\ ConfDescSize \in Nat
    BY SizesAssumption
  <2>2. c \in 0 .. Len(Configs) - 1
    BY <1>2 DEF Place
  <2>3. T \in Nat
    BY <2>2, ConfigType
  <2>4. R \in 0 .. T
    BY <1>2, PlaceFacts
  <2> QED BY <1>1, <2>1, <2>2, <2>3, <2>4 DEF Inst
<1>4. n \in Nat /\ n <= m /\ n <= EP0_MAX_PACKET_SIZE /\ n \in {m, EP0_MAX_PACKET_SIZE} /\ m - n \in Nat
  BY <1>3 DEF Least
<1>5. /\ Place(c, body[1], body[2]) /\ Position(c, body[1], body[2]) = R + n
      /\ head \in Seq(Byte) /\ body[4] \in Seq(Byte)
      /\ head \o body[4] = Between(c, R, R + n) /\ Len(Between(c, R, R + n)) = n
  <2>1. R + n <= T
    BY <1>2, <1>3, <1>4
  <2> DEFINE P == Position(c, k, o)
  <2> HIDE DEF n, c, k, o, R
  <2>2. P + n <= T /\ ((k = 0 /\ o = 0) \/ P >= ConfDescSize)
    BY <1>2, <2>1
  <2>5. c \in Nat /\ k \in Nat /\ o \in Nat
    BY <1>2, <1>3, StartFacts DEF Place
  <2> DEFINE x == Loop(c, k, o, n)
             y == HeaderBytes(c, k, o, n)
  <2>3. /\ Place(c, x[1], x[2]) /\ Position(c, x[1], x[2]) = P + n
        /\ y \in Seq(Byte) /\ x[4] \in Seq(Byte)
        /\ y \o x[4] = Between(c, P, P + n) /\ Len(Between(c, P, P + n)) = n
    <3>1. /\ Place(c, k, o) /\ n \in Nat /\ Position(c, k, o) + n <= TotalLength(c)
          /\ (k = 0 /\ o = 0) \/ Position(c, k, o) >= ConfDescSize
      BY <1>2, <1>4, <2>2 DEF T
    <3> HIDE DEF T
    <3> QED BY <2>5, <3>1, PacketFacts
  <2>4. P = R
    BY <1>2
  <2> HIDE DEF P
  <2> QED BY <2>3, <2>4
<1>6. t = SendLast(b, n)
  BY DEF EP0StateTxConfig, SendLast, Loop, HeaderPart, HeaderBytes, LoopStart
<1> HIDE DEF body, head, n, t, T
<1>7. remain = m - n
  <2>1. Len(Configs[c + 1]) = NumSections(c)
    BY DEF NumSections
  <2>2. body[1] \in 0 .. NumSections(c) /\ NumSections(c) \in Nat
    BY <1>3, <1>5, StartFacts DEF Place
  <2>3. CASE NumSections(c) <= body[1]
    <3>1. body[1] = NumSections(c)
      BY <2>2, <2>3
    <3>2. R + n = T
      BY <1>5, <3>1, PlaceFacts DEF T
    <3>3. m - n = 0
      <4> HIDE DEF R, m
      <4> QED BY <1>2, <1>3, <1>4, <3>2
    <3> QED BY <2>1, <2>3, <3>3
  <2>4. CASE ~(NumSections(c) <= body[1])
    BY <2>1, <2>4
  <2> QED BY <2>3, <2>4
<1> HIDE DEF remain
<1>8. /\ Parts(a0) /\ a0.inst = i /\ a0.class = s.class /\ a0.csr \in Csr
      /\ a0.csr = [s.csr EXCEPT !.tx = IF s.csr.txrdy THEN @ ELSE @ \o head]
  BY <1>1, <1>5, PutFacts
<1> HIDE DEF a0
<1>9. /\ Parts(a) /\ a.inst = i /\ a.class = s.class /\ a.csr \in Csr
      /\ a.csr = [a0.csr EXCEPT !.tx = IF a0.csr.txrdy THEN @ ELSE @ \o body[4]]
  <2>1. /\ Parts(a) /\ a.inst = a0.inst /\ a.class = a0.class /\ a.csr \in Csr
        /\ a.csr = [a0.csr EXCEPT !.tx = IF a0.csr.txrdy THEN @ ELSE @ \o body[4]]
    BY <1>5, <1>8, PutFacts
  <2> HIDE DEF a
  <2> QED BY <1>8, <2>1
<1> HIDE DEF a
<1>10. /\ a.csr.tx = (IF s.csr.txrdy THEN s.csr.tx ELSE Between(c, R, R + n))
       /\ a.csr.rx = s.csr.rx
       /\ a.csr.sendstall = s.csr.sendstall /\ a.csr.faddr = s.csr.faddr
       /\ a.csr.txrdy = s.csr.txrdy /\ a.csr.dataend = s.csr.dataend
  <2>1. << >> \o head = head
    BY <1>5, ConcatEmptySeq
  <2>2. /\ a0.csr.tx = (IF s.csr.txrdy THEN s.csr.tx ELSE head) /\ a0.csr.rx = s.csr.rx
        /\ a0.csr.sendstall = s.csr.sendstall /\ a0.csr.faddr = s.csr.faddr
        /\ a0.csr.txrdy = s.csr.txrdy /\ a0.csr.dataend = s.csr.dataend
    BY <1>1, <1>8, <2>1 DEF Csr
  <2>3. /\ a.csr.tx = (IF s.csr.txrdy THEN s.csr.tx ELSE head \o body[4]) /\ a.csr.rx = s.csr.rx
        /\ a.csr.sendstall = s.csr.sendstall /\ a.csr.faddr = s.csr.faddr
        /\ a.csr.txrdy = s.csr.txrdy /\ a.csr.dataend = s.csr.dataend
    BY <1>8, <1>9, <2>2 DEF Csr
  <2> QED BY <1>5, <2>3
<1>11. /\ j0 \in Inst /\ Same(i, j0) /\ j0.ulEP0DataRemain = m - n /\ j0.eEP0State = "TX_CONFIG"
       /\ j0.ucConfigIndex = c /\ j0.ucConfigSection = body[1] /\ j0.ucSectionOffset = body[2]
  <2>1. body[1] \in Nat /\ body[2] \in Nat /\ c \in Nat
    BY <1>3, <1>5, StartFacts DEF Place
  <2>2. SectionAt(c, body[1], body[2]) \in Byte
    BY <2>1 DEF SectionAt, Byte
  <2> HIDE DEF i
  <2> QED BY <1>1, <1>4, <1>7, <2>1, <2>2 DEF Inst, Same, m, c
<1>12. Parts(b) /\ b.inst = j0 /\ b.csr = a.csr /\ b.class = s.class
  <2>1. b = [a EXCEPT !.inst.eEP0State = "TX_CONFIG", !.inst.ulEP0DataRemain = remain,
                      !.inst.ucConfigSection = body[1], !.inst.ucSectionOffset = body[2],
                      !.inst.pEP0Data = IF remain # 0 THEN SectionAt(c, body[1], body[2]) ELSE @]
    OBVIOUS
  <2> HIDE DEF b, c, i
  <2> QED BY <1>9, <2>1 DEF Parts
<1> HIDE DEF b, j0
<1>13. /\ Parts(t) /\ t.class = s.class /\ t.csr \in Csr /\ t.csr.txrdy
       /\ t.csr.tx = (IF s.csr.txrdy THEN s.csr.tx ELSE Between(c, R, R + n))
       /\ t.csr.rx = s.csr.rx
       /\ t.csr.sendstall = s.csr.sendstall /\ t.csr.faddr = s.csr.faddr
       /\ ~s.csr.txrdy => t.csr.dataend = (s.csr.dataend \/ n # EP0_MAX_PACKET_SIZE)
       /\ j = IF n = EP0_MAX_PACKET_SIZE THEN j0
              ELSE [j0 EXCEPT !.eEP0State = "STATUS",
                              !.ulOUTDataSize = IF HasDataSent THEN 0 ELSE @]
  <2> DEFINE u == SendLast(b, n)
  <2>1. Parts(b) /\ b.csr \in Csr
    BY <1>9, <1>12
  <2>2. /\ Parts(u) /\ u.class = b.class /\ u.csr \in Csr
        /\ u.csr.txrdy /\ u.csr.tx = b.csr.tx /\ u.csr.rx = b.csr.rx
        /\ u.csr.sendstall = b.csr.sendstall /\ u.csr.faddr = b.csr.faddr
        /\ ~b.csr.txrdy => u.csr.dataend = (b.csr.dataend \/ n # EP0_MAX_PACKET_SIZE)
        /\ u.inst = IF n = EP0_MAX_PACKET_SIZE THEN b.inst
                    ELSE [b.inst EXCEPT !.eEP0State = "STATUS",
                                   !.ulOUTDataSize = IF HasDataSent THEN 0 ELSE @]
    BY <1>4, <2>1, SendLastFacts
  <2>3. t = u
    BY <1>6
  <2> HIDE DEF u, c, R, i
  <2> QED BY <1>10, <1>12, <2>2, <2>3
<1>14. /\ j \in Inst /\ Same(i, j) /\ j.ulEP0DataRemain = m - n
       /\ j.eEP0State = (IF n = EP0_MAX_PACKET_SIZE THEN "TX_CONFIG" ELSE "STATUS")
       /\ j.ucConfigIndex = c /\ j.ucConfigSection = body[1] /\ j.ucSectionOffset = body[2]
  <2> HIDE DEF j, i, m, c
  <2> QED BY <1>11, <1>13 DEF Inst, Same
<1>15. /\ Place(c, j.ucConfigSection, j.ucSectionOffset) /\ Reached(j) = R + n
       /\ Reached(j) + j.ulEP0DataRemain = R + m
  <2>1. Reached(j) = R + n
    BY <1>5, <1>14 DEF Reached
  <2>2. (R + n) + (m - n) = R + m
    <3> HIDE DEF R, m
    <3> QED BY <1>3, <1>4
  <2> HIDE DEF R, m, j, c
  <2> QED BY <1>5, <1>14, <2>1, <2>2
<1>16. DeviceOK(t) /\ Kept(s, t)
  <2>1. Len(t.csr.tx) <= EP0_MAX_PACKET_SIZE
    BY <1>1, <1>4, <1>5, <1>13
  <2>2. j.ucConfigSection <= NumSections(j.ucConfigIndex)
    <3>1. body[1] \in 0 .. NumSections(c)
      BY <1>5 DEF Place
    <3> HIDE DEF j, c
    <3> QED BY <1>14, <3>1
  <2>3. j.eEP0State = "TX_CONFIG" => AtPlace(j) /\ Reached(j) >= ConfDescSize
    <3>1. AtPlace(j)
      <4> HIDE DEF R, m, j, c
      <4> QED BY <1>2, <1>14, <1>15 DEF AtPlace, T
    <3>2. n = EP0_MAX_PACKET_SIZE => R + n >= ConfDescSize
      <4> HIDE DEF R
      <4> QED BY <1>3, <1>4
    <3> HIDE DEF R, j
    <3> QED BY <1>14, <1>15, <3>1, <3>2
  <2> HIDE DEF R, m, c
  <2>4. Kept(s, t)
    BY <1>13, <1>14 DEF Kept
  <2>5. DeviceOK(t)
    <3>1. t.class \in Class /\ Len(t.csr.rx) <= EP0_MAX_PACKET_SIZE
      BY <1>1, <1>13
    <3>2. Parts(t) /\ t.csr \in Csr /\ t.csr.txrdy /\ t.inst \in Inst
      BY <1>13, <1>14
    <3> QED BY <2>1, <2>2, <2>3, <3>1, <3>2 DEF DeviceOK, Parts
  <2> QED BY <2>4, <2>5
<1>17. ASSUME ~s.csr.txrdy
       PROVE  /\ Between(c, R, R + m) = t.csr.tx \o Rest(j)
              /\ IF j.eEP0State = "STATUS" THEN Len(t.csr.tx) < EP0_MAX_PACKET_SIZE
                 ELSE Len(t.csr.tx) = EP0_MAX_PACKET_SIZE /\ t.csr.dataend = s.csr.dataend
  <2> HIDE DEF R, m, j, c
  <2>1. t.csr.tx = Between(c, R, R + n) /\ Len(Between(c, R, R + n)) = n
    <3>1. t.csr.tx = Between(c, R, R + n)
      BY <1>13, <1>17
    <3>2. Len(Between(c, R, R + n)) = n
      BY <1>5
    <3> QED BY <3>1, <3>2
  <2>2. CASE n = EP0_MAX_PACKET_SIZE
    <3>1. R \in Nat /\ R + m \in Nat /\ R <= R + m /\ R + m <= T /\ R + n \in R .. R + m
      BY <1>2, <1>3, <1>4
    <3>2. Between(c, R, R + m) = Between(c, R, R + n) \o Between(c, R + n, R + m)
      BY <1>3, <3>1, BetweenFacts, ZenonT(40) DEF T
    <3>3. Rest(j) = Between(c, R + n, R + m) /\ j.eEP0State = "TX_CONFIG"
      BY <1>14, <1>15, <2>2 DEF Rest
    <3>4. t.csr.dataend = s.csr.dataend
      BY <1>1, <1>13, <1>17, <2>2 DEF Csr
    <3> QED BY <2>1, <2>2, <3>2, <3>3, <3>4
  <2>3. CASE n # EP0_MAX_PACKET_SIZE
    <3>1. n = m /\ n < EP0_MAX_PACKET_SIZE
      BY <1>3, <1>4, <2>3
    <3>2. j.eEP0State = "STATUS" /\ Rest(j) = << >>
      BY <1>14, <2>3 DEF Rest
    <3>3. Between(c, R, R + n) \o << >> = Between(c, R, R + n)
      <4>1. Between(c, R, R + n) \in Seq(Byte)
        <5>1. R \in Nat /\ R + n \in Nat /\ R <= R + n /\ R + n <= T
          BY <1>2, <1>3, <1>4
        <5> QED BY <1>3, <5>1, BetweenFacts DEF T
      <4> QED BY <4>1, ConcatEmptySeq
    <3> QED BY <2>1, <3>1, <3>2, <3>3
  <2> QED BY <2>2, <2>3
<1>18. j.eEP0State \in {"TX", "TX_CONFIG", "STATUS"}
  <2> HIDE DEF j
  <2> QED BY <1>14
<1> QED BY <1>13, <1>16, <1>17, <1>18 DEF Sent, t

-----------------------------------------------------------------------------
(* The standard requests.                                                  *)

\* The device can take a request, and the packet of no transfer before is in its way.
Ready(s) ==
    DeviceOK(s) /\ s.inst.eEP0State = "IDLE" /\ ~s.inst.pending /\ ~s.csr.sendstall
Clean(s) == ~s.csr.txrdy /\ ~s.csr.dataend

\* What every request leaves as it is, and the SETUP packet has been read.
Read(s, t) ==
    /\ DeviceOK(t) /\ t.csr.faddr = s.csr.faddr /\ t.class.told = s.class.told
    /\ t.csr.rx = << >>

\* The four ways a request r of host h ends, when the device goes from s to t: it is
\* refused, its answer is on its way, its data is awaited, or it is carried out.
Refuses(s, r, t) ==
    /\ Read(s, t) /\ Same(s.inst, t.inst) /\ t.csr.sendstall /\ t.inst.eEP0State # "RX"
    /\ ~Serves(r)
Replies(s, r, h, t) ==
    /\ Read(s, t) /\ Same(s.inst, t.inst) /\ ~t.csr.sendstall /\ t.csr.txrdy
    /\ r.kind # "CLASS_OUT" /\ r.length > 0 /\ Serves(r) /\ Believed(r, h) = h
    /\ t.inst.eEP0State \in {"TX", "TX_CONFIG", "STATUS"}
    /\ Clean(s) =>
           /\ IF t.inst.eEP0State = "STATUS" THEN Len(t.csr.tx) < EP0_MAX_PACKET_SIZE
              ELSE Len(t.csr.tx) = EP0_MAX_PACKET_SIZE /\ ~t.csr.dataend
           /\ Len(t.csr.tx \o Rest(t.inst)) <= r.length
           /\ NoStray => \E a \in AnswersTo(r, h) : Owed(r, a) = t.csr.tx \o Rest(t.inst)
Awaits(s, r, t) ==
    /\ Read(s, t) /\ Same(s.inst, t.inst) /\ ~t.csr.sendstall
    /\ Clean(s) => ~t.csr.dataend
    /\ r.kind = "CLASS_OUT" /\ r.length > 0 /\ t.inst.eEP0State = "RX"
    /\ t.inst.ulOUTDataSize = r.length /\ t.inst.ulEP0DataRemain = r.length
    /\ t.class.buffer = << >>
CarriesOut(s, r, h, t) ==
    /\ Read(s, t) /\ ~t.csr.sendstall
    /\ r.length = 0 /\ (Serves(r) \/ Stray(r)) /\ Knows(t.inst, Believed(r, h))
    /\ IF r.kind = "SET_ADDRESS"
       THEN t.inst.eEP0State = "STATUS" /\ t.inst.pending /\ t.inst.ulDevAddress = r.value
       ELSE t.inst.eEP0State = "IDLE" /\ ~t.inst.pending
Outcome(s, r, h, t) ==
    Refuses(s, r, t) \/ Replies(s, r, h, t) \/ Awaits(s, r, t) \/ CarriesOut(s, r, h, t)

\* The SETUP packet is acknowledged.
LEMMA DataAckFacts ==
    ASSUME NEW s, DeviceOK(s), NEW last \in BOOLEAN
    PROVE  LET a == DataAck(s, last)
           IN  /\ DeviceOK(a) /\ Read(s, a) /\ a.inst = s.inst /\ a.class = s.class
               /\ a.csr.sendstall = s.csr.sendstall /\ a.csr.txrdy = s.csr.txrdy
               /\ a.csr.tx = s.csr.tx /\ a.csr.dataend = (s.csr.dataend \/ last)
<1> DEFINE a == DataAck(s, last)
           e == [s.csr EXCEPT !.rx = << >>, !.dataend = @ \/ last]
<1>1. s.csr \in Csr /\ Parts(s)
  BY DEF DeviceOK, Parts
<1>2. a = [s EXCEPT !.csr.rx = << >>, !.csr.dataend = @ \/ last]
  BY DEF DataAck
<1> HIDE DEF a
<1>3. Parts(a) /\ a.inst = s.inst /\ a.class = s.class /\ a.csr = e
  BY <1>1, <1>2 DEF Parts
<1>4. /\ e \in Csr /\ e.rx = << >> /\ e.sendstall = s.csr.sendstall /\ e.faddr = s.csr.faddr
      /\ e.tx = s.csr.tx /\ e.txrdy = s.csr.txrdy /\ e.dataend = (s.csr.dataend \/ last)
  <2>1. << >> \in Seq(Byte)
    OBVIOUS
  <2>2. e = [s.csr EXCEPT !.rx = << >>, !.dataend = @ \/ last]
    OBVIOUS
  <2> HIDE DEF e
  <2> QED BY <1>1, <2>1, <2>2 DEF Csr
<1> HIDE DEF e
<1>5. Len(e.rx) <= EP0_MAX_PACKET_SIZE
  BY <1>4, SizesAssumption
<1>6. DeviceOK(a)
  BY <1>3, <1>4, <1>5 DEF DeviceOK, Parts
<1> QED BY <1>3, <1>4, <1>6 DEF Read, a

\* A stalled endpoint.
LEMMA StallFacts ==
    ASSUME NEW s, DeviceOK(s)
    PROVE  LET t == StallEP0(s)
           IN  /\ DeviceOK(t) /\ Read(s, t) /\ Same(s.inst, t.inst) /\ t.class = s.class
               /\ t.csr.sendstall /\ t.inst.eEP0State = "STALL"
               /\ t.inst.pEP0Data = s.inst.pEP0Data
<1> DEFINE t == StallEP0(s)
           e == [s.csr EXCEPT !.sendstall = TRUE, !.rx = << >>]
           j == [s.inst EXCEPT !.eEP0State = "STALL"]
<1>1. s.inst \in Inst /\ s.csr \in Csr /\ Parts(s)
  BY DEF DeviceOK, Parts
<1>2. t = [s EXCEPT !.csr.sendstall = TRUE, !.csr.rx = << >>, !.inst.eEP0State = "STALL"]
  BY DEF StallEP0
<1> HIDE DEF t
<1>3. Parts(t) /\ t.inst = j /\ t.class = s.class /\ t.csr = e
  BY <1>1, <1>2 DEF Parts
<1>4. /\ e \in Csr /\ e.rx = << >> /\ e.sendstall /\ e.faddr = s.csr.faddr
      /\ e.tx = s.csr.tx /\ e.txrdy = s.csr.txrdy
  <2>1. << >> \in Seq(Byte)
    OBVIOUS
  <2>2. e = [s.csr EXCEPT !.sendstall = TRUE, !.rx = << >>]
    OBVIOUS
  <2> HIDE DEF e
  <2> QED BY <1>1, <2>1, <2>2 DEF Csr
<1>5. /\ j \in Inst /\ Same(s.inst, j) /\ j.eEP0State = "STALL" /\ j.pEP0Data = s.inst.pEP0Data
      /\ j.ucConfigSection = s.inst.ucConfigSection /\ j.ucConfigIndex = s.inst.ucConfigIndex
  BY <1>1 DEF Inst, Same
<1> HIDE DEF e, j
<1>6. Len(e.rx) <= EP0_MAX_PACKET_SIZE
  BY <1>4, SizesAssumption
<1>7. DeviceOK(t)
  BY <1>3, <1>4, <1>5, <1>6 DEF DeviceOK, Parts
<1> QED BY <1>3, <1>4, <1>5, <1>7 DEF Read, t

\* Only the instance changes, and it is idle.
LEMMA InstFacts ==
    ASSUME NEW s, DeviceOK(s), NEW t, Parts(t), t.csr = s.csr, t.class = s.class,
           t.inst \in Inst, t.inst.eEP0State # "TX_CONFIG",
           t.inst.ucConfigSection <= NumSections(t.inst.ucConfigIndex)
    PROVE  DeviceOK(t)
BY DEF DeviceOK, Parts

\* An idle device is pointed at n bytes, and sends the first of them.
LEMMA PointFacts ==
    ASSUME NEW s, DeviceOK(s), s.inst.eEP0State # "TX_CONFIG", NEW p \in Byte, NEW n \in Nat, NEW t, Parts(t),
           t.csr = s.csr, t.class = s.class,
           t.inst = [s.inst EXCEPT !.pEP0Data = p, !.ulEP0DataRemain = n]
    PROVE  Sent(s, Bytes(p, n), EP0StateTx(t))
<1>1. s.inst \in Inst /\ s.inst.ucConfigSection <= NumSections(s.inst.ucConfigIndex)
  BY DEF DeviceOK
<1>2. /\ t.inst \in Inst /\ Same(s.inst, t.inst) /\ t.inst.pEP0Data = p /\ t.inst.ulEP0DataRemain = n
      /\ t.inst.eEP0State = s.inst.eEP0State
      /\ t.inst.ucConfigSection = s.inst.ucConfigSection
      /\ t.inst.ucConfigIndex = s.inst.ucConfigIndex
  BY <1>1 DEF Inst, Same
<1>3. DeviceOK(t)
  BY <1>1, <1>2, InstFacts
<1>4. Sent(t, Bytes(p, n), EP0StateTx(t))
  BY <1>2, <1>3, TxFacts
<1> QED BY <1>2, <1>4 DEF Sent, Kept, Same

\* SendValue, from an idle device.
LEMMA SendValueFacts ==
    ASSUME NEW s, DeviceOK(s), s.inst.eEP0State # "TX_CONFIG", NEW source, NEW v,
           <<source, v, 0>> \in Byte, NEW n \in Nat
    PROVE  Sent(s, Bytes(<<source, v, 0>>, n), SendValue(s, source, v, n))
<1> DEFINE p == <<source, v, 0>>
           t == [s EXCEPT !.inst.pEP0Data = p, !.inst.ulEP0DataRemain = n]
<1>1. Parts(s)
  BY DEF DeviceOK, Parts
<1>2. SendValue(s, source, v, n) = EP0StateTx(t)
  BY DEF SendValue
<1>3. p \in Byte
  OBVIOUS
<1>4. t = [s EXCEPT !.inst.pEP0Data = p, !.inst.ulEP0DataRemain = n]
  OBVIOUS
<1> HIDE DEF p, t
<1>5. /\ Parts(t) /\ t.csr = s.csr /\ t.class = s.class
      /\ t.inst = [s.inst EXCEPT !.pEP0Data = p, !.ulEP0DataRemain = n]
  BY <1>1, <1>4 DEF Parts
<1>6. Sent(s, Bytes(p, n), EP0StateTx(t))
  BY <1>3, <1>5, PointFacts
<1> QED BY <1>2, <1>6 DEF p

\* The SETUP packet of a request has been acknowledged, and nothing else is done yet.
Acked(s, a) ==
    /\ Read(s, a) /\ Same(s.inst, a.inst) /\ a.inst.eEP0State # "TX_CONFIG"
    /\ ~a.csr.sendstall /\ (Clean(s) => Clean(a))

\* Acknowledging the SETUP packet of a device that is ready changes no setting.
LEMMA AckedFacts ==
    ASSUME NEW s, Ready(s)
    PROVE  /\ Acked(s, DataAck(s, FALSE)) /\ DataAck(s, FALSE).inst = s.inst
           /\ DeviceOK(DataAck(s, FALSE))
<1> DEFINE a == DataAck(s, FALSE)
<1>1. DeviceOK(s)
  BY DEF Ready
<1>2. /\ DeviceOK(a) /\ Read(s, a) /\ a.inst = s.inst /\ a.class = s.class
      /\ a.csr.sendstall = s.csr.sendstall /\ a.csr.txrdy = s.csr.txrdy
      /\ a.csr.dataend = (s.csr.dataend \/ FALSE)
  BY <1>1, DataAckFacts
<1> HIDE DEF a
<1>3. Acked(s, a)
  BY <1>2 DEF Ready, Clean, Acked, Same
<1> QED BY <1>2, <1>3 DEF a

\* The part of a stretch of bytes that a host asks for.
LEMMA OwedFacts ==
    ASSUME NEW p \in Byte, NEW n \in Nat, NEW r, r.length \in Nat
    PROVE  /\ Owed(r, Bytes(p, n)) = Bytes(p, Least(n, r.length))
           /\ Least(n, r.length) \in Nat /\ Least(n, r.length) <= r.length
<1> DEFINE m == Least(n, r.length)
           x == Bytes(p, m)
           y == Bytes(Behind(p, m), n - m)
<1>1. m \in Nat /\ m <= n /\ m <= r.length
  BY DEF Least
<1> HIDE DEF m
<1>2. x \in Seq(Byte) /\ Len(x) = m /\ Behind(p, m) \in Byte /\ Len(Bytes(p, n)) = n
  BY <1>1, BytesType
<1>3. y \in Seq(Byte) /\ Len(y) = n - m
  <2>1. n - m \in Nat
    BY <1>1
  <2> QED BY <1>2, <2>1, BytesType
<1>4. Bytes(p, n) = x \o y
  BY <1>1, BytesSplit
<1>5. Owed(r, Bytes(p, n)) = SubSeq(Bytes(p, n), 1, m)
  BY <1>2 DEF Owed, m
<1> HIDE DEF x, y
<1>6. SubSeq(x \o y, 1, Len(x)) = x
  BY <1>2, <1>3, ConcatSimplifications, SubSeqOfConcat1, SubSeqFull
<1> QED BY <1>1, <1>2, <1>4, <1>5, <1>6 DEF m, x

\* A request that reads is answered when what is sent is the part the host asks for of
\* an answer it may have.
LEMMA ReplyFacts ==
    ASSUME NEW s, NEW a, Acked(s, a), NEW bytes, NEW t, Sent(a, bytes, t), NEW r, NEW h,
           r.kind # "CLASS_OUT", r.length > 0, Serves(r), Believed(r, h) = h,
           Len(bytes) <= r.length,
           NoStray => \E x \in AnswersTo(r, h) : Owed(r, x) = bytes
    PROVE  Replies(s, r, h, t)
<1>1. /\ DeviceOK(t) /\ Kept(a, t) /\ t.csr.txrdy
      /\ t.inst.eEP0State \in {"TX", "TX_CONFIG", "STATUS"}
  BY DEF Sent
<1>2. Read(s, t) /\ Same(s.inst, t.inst) /\ ~t.csr.sendstall
  BY <1>1 DEF Acked, Read, Kept, Same
<1>3. ASSUME Clean(s)
      PROVE  /\ bytes = t.csr.tx \o Rest(t.inst)
             /\ IF t.inst.eEP0State = "STATUS" THEN Len(t.csr.tx) < EP0_MAX_PACKET_SIZE
                ELSE Len(t.csr.tx) = EP0_MAX_PACKET_SIZE /\ ~t.csr.dataend
  BY <1>3 DEF Sent, Acked, Clean
<1> QED BY <1>1, <1>2, <1>3 DEF Replies

\* The answer starts at p and is n bytes long.
LEMMA StretchFacts ==
    ASSUME NEW s, NEW a, Acked(s, a), NEW p \in Byte, NEW n \in Nat, NEW r, NEW h, NEW t,
           r.length \in Nat, Sent(a, Bytes(p, Least(n, r.length)), t),
           r.kind # "CLASS_OUT", r.length > 0, Serves(r), Believed(r, h) = h,
           NoStray => Bytes(p, n) \in AnswersTo(r, h)
    PROVE  Replies(s, r, h, t)
<1> DEFINE m == Least(n, r.length)
<1>1. Owed(r, Bytes(p, n)) = Bytes(p, m) /\ m \in Nat /\ m <= r.length
  BY OwedFacts
<1> HIDE DEF m
<1>2. Len(Bytes(p, m)) = m
  BY <1>1, BytesType
<1>3. NoStray => \E x \in AnswersTo(r, h) : Owed(r, x) = Bytes(p, m)
  BY <1>1
<1>4. Sent(a, Bytes(p, m), t)
  BY DEF m
<1>5. Len(Bytes(p, m)) <= r.length
  BY <1>1, <1>2
<1> QED BY <1>3, <1>4, <1>5, ReplyFacts

\* The answer is one value, of the length that is asked for.
LEMMA ValueFacts ==
    ASSUME NEW s, NEW a, Acked(s, a), NEW source, NEW v, <<source, v, 0>> \in Byte,
           NEW n \in Nat \ {0}, NEW r, NEW h, r.length = n,
           r.kind # "CLASS_OUT", Serves(r), Believed(r, h) = h,
           NoStray => Bytes(<<source, v, 0>>, n) \in AnswersTo(r, h)
    PROVE  Replies(s, r, h, SendValue(a, source, v, n))
<1> DEFINE p == <<source, v, 0>>
           t == SendValue(a, source, v, n)
<1>1. DeviceOK(a) /\ a.inst.eEP0State # "TX_CONFIG"
  BY DEF Acked, Read
<1>2. Sent(a, Bytes(p, n), t)
  BY <1>1, SendValueFacts
<1>3. Least(n, r.length) = n /\ r.length \in Nat /\ r.length > 0
  BY DEF Least
<1>4. p \in Byte /\ (NoStray => Bytes(p, n) \in AnswersTo(r, h))
  OBVIOUS
<1> HIDE DEF p, t
<1>5. Sent(a, Bytes(p, Least(n, r.length)), t)
  BY <1>2, <1>3
<1>6. Replies(s, r, h, t)
  BY <1>3, <1>4, <1>5, StretchFacts
<1> QED BY <1>6 DEF t

\* A request is refused by a stall, whatever is sent behind it.
LEMMA RefuseFacts ==
    ASSUME NEW s, NEW a, Read(s, a), Same(s.inst, a.inst), NEW r, ~Serves(r)
    PROVE  /\ Refuses(s, r, StallEP0(a))
           /\ r.length \in Nat => Refuses(s, r, SendDescriptor(StallEP0(a), r, FALSE))
<1> DEFINE t == StallEP0(a)
<1>1. DeviceOK(a)
  BY DEF Read
<1>2. /\ DeviceOK(t) /\ Read(a, t) /\ Same(a.inst, t.inst) /\ t.class = a.class
      /\ t.csr.sendstall /\ t.inst.eEP0State = "STALL"
  BY <1>1, StallFacts
<1> HIDE DEF t
<1>3. Refuses(s, r, t)
  BY <1>2 DEF Refuses, Read, Same
<1>4. ASSUME r.length \in Nat PROVE Refuses(s, r, SendDescriptor(t, r, FALSE))
  <2> DEFINE u == [t EXCEPT !.inst.ulEP0DataRemain = Least(@, r.length)]
             v == EP0StateTx(u)
             bytes == Bytes(u.inst.pEP0Data, u.inst.ulEP0DataRemain)
  <2>1. Parts(t) /\ t.inst \in Inst
    BY <1>2 DEF DeviceOK, Parts
  <2>2. u = [t EXCEPT !.inst.ulEP0DataRemain = Least(@, r.length)]
    OBVIOUS
  <2>6. SendDescriptor(t, r, FALSE) = IF t.inst.pEP0Data = NoPointer THEN t ELSE v
    BY DEF SendDescriptor
  <2> HIDE DEF u
  <2>3. /\ Parts(u) /\ u.csr = t.csr /\ u.class = t.class
        /\ u.inst = [t.inst EXCEPT !.ulEP0DataRemain = Least(@, r.length)]
    BY <2>1, <2>2 DEF Parts
  <2>4. /\ u.inst \in Inst /\ Same(t.inst, u.inst) /\ u.inst.eEP0State = "STALL"
        /\ u.inst.ucConfigSection = t.inst.ucConfigSection
        /\ u.inst.ucConfigIndex = t.inst.ucConfigIndex
    <3>1. Least(t.inst.ulEP0DataRemain, r.length) \in Nat
      BY <1>4, <2>1 DEF Inst, Least
    <3> QED BY <1>2, <2>1, <2>3, <3>1 DEF Inst, Same
  <2>5. DeviceOK(u)
    BY <1>2, <2>1, <2>3, <2>4, InstFacts DEF DeviceOK
  <2> HIDE DEF v, bytes
  <2>7. Sent(u, bytes, v)
    BY <2>5, TxFacts DEF v, bytes
  <2>8. Refuses(s, r, v)
    BY <1>2, <2>3, <2>4, <2>7 DEF Sent, Kept, Refuses, Read, Same
  <2> QED BY <1>3, <2>6, <2>8
<1> QED BY <1>3, <1>4 DEF t

\* The requests for a status.
LEMMA GetStatusOutcome ==
    ASSUME NEW s, Ready(s), NEW h, Knows(s.inst, h), NEW r, WellFormed(r),
           r.kind \in {"GET_STATUS_DEVICE", "GET_STATUS_INTERFACE", "GET_STATUS_EP",
                       "GET_STATUS_OTHER"}
    PROVE  Outcome(s, r, h, GetStatus(s, r))
<1> DEFINE a == DataAck(s, FALSE)
           i == s.inst
<1>1. Acked(s, a) /\ DeviceOK(a) /\ i \in Inst /\ a.inst = i
  <2>1. i \in Inst
    BY DEF Ready, DeviceOK
  <2> QED BY <2>1, AckedFacts
<1>2. /\ r.kind # "CLASS_OUT" /\ Believed(r, h) = h
      /\ r.kind # "GET_STATUS_OTHER" => r.length = 2
  BY DEF WellFormed, Believed
<1> HIDE DEF a, i
<1>3. CASE r.kind = "GET_STATUS_DEVICE"
  <2>1. <<"status", i.remoteWake, 0>> \in Byte
    <3>1. i.remoteWake \in Nat
      BY <1>1 DEF Inst
    <3> QED BY <3>1 DEF Byte
  <2>2. Bytes(<<"status", i.remoteWake, 0>>, 2) \in AnswersTo(r, h)
    BY <1>3 DEF AnswersTo, Knows, i
  <2>3. Serves(r)
    BY <1>3 DEF Serves
  <2>4. GetStatus(s, r) = SendValue(a, "status", i.remoteWake, 2)
    BY <1>3 DEF GetStatus, a, i
  <2>5. Replies(s, r, h, SendValue(a, "status", i.remoteWake, 2))
    BY <1>1, <1>2, <1>3, <2>1, <2>2, <2>3, ValueFacts
  <2> QED BY <2>4, <2>5 DEF Outcome
<1>4. CASE r.kind = "GET_STATUS_EP" /\ r.value \in Endpoints
  <2> DEFINE v == i.ucHalt[r.value]
  <2>1. <<"halt", v, 0>> \in Byte
    <3>1. v \in {0, 1}
      BY <1>1, <1>4 DEF Inst
    <3> HIDE DEF v
    <3>2. v \in Nat
      BY <3>1
    <3> QED BY <3>2 DEF Byte
  <2>2. NoStray => Bytes(<<"halt", v, 0>>, 2) \in AnswersTo(r, h)
    BY <1>4 DEF AnswersTo, Knows, i
  <2>3. Serves(r)
    BY <1>4 DEF Serves
  <2>4. GetStatus(s, r) = SendValue(a, "halt", v, 2)
    BY <1>4 DEF GetStatus, a, i
  <2> HIDE DEF v
  <2>5. Replies(s, r, h, SendValue(a, "halt", v, 2))
    BY <1>1, <1>2, <1>4, <2>1, <2>2, <2>3, ValueFacts
  <2> QED BY <2>4, <2>5 DEF Outcome
<1>6. CASE r.kind = "GET_STATUS_INTERFACE"
  <2>1. <<"interface_status", 0, 0>> \in Byte
    BY DEF Byte
  <2>2. Bytes(<<"interface_status", 0, 0>>, 2) \in AnswersTo(r, h) /\ Serves(r)
    BY <1>6 DEF AnswersTo, Serves
  <2>4. GetStatus(s, r) = SendValue(a, "interface_status", 0, 2)
    BY <1>6 DEF GetStatus, a
  <2>5. Replies(s, r, h, SendValue(a, "interface_status", 0, 2))
    BY <1>1, <1>2, <1>6, <2>1, <2>2, ValueFacts
  <2> QED BY <2>4, <2>5 DEF Outcome
<1>5. CASE r.kind = "GET_STATUS_OTHER" \/ (r.kind = "GET_STATUS_EP" /\ r.value \notin Endpoints)
  <2>1. GetStatus(s, r) = StallEP0(a)
    BY <1>5 DEF GetStatus, a
  <2>2. ~Serves(r)
    BY <1>5 DEF Serves
  <2> DEFINE t == StallEP0(a)
  <2>3. /\ Read(a, t) /\ Same(a.inst, t.inst) /\ t.class = a.class /\ t.csr.sendstall
        /\ t.inst.eEP0State = "STALL"
    BY <1>1, StallFacts
  <2> HIDE DEF t
  <2>4. Refuses(s, r, t)
    BY <1>1, <2>2, <2>3 DEF Refuses, Read, Acked, Same
  <2> QED BY <2>1, <2>4 DEF Outcome, t
<1> QED BY <1>3, <1>4, <1>5, <1>6

\* The requests for the settings.
LEMMA GetSettingOutcome ==
    ASSUME NEW s, Ready(s), NEW h, Knows(s.inst, h), NEW r, WellFormed(r)
    PROVE  /\ r.kind = "GET_CONFIGURATION" => Outcome(s, r, h, GetConfiguration(s))
           /\ r.kind = "GET_INTERFACE" => Outcome(s, r, h, GetInterface(s, r))
<1> DEFINE a == DataAck(s, FALSE)
           i == s.inst
<1>1. Acked(s, a) /\ DeviceOK(a) /\ i \in Inst /\ ~i.pending
  <2>1. i \in Inst /\ ~i.pending
    BY DEF Ready, DeviceOK
  <2> QED BY <2>1, AckedFacts
<1> HIDE DEF a, i
<1>2. ASSUME r.kind = "GET_CONFIGURATION" PROVE Outcome(s, r, h, GetConfiguration(s))
  <2> DEFINE v == i.ulConfiguration
  <2>1. v \in 0 .. Len(Configs) /\ v \in Nat
    <3>1. v \in 0 .. Len(Configs)
      BY <1>1 DEF Inst
    <3>2. Len(Configs) \in Nat
      BY SizesAssumption
    <3> HIDE DEF v
    <3> QED BY <3>1, <3>2
  <2>2. r.length = 1 /\ r.kind # "CLASS_OUT" /\ Believed(r, h) = h /\ Serves(r)
    BY <1>2 DEF WellFormed, Believed, Serves
  <2>3. v \in Known(h.config, 0 .. Len(Configs))
    BY <2>1 DEF Known, Knows, i
  <2>4. GetConfiguration(s) = SendValue(a, "configuration", v, 1)
    BY <1>1 DEF GetConfiguration, a, i
  <2> HIDE DEF v
  <2>5. Bytes(<<"configuration", v, 0>>, 1) \in AnswersTo(r, h)
    BY <1>2, <2>3 DEF AnswersTo
  <2>6. <<"configuration", v, 0>> \in Byte
    BY <2>1 DEF Byte
  <2>7. Replies(s, r, h, SendValue(a, "configuration", v, 1))
    BY <1>1, <2>2, <2>5, <2>6, ValueFacts
  <2> QED BY <2>4, <2>7 DEF Outcome
<1>3. ASSUME r.kind = "GET_INTERFACE" PROVE Outcome(s, r, h, GetInterface(s, r))
  <2> DEFINE v == i.altSetting
             n == r.value
  <2>1. v \in Alternates /\ 0 \in Nat
    BY <1>1 DEF Inst
  <2>2. r.length = 1 /\ r.kind # "CLASS_OUT" /\ Believed(r, h) = h
        /\ n \in Nat /\ USB_MAX_INTERFACES_PER_DEVICE \in Nat \ {0}
    BY <1>3, SizesAssumption DEF WellFormed, Believed
  <2>3. v \in Known(h.alt, Alternates)
    BY <2>1 DEF Known, Knows, i
  <2>4. GetInterface(s, r) = IF n >= USB_MAX_INTERFACES_PER_DEVICE THEN StallEP0(a)
                             ELSE SendValue(a, "interface", IF n = 0 THEN v ELSE 0, 1)
    BY <1>1 DEF GetInterface, a, i
  <2> HIDE DEF v
  <2>5. CASE n = 0
    <3>1. Bytes(<<"interface", v, 0>>, 1) \in AnswersTo(r, h) /\ Serves(r)
      BY <1>3, <2>2, <2>3, <2>5 DEF AnswersTo, Serves
    <3>2. <<"interface", v, 0>> \in Byte
      BY <2>1 DEF Byte
    <3>3. Replies(s, r, h, SendValue(a, "interface", v, 1))
      BY <1>1, <2>2, <3>1, <3>2, ValueFacts
    <3> QED BY <2>2, <2>4, <2>5, <3>3 DEF Outcome
  <2>6. CASE n # 0 /\ n < USB_MAX_INTERFACES_PER_DEVICE
    <3>1. Bytes(<<"interface", 0, 0>>, 1) \in AnswersTo(r, h) /\ Serves(r)
      <4>1. n \in 1 .. USB_MAX_INTERFACES_PER_DEVICE - 1
        BY <2>2, <2>6
      <4> QED BY <1>3, <2>6, <4>1 DEF AnswersTo, Serves
    <3>2. <<"interface", 0, 0>> \in Byte
      BY DEF Byte
    <3>3. Replies(s, r, h, SendValue(a, "interface", 0, 1))
      BY <1>1, <2>2, <3>1, <3>2, ValueFacts
    <3> QED BY <2>2, <2>4, <2>6, <3>3 DEF Outcome
  <2>7. CASE ~(n < USB_MAX_INTERFACES_PER_DEVICE)
    <3>1. GetInterface(s, r) = StallEP0(a)
      BY <2>2, <2>4, <2>7
    <3>2. ~Serves(r)
      BY <1>3, <2>7 DEF Serves
    <3>3. Refuses(s, r, StallEP0(a))
      BY <1>1, <3>2, RefuseFacts DEF Acked
    <3> QED BY <3>1, <3>3 DEF Outcome
  <2> QED BY <2>5, <2>6, <2>7
<1> QED BY <1>2, <1>3

\* A descriptor in one piece is sent, as much of it as the host asks for.
LEMMA DescriptorFacts ==
    ASSUME NEW a, DeviceOK(a), a.inst.eEP0State # "TX_CONFIG", NEW p \in Byte, p # NoPointer,
           NEW n \in Nat, NEW r, r.length \in Nat
    PROVE  Sent(a, Bytes(p, Least(n, r.length)),
                SendDescriptor([a EXCEPT !.inst.pEP0Data = p, !.inst.ulEP0DataRemain = n],
                               r, FALSE))
<1> DEFINE m == Least(n, r.length)
           t == [a EXCEPT !.inst.pEP0Data = p, !.inst.ulEP0DataRemain = n]
           u == [t EXCEPT !.inst.ulEP0DataRemain = Least(@, r.length)]
<1>1. Parts(a) /\ a.inst \in Inst
  BY DEF DeviceOK, Parts
<1>2. m \in Nat
  BY DEF Least
<1>3. t = [a EXCEPT !.inst.pEP0Data = p, !.inst.ulEP0DataRemain = n]
  OBVIOUS
<1> HIDE DEF t
<1>4. /\ Parts(t) /\ t.csr = a.csr /\ t.class = a.class
      /\ t.inst = [a.inst EXCEPT !.pEP0Data = p, !.ulEP0DataRemain = n]
  BY <1>1, <1>3 DEF Parts
<1>5. t.inst.pEP0Data = p /\ t.inst.ulEP0DataRemain = n
  BY <1>1, <1>4 DEF Inst
<1>6. SendDescriptor(t, r, FALSE) = EP0StateTx(u)
  BY <1>5 DEF SendDescriptor
<1>7. u = [t EXCEPT !.inst.ulEP0DataRemain = Least(@, r.length)]
  OBVIOUS
<1> HIDE DEF u
<1>8. /\ Parts(u) /\ u.csr = a.csr /\ u.class = a.class
      /\ u.inst = [t.inst EXCEPT !.ulEP0DataRemain = m]
  BY <1>4, <1>5, <1>7 DEF Parts
<1>9. u.inst = [a.inst EXCEPT !.pEP0Data = p, !.ulEP0DataRemain = m]
  <2> HIDE DEF m
  <2> QED BY <1>1, <1>4, <1>8 DEF Inst
<1> HIDE DEF m
<1>10. Sent(a, Bytes(p, m), EP0StateTx(u))
  BY <1>2, <1>8, <1>9, PointFacts
<1> QED BY <1>6, <1>10 DEF m, t

\* A configuration is sent from its header on.
LEMMA ConfigFacts ==
    ASSUME NEW a, DeviceOK(a), a.inst.eEP0State # "TX_CONFIG",
           NEW c \in 0 .. Len(Configs) - 1, NEW r, r.length \in Nat, NEW t, Parts(t),
           t.csr = a.csr, t.class = a.class,
           t.inst = [a.inst EXCEPT !.pEP0Data = SectionAt(c, 0, 0),
                         !.ulEP0DataRemain = TotalLength(c), !.ucConfigSection = 0,
                         !.ucSectionOffset = 0, !.ucConfigIndex = c]
    PROVE  Sent(a, Between(c, 0, Least(TotalLength(c), r.length)), SendDescriptor(t, r, TRUE))
<1> DEFINE T == TotalLength(c)
           m == Least(T, r.length)
           u == [t EXCEPT !.inst.ulEP0DataRemain = Least(@, r.length)]
<1>1. Parts(a) /\ a.inst \in Inst
  BY DEF DeviceOK, Parts
<1>2. c \in Nat /\ T \in Nat /\ NumSections(c) \in Nat \ {0} /\ SectionStart[c][0] = 0
      /\ \A k \in 0 .. NumSections(c) - 1 : Size(c, k) \in Nat
  BY StartFacts, ConfigType
<1> HIDE DEF T
<1>3. m \in Nat /\ m <= T
  BY <1>2 DEF Least
<1>4. SectionAt(c, 0, 0) \in Byte /\ SectionAt(c, 0, 0) # NoPointer
  BY <1>2 DEF SectionAt, Byte, NoPointer
<1>5. t.inst.pEP0Data = SectionAt(c, 0, 0) /\ t.inst.ulEP0DataRemain = T
  BY <1>1 DEF Inst, T
<1>6. SendDescriptor(t, r, TRUE) = EP0StateTxConfig(u)
  BY <1>4, <1>5 DEF SendDescriptor
<1>7. u = [t EXCEPT !.inst.ulEP0DataRemain = Least(@, r.length)]
  OBVIOUS
<1> HIDE DEF u
<1>8. /\ Parts(u) /\ u.csr = a.csr /\ u.class = a.class
      /\ u.inst = [t.inst EXCEPT !.ulEP0DataRemain = m]
  BY <1>5, <1>7 DEF Parts
<1> HIDE DEF m
<1>9. /\ u.inst \in Inst /\ Same(a.inst, u.inst) /\ u.inst.ulEP0DataRemain = m
      /\ u.inst.eEP0State = a.inst.eEP0State /\ u.inst.ucConfigSection = 0
      /\ u.inst.ucSectionOffset = 0 /\ u.inst.ucConfigIndex = c
  <2> DEFINE i == t.inst
             b == a.inst
             p == SectionAt(c, 0, 0)
  <2>3. i = [b EXCEPT !.pEP0Data = p, !.ulEP0DataRemain = T, !.ucConfigSection = 0,
                      !.ucSectionOffset = 0, !.ucConfigIndex = c]
    BY DEF T
  <2>4. b \in Inst /\ p \in Byte /\ T \in Nat
    BY <1>1, <1>2, <1>4
  <2> HIDE DEF i, b, p, T
  <2>5. i \in Inst
    BY <2>3, <2>4 DEF Inst
  <2>1. /\ i \in Inst /\ Same(b, i) /\ i.eEP0State = b.eEP0State
        /\ i.ucConfigSection = 0 /\ i.ucSectionOffset = 0 /\ i.ucConfigIndex = c
    BY <2>3, <2>4, <2>5 DEF Inst, Same
  <2>2. u.inst = [i EXCEPT !.ulEP0DataRemain = m]
    BY <1>8 DEF i
  <2> QED BY <1>3, <2>1, <2>2 DEF Inst, Same, b
<1>10. DeviceOK(u)
  <2>1. /\ u.inst.ucConfigSection <= NumSections(u.inst.ucConfigIndex)
        /\ u.inst.eEP0State # "TX_CONFIG" /\ u.inst \in Inst
    BY <1>2, <1>9
  <2> QED BY <1>8, <2>1, InstFacts
<1>11. Position(c, 0, 0) = 0
  BY <1>2 DEF Position
<1>12. AtPlace(u.inst) /\ Reached(u.inst) = 0 /\ 0 + m = m
  <2>1. Place(c, 0, 0)
    <3>1. 0 \in 0 .. NumSections(c) /\ 0 # NumSections(c) /\ 0 \in 0 .. NumSections(c) - 1
      BY <1>2
    <3>2. Size(c, 0) \in Nat
      BY <1>2, <3>1
    <3> QED BY <3>1, <3>2 DEF Place, Size
  <2>2. Reached(u.inst) = 0
    BY <1>9, <1>11 DEF Reached
  <2>3. 0 + m <= TotalLength(c) /\ 0 + m = m
    BY <1>3 DEF T
  <2> QED BY <1>9, <2>1, <2>2, <2>3 DEF AtPlace
<1>13. Sent(u, Between(c, 0, m), EP0StateTxConfig(u))
  <2>1. /\ u.inst.ucConfigSection = 0 /\ u.inst.ucSectionOffset = 0
    BY <1>9
  <2>2. Sent(u, Between(u.inst.ucConfigIndex, Reached(u.inst),
                        Reached(u.inst) + u.inst.ulEP0DataRemain), EP0StateTxConfig(u))
    BY <1>10, <1>12, <2>1, TxConfigFacts
  <2> QED BY <1>9, <1>12, <2>2
<1>14. Sent(a, Between(c, 0, m), EP0StateTxConfig(u))
  BY <1>8, <1>9, <1>13, ZenonT(40) DEF Sent, Kept, Same
<1> QED BY <1>6, <1>14 DEF m, T

\* The strings come in groups, one for each language.
LEMMA GroupFacts ==
    /\ StringsPerLang \in Nat /\ Len(Languages) \in Nat \ {0} /\ Len(Strings) \in Nat \ {0}
<1>1. Len(Languages) \in Nat \ {0} /\ Len(Strings) \in Nat \ {0}
  BY SizesAssumption, EmptySeq
<1>2. \A m \in Nat, n \in Nat \ {0} : m \div n \in Nat
  OBVIOUS
<1>3. Len(Strings) - 1 \in Nat
  BY <1>1
<1> QED BY <1>1, <1>2, <1>3 DEF StringsPerLang

\* Products of numbers, of which the provers need to be told.
LEMMA TimesFacts ==
    ASSUME NEW m \in Nat, NEW k \in Nat, NEW n \in Nat, k <= n
    PROVE  m * k \in Nat /\ m * (k + 1) = m * k + m /\ m * k <= m * n
<1>1. m * k \in Nat /\ m * (k + 1) = m * k + m
  OBVIOUS
<1>2. n - k \in Nat /\ n = k + (n - k)
  OBVIOUS
<1>3. m * n = m * k + m * (n - k) /\ m * (n - k) \in Nat
  BY <1>2
<1> QED BY <1>1, <1>3

\* What is at a place has a size.
LEMMA StringSizeFacts ==
    ASSUME NEW i \in Nat
    PROVE  StringSize(i) \in Nat
<1>1. Len(Strings) \in Nat /\ DOMAIN Strings = 1 .. Len(Strings) /\ StraySize \in Nat
  BY SizesAssumption
<1>2. i < Len(Strings) => i + 1 \in 1 .. Len(Strings) /\ Strings[i + 1] \in Nat
  BY <1>1, SizesAssumption, SMTT(30)
<1> QED BY <1>1, <1>2 DEF StringSize

\* The place of a string that is found; it is in the table when the language has it.
LEMMA StringFacts ==
    ASSUME NEW r, WellFormed(r), r.kind = "GET_STRING", FindsString(r)
    PROVE  /\ StringOf(r) \in Nat /\ StringSize(StringOf(r)) \in Nat
           /\ ~Stray(r) => StringOf(r) < Len(Strings)
<1> DEFINE lang == r.value[1]
           index == r.value[2]
           G == StringsPerLang
           First(k) == Languages[k] = lang /\ \A j \in 1 .. k - 1 : Languages[j] # lang
<1>1. index \in Nat /\ G \in Nat /\ Len(Languages) \in Nat \ {0} /\ Len(Strings) \in Nat \ {0}
  BY GroupFacts DEF WellFormed
<1>2. ~Stray(r) => index <= G
  BY <1>1 DEF Stray, StrayString
<1>3. StringOf(r) = StringIndexFromRequest(lang, index)
  BY DEF StringOf
<1> HIDE DEF index, lang, G
<1>4. CASE index = 0
  <2>1. StringOf(r) = 0
    BY <1>3, <1>4 DEF StringIndexFromRequest
  <2> QED BY <1>1, <2>1, StringSizeFacts
<1>5. CASE index # 0
  <2>1. /\ 1 + G * Len(Languages) = Len(Strings)
        /\ \E k \in DOMAIN Languages : Languages[k] = lang
    BY <1>3, <1>5 DEF StringIndexFromRequest, FindsString, G
  <2>2. \E k \in DOMAIN Languages : First(k)
    <3> DEFINE K == {k \in DOMAIN Languages : Languages[k] = lang}
               R == OpToRel(<, Nat)
    <3>1. K # {} /\ K \subseteq Nat
      BY <2>1, SizesAssumption, SMTT(30)
    <3>2. IsWellFoundedOn(R, Nat)
      BY NatLessThanWellFounded
    <3>3. PICK k \in K : \A y \in K : ~ (<<y, k>> \in R)
      <4> HIDE DEF K, R
      <4> QED BY <3>1, <3>2, WFMin
    <3>4. ASSUME NEW j \in 1 .. k - 1 PROVE Languages[j] # lang
      <4>1. j \in Nat /\ k \in Nat /\ j < k /\ j \in DOMAIN Languages
        <5>1. DOMAIN Languages = 1 .. Len(Languages)
          BY SizesAssumption
        <5> HIDE DEF R
        <5> QED BY <1>1, <3>1, <5>1
      <4>2. <<j, k>> \in R
        BY <4>1 DEF OpToRel
      <4> QED BY <3>3, <4>1, <4>2
    <3> QED BY <3>3, <3>4
  <2> DEFINE k == CHOOSE k \in DOMAIN Languages : First(k)
  <2>3. k \in DOMAIN Languages
    BY <2>2
  <2>4. StringOf(r) = G * (k - 1) + index
    BY <1>3, <1>5, <2>1 DEF StringIndexFromRequest, G
  <2> HIDE DEF k
  <2>5. k - 1 \in Nat /\ k - 1 + 1 <= Len(Languages) /\ (k - 1) + 1 = k
    <3>1. DOMAIN Languages = 1 .. Len(Languages)
      BY SizesAssumption
    <3> QED BY <1>1, <2>3, <3>1
  <2>6. G * (k - 1) \in Nat /\ G * k = G * (k - 1) + G
    BY <1>1, <2>5, TimesFacts
  <2>7. G * k <= G * Len(Languages) /\ G * k \in Nat /\ G * Len(Languages) \in Nat
    BY <1>1, <2>5, TimesFacts
  <2>8. StringOf(r) \in Nat
    BY <1>1, <2>4, <2>6
  <2>9. ~Stray(r) => StringOf(r) < Len(Strings)
    BY <1>1, <1>2, <2>1, <2>4, <2>6, <2>7
  <2> QED BY <2>8, <2>9, StringSizeFacts
<1> QED BY <1>4, <1>5

\* The requests for a descriptor.
LEMMA GetDescriptorOutcome ==
    ASSUME NEW s, Ready(s), NEW h, NEW r, WellFormed(r),
           r.kind \in {"GET_DEVICE", "GET_CONFIG", "GET_STRING", "GET_OTHER"}
    PROVE  Outcome(s, r, h, GetDescriptor(s, r))
<1> DEFINE a == DataAck(s, FALSE)
           c == r.value
<1>1. /\ Acked(s, a) /\ DeviceOK(a) /\ a.inst \in Inst /\ a.inst.eEP0State # "TX_CONFIG"
      /\ Parts(a)
  BY AckedFacts DEF Acked, DeviceOK, Parts
<1>2. /\ r.length \in Nat /\ r.kind # "CLASS_OUT" /\ Believed(r, h) = h
      /\ r.kind \in {"GET_DEVICE", "GET_CONFIG", "GET_STRING"} => r.length > 0
  BY DEF WellFormed, Believed
<1> HIDE DEF a
<1>3. CASE r.kind = "GET_DEVICE"
  <2> DEFINE p == <<"device", 0, 0>>
             n == DeviceDescSize
             t == SendDescriptor([a EXCEPT !.inst.pEP0Data = p, !.inst.ulEP0DataRemain = n],
                                 r, FALSE)
  <2>1. p \in Byte /\ p # NoPointer /\ n \in Nat
    BY SizesAssumption DEF Byte, NoPointer
  <2>2. GetDescriptor(s, r) = t
    BY <1>3 DEF GetDescriptor, a
  <2>3. Bytes(p, n) \in AnswersTo(r, h) /\ Serves(r) /\ r.length > 0
    BY <1>2, <1>3 DEF AnswersTo, Serves
  <2> HIDE DEF p, n
  <2>4. Sent(a, Bytes(p, Least(n, r.length)), t)
    BY <1>1, <1>2, <2>1, DescriptorFacts
  <2> HIDE DEF t
  <2>5. Replies(s, r, h, t)
    BY <1>1, <1>2, <2>1, <2>3, <2>4, StretchFacts
  <2> QED BY <2>2, <2>5 DEF Outcome
<1>4. CASE r.kind = "GET_STRING" /\ FindsString(r)
  <2> DEFINE p == <<"string", StringOf(r), 0>>
             n == StringSize(StringOf(r))
             t == SendDescriptor([a EXCEPT !.inst.pEP0Data = p, !.inst.ulEP0DataRemain = n],
                                 r, FALSE)
  <2>1. p \in Byte /\ p # NoPointer /\ n \in Nat
    BY <1>4, StringFacts DEF Byte, NoPointer
  <2>2. GetDescriptor(s, r) = t
    BY <1>4 DEF GetDescriptor, FindsString, StringOf, a
  <2>3. Bytes(p, n) \in AnswersTo(r, h) /\ Serves(r) /\ r.length > 0
    BY <1>2, <1>4 DEF AnswersTo, Serves
  <2> HIDE DEF p, n
  <2>4. Sent(a, Bytes(p, Least(n, r.length)), t)
    BY <1>1, <1>2, <2>1, DescriptorFacts
  <2> HIDE DEF t
  <2>5. Replies(s, r, h, t)
    BY <1>1, <1>2, <2>1, <2>3, <2>4, StretchFacts
  <2> QED BY <2>2, <2>5 DEF Outcome
<1>5. CASE r.kind = "GET_CONFIG" /\ c + 1 \in DOMAIN Configs
  <2> DEFINE T == TotalLength(c)
             m == Least(T, r.length)
             e == [a EXCEPT !.inst.pEP0Data = SectionAt(c, 0, 0), !.inst.ulEP0DataRemain = T]
             f == [e EXCEPT !.inst.ucConfigSection = 0, !.inst.ucSectionOffset = 0,
                            !.inst.ucConfigIndex = c]
             t == SendDescriptor(f, r, TRUE)
  <2>1. c \in 0 .. Len(Configs) - 1
    <3>1. c \in Nat /\ Len(Configs) \in Nat /\ DOMAIN Configs = 1 .. Len(Configs)
      BY <1>5, SizesAssumption DEF WellFormed
    <3> QED BY <1>5, <3>1
  <2>2. GetDescriptor(s, r) = t
    BY <1>5 DEF GetDescriptor, a
  <2>3. T \in Nat /\ ConfigBytes[c] \in Seq(Byte) /\ Len(ConfigBytes[c]) = T
    BY <2>1, ConfigType
  <2>4. ConfigBytes[c] \in AnswersTo(r, h) /\ Serves(r) /\ r.length > 0
    BY <1>2, <1>5 DEF AnswersTo, Serves
  <2>5. f = [e EXCEPT !.inst.ucConfigSection = 0, !.inst.ucSectionOffset = 0,
                      !.inst.ucConfigIndex = c]
    OBVIOUS
  <2>6. e = [a EXCEPT !.inst.pEP0Data = SectionAt(c, 0, 0), !.inst.ulEP0DataRemain = T]
    OBVIOUS
  <2> HIDE DEF c, T, e, f
  <2>7. /\ Parts(e) /\ e.csr = a.csr /\ e.class = a.class
        /\ e.inst = [a.inst EXCEPT !.pEP0Data = SectionAt(c, 0, 0), !.ulEP0DataRemain = T]
    BY <1>1, <2>6 DEF Parts
  <2>8. /\ Parts(f) /\ f.csr = a.csr /\ f.class = a.class
        /\ f.inst = [e.inst EXCEPT !.ucConfigSection = 0, !.ucSectionOffset = 0,
                                   !.ucConfigIndex = c]
    BY <2>5, <2>7 DEF Parts
  <2>9. f.inst = [a.inst EXCEPT !.pEP0Data = SectionAt(c, 0, 0), !.ulEP0DataRemain = T,
                                !.ucConfigSection = 0, !.ucSectionOffset = 0, !.ucConfigIndex = c]
    BY <1>1, <2>7, <2>8 DEF Inst
  <2>10. Sent(a, Between(c, 0, m), t)
    BY <1>1, <1>2, <2>1, <2>8, <2>9, ConfigFacts DEF T
  <2> HIDE DEF t
  <2>11. m \in Nat /\ m <= T /\ m <= r.length
    BY <1>2, <2>3 DEF Least
  <2>12. Owed(r, ConfigBytes[c]) = Between(c, 0, m)
    BY <2>3 DEF Owed, Between
  <2> HIDE DEF m
  <2>13. Len(Between(c, 0, m)) = m
    <3>1. Len(Between(c, 0, m)) = m - 0
      BY <2>1, <2>11, BetweenFacts DEF T
    <3> QED BY <2>11, <3>1
  <2>14. Replies(s, r, h, t)
    BY <1>1, <1>2, <2>4, <2>10, <2>11, <2>12, <2>13, ReplyFacts
  <2> QED BY <2>2, <2>14 DEF Outcome
<1>6. CASE r.kind = "GET_CONFIG" /\ c + 1 \notin DOMAIN Configs
  <2> DEFINE e == [a EXCEPT !.inst.pEP0Data = NoPointer, !.inst.ulEP0DataRemain = 0]
  <2>1. GetDescriptor(s, r) = StallEP0(e)
    BY <1>6 DEF GetDescriptor, a
  <2>2. ~Serves(r)
    BY <1>6 DEF Serves
  <2>3. e = [a EXCEPT !.inst.pEP0Data = NoPointer, !.inst.ulEP0DataRemain = 0]
    OBVIOUS
  <2> HIDE DEF e
  <2>4. /\ Parts(e) /\ e.csr = a.csr /\ e.class = a.class
        /\ e.inst = [a.inst EXCEPT !.pEP0Data = NoPointer, !.ulEP0DataRemain = 0]
    BY <1>1, <2>3 DEF Parts
  <2>5. /\ e.inst \in Inst /\ Same(a.inst, e.inst) /\ e.inst.eEP0State # "TX_CONFIG"
        /\ e.inst.ucConfigSection <= NumSections(e.inst.ucConfigIndex)
    <3>1. NoPointer \in Byte
      BY DEF NoPointer, Byte
    <3>2. a.inst.ucConfigSection <= NumSections(a.inst.ucConfigIndex)
      BY <1>1 DEF DeviceOK
    <3> DEFINE b == a.inst
               j == e.inst
    <3>3. b \in Inst /\ b.eEP0State # "TX_CONFIG" /\ b.ucConfigSection <= NumSections(b.ucConfigIndex)
          /\ j = [b EXCEPT !.pEP0Data = NoPointer, !.ulEP0DataRemain = 0]
      BY <1>1, <2>4, <3>2
    <3> HIDE DEF b, j
    <3>4. j \in Inst /\ Same(b, j)
      BY <3>1, <3>3 DEF Inst, Same
    <3>5. /\ j.eEP0State = b.eEP0State /\ j.ucConfigSection = b.ucConfigSection
          /\ j.ucConfigIndex = b.ucConfigIndex
      BY <3>1, <3>3 DEF Inst
    <3> QED BY <3>3, <3>4, <3>5 DEF b, j
  <2>6. DeviceOK(e)
    BY <1>1, <2>4, <2>5, InstFacts
  <2>7. Read(s, e) /\ Same(s.inst, e.inst)
    BY <1>1, <2>4, <2>5, <2>6 DEF Acked, Read, Same
  <2>8. Refuses(s, r, StallEP0(e))
    BY <2>2, <2>7, RefuseFacts
  <2> QED BY <2>1, <2>8 DEF Outcome
<1>7. CASE r.kind = "GET_OTHER" \/ (r.kind = "GET_STRING" /\ ~FindsString(r))
  <2>1. GetDescriptor(s, r) = SendDescriptor(StallEP0(a), r, FALSE)
    BY <1>7 DEF GetDescriptor, FindsString, StringOf, a
  <2>2. ~Serves(r)
    BY <1>7 DEF Serves
  <2>3. Refuses(s, r, SendDescriptor(StallEP0(a), r, FALSE))
    BY <1>1, <1>2, <2>2, RefuseFacts DEF Acked
  <2> QED BY <2>1, <2>3 DEF Outcome
<1> QED BY <1>3, <1>4, <1>5, <1>6, <1>7

\* The requests of the class.
LEMMA ClassOutcome ==
    ASSUME NEW s, Ready(s), NEW h, Knows(s.inst, h), NEW r, WellFormed(r),
           r.kind \notin {"GET_STATUS_DEVICE", "GET_STATUS_INTERFACE", "GET_STATUS_EP",
                          "GET_STATUS_OTHER", "SET_FEATURE", "CLEAR_FEATURE", "SET_HALT",
                          "CLEAR_HALT", "FEATURE_OTHER", "SYNC_FRAME", "SET_ADDRESS",
                          "GET_DEVICE", "GET_CONFIG", "GET_STRING", "GET_OTHER",
                          "GET_CONFIGURATION", "SET_CONFIGURATION", "GET_INTERFACE",
                          "SET_INTERFACE"}
    PROVE  Outcome(s, r, h, ClassRequest(s, r))
<1> DEFINE a == DataAck(s, FALSE)
<1>1. /\ Acked(s, a) /\ DeviceOK(a) /\ a.inst = s.inst /\ a.inst \in Inst /\ Parts(a)
      /\ a.class \in Class /\ a.inst.eEP0State = "IDLE" /\ ~a.inst.pending
  BY AckedFacts DEF DeviceOK, Parts, Ready
<1>2. /\ r.length \in Nat /\ Believed(r, h) = h
      /\ r.kind \in {"CLASS_IN", "CLASS_OUT"} => r.length > 0
      /\ r.kind = "CLASS_NONE" => r.length = 0
  BY DEF WellFormed, Believed
<1> HIDE DEF a
<1>3. CASE r.kind = "CLASS_OUT"
  <2> DEFINE t == [a EXCEPT !.inst.eEP0State = "RX", !.inst.pEP0Data = <<"buffer", 0, 0>>,
                            !.inst.ulOUTDataSize = r.length, !.inst.ulEP0DataRemain = r.length,
                            !.class.buffer = << >>]
             p == <<"buffer", 0, 0>>
             i == a.inst
             k == a.class
  <2>1. ClassRequest(s, r) = t
    BY <1>3 DEF ClassRequest, a
  <2>2. t = [a EXCEPT !.inst.eEP0State = "RX", !.inst.pEP0Data = p,
                      !.inst.ulOUTDataSize = r.length, !.inst.ulEP0DataRemain = r.length,
                      !.class.buffer = << >>]
    OBVIOUS
  <2>3. p \in Byte /\ << >> \in Seq(Byte)
    BY DEF Byte
  <2> HIDE DEF t, p
  <2>4. /\ Parts(t) /\ t.csr = a.csr /\ t.class = [k EXCEPT !.buffer = << >>]
        /\ t.inst = [i EXCEPT !.eEP0State = "RX", !.pEP0Data = p, !.ulOUTDataSize = r.length,
                              !.ulEP0DataRemain = r.length]
    BY <1>1, <2>2 DEF Parts
  <2>5. /\ k \in Class /\ i \in Inst /\ i.ucConfigSection <= NumSections(i.ucConfigIndex)
    BY <1>1 DEF DeviceOK
  <2> HIDE DEF i, k
  <2>6. t.class \in Class /\ t.class.told = k.told /\ t.class.buffer = << >>
    BY <2>3, <2>4, <2>5 DEF Class
  <2>7. /\ t.inst \in Inst /\ Same(i, t.inst)
    BY <1>2, <2>3, <2>4, <2>5, ZenonT(40) DEF Inst, Same
  <2>8. /\ t.inst.eEP0State = "RX" /\ t.inst.ulOUTDataSize = r.length
        /\ t.inst.ulEP0DataRemain = r.length
        /\ t.inst.ucConfigSection = i.ucConfigSection /\ t.inst.ucConfigIndex = i.ucConfigIndex
    BY <2>4, <2>5 DEF Inst
  <2>9. DeviceOK(t)
    BY <1>1, <2>4, <2>5, <2>6, <2>7, <2>8 DEF DeviceOK, Parts
  <2>10. Awaits(s, r, t)
    BY <1>1, <1>2, <1>3, <2>4, <2>6, <2>7, <2>8, <2>9 DEF Awaits, Acked, Clean, Read, Same, i, k
  <2> QED BY <2>1, <2>10 DEF Outcome
<1>4. CASE r.kind = "CLASS_IN"
  <2> DEFINE b == [a EXCEPT !.inst.ulOUTDataSize = r.length]
             n == r.length
             i == a.inst
  <2>1. ClassRequest(s, r) = SendValue(b, "class", 0, n)
    BY <1>4 DEF ClassRequest, a
  <2>2. b = [a EXCEPT !.inst.ulOUTDataSize = r.length]
    OBVIOUS
  <2> HIDE DEF b
  <2>3. /\ Parts(b) /\ b.csr = a.csr /\ b.class = a.class
        /\ b.inst = [i EXCEPT !.ulOUTDataSize = r.length]
    BY <1>1, <2>2 DEF Parts
  <2>4. /\ i \in Inst /\ i.eEP0State = "IDLE" /\ i.ucConfigSection <= NumSections(i.ucConfigIndex)
    BY <1>1 DEF DeviceOK
  <2> HIDE DEF i
  <2>5. /\ b.inst \in Inst /\ Same(i, b.inst) /\ b.inst.eEP0State = "IDLE"
        /\ b.inst.ucConfigSection = i.ucConfigSection /\ b.inst.ucConfigIndex = i.ucConfigIndex
    BY <1>2, <2>3, <2>4 DEF Inst, Same
  <2>6. DeviceOK(b)
    BY <1>1, <2>3, <2>4, <2>5, InstFacts
  <2>7. Acked(s, b)
    <3>1. Read(s, b) /\ ~b.csr.sendstall
      BY <1>1, <2>3, <2>6 DEF Acked, Read
    <3>2. Same(s.inst, b.inst)
      BY <1>1, <2>5 DEF Acked, Same, i
    <3>3. Clean(s) => Clean(b)
      BY <1>1, <2>3 DEF Acked, Clean
    <3> QED BY <2>5, <3>1, <3>2, <3>3 DEF Acked
  <2>8. <<"class", 0, 0>> \in Byte
    BY DEF Byte
  <2>9. /\ Serves(r) /\ Bytes(<<"class", 0, 0>>, n) \in AnswersTo(r, h)
        /\ n \in Nat \ {0} /\ r.length = n
    BY <1>2, <1>4 DEF Serves, AnswersTo
  <2>10. r.kind # "CLASS_OUT"
    BY <1>4
  <2> HIDE DEF n
  <2>11. Replies(s, r, h, SendValue(b, "class", 0, n))
    BY <1>2, <2>7, <2>8, <2>9, <2>10, ValueFacts
  <2> QED BY <2>1, <2>11 DEF Outcome
<1>5. CASE r.kind = "CLASS_NONE"
  <2>1. ClassRequest(s, r) = a /\ Serves(r)
    BY <1>5 DEF ClassRequest, a, Serves
  <2>2. CarriesOut(s, r, h, a)
    BY <1>1, <1>2, <1>5, <2>1 DEF CarriesOut, Acked
  <2> QED BY <2>1, <2>2 DEF Outcome
<1>6. CASE r.kind \notin {"CLASS_OUT", "CLASS_IN", "CLASS_NONE"}
  <2>1. ClassRequest(s, r) = StallEP0(s)
    BY <1>6 DEF ClassRequest
  <2>2. ~Serves(r)
    BY <1>6 DEF Serves
  <2> DEFINE t == StallEP0(s)
  <2>3. /\ Read(s, t) /\ Same(s.inst, t.inst) /\ t.csr.sendstall /\ t.inst.eEP0State = "STALL"
    BY StallFacts DEF Ready
  <2> HIDE DEF t
  <2>4. Refuses(s, r, t)
    BY <2>2, <2>3 DEF Refuses
  <2> QED BY <2>1, <2>4 DEF Outcome, t
<1> QED BY <1>3, <1>4, <1>5, <1>6

\* A request without data that is acknowledged, and changes settings of the instance.
LEMMA CommandFacts ==
    ASSUME NEW s, Ready(s), NEW t, Parts(t), t.class = s.class,
           NEW x \in Alternates, t.csr = [DataAck(s, TRUE).csr EXCEPT !.alternate = x],
           t.inst \in Inst, t.inst.eEP0State # "TX_CONFIG",
           t.inst.ucConfigSection <= NumSections(t.inst.ucConfigIndex)
    PROVE  Read(s, t) /\ ~t.csr.sendstall
<1> DEFINE a == DataAck(s, TRUE)
           e == a.csr
<1>1. DeviceOK(s)
  BY DEF Ready
<1>2. /\ DeviceOK(a) /\ Read(s, a) /\ a.class = s.class
      /\ a.csr.sendstall = s.csr.sendstall
  BY <1>1, DataAckFacts
<1>3. /\ e \in Csr /\ e.rx = << >> /\ e.faddr = s.csr.faddr /\ ~e.sendstall
      /\ Len(e.rx) <= EP0_MAX_PACKET_SIZE /\ Len(e.tx) <= EP0_MAX_PACKET_SIZE
      /\ e.txrdy \/ e.tx = << >>
  BY <1>2 DEF DeviceOK, Read, Ready
<1>4. t.csr = [e EXCEPT !.alternate = x]
  OBVIOUS
<1> HIDE DEF a, e
<1>5. /\ t.csr \in Csr /\ t.csr.rx = e.rx /\ t.csr.tx = e.tx /\ t.csr.faddr = e.faddr
      /\ t.csr.sendstall = e.sendstall /\ t.csr.txrdy = e.txrdy
  BY <1>3, <1>4 DEF Csr
<1>6. t.class \in Class
  BY <1>1 DEF DeviceOK
<1>7. DeviceOK(t)
  BY <1>3, <1>5, <1>6 DEF DeviceOK, Parts
<1> QED BY <1>3, <1>5, <1>7 DEF Read

\* The acknowledgement of a request without data.
LEMMA AckFacts ==
    ASSUME NEW s, Ready(s)
    PROVE  LET a == DataAck(s, TRUE)
           IN  /\ Parts(a) /\ a.inst = s.inst /\ a.class = s.class /\ a.inst \in Inst
               /\ a.inst.eEP0State = "IDLE" /\ ~a.inst.pending
               /\ a.inst.ucConfigSection <= NumSections(a.inst.ucConfigIndex)
               /\ a.csr.alternate \in Alternates
               /\ a.csr = [a.csr EXCEPT !.alternate = a.csr.alternate]
               /\ Read(s, a) /\ Same(s.inst, a.inst)
<1> DEFINE a == DataAck(s, TRUE)
<1>1. DeviceOK(s) /\ s.inst.eEP0State = "IDLE" /\ ~s.inst.pending
  BY DEF Ready
<1>2. DeviceOK(a) /\ Read(s, a) /\ a.inst = s.inst /\ a.class = s.class
  BY <1>1, DataAckFacts
<1> HIDE DEF a
<1>3. a.csr \in Csr /\ a.inst \in Inst /\ Parts(a)
      /\ a.inst.ucConfigSection <= NumSections(a.inst.ucConfigIndex)
  BY <1>2 DEF DeviceOK, Parts
<1>4. a.csr.alternate \in Alternates /\ a.csr = [a.csr EXCEPT !.alternate = a.csr.alternate]
  <2> DEFINE e == a.csr
  <2> HIDE DEF e
  <2>1. e \in Csr
    BY <1>3 DEF e
  <2>2. e.alternate \in Alternates /\ e = [e EXCEPT !.alternate = e.alternate]
    BY <2>1 DEF Csr
  <2> QED BY <2>2 DEF e
<1> QED BY <1>1, <1>2, <1>3, <1>4 DEF a, Same

\* A command that leaves endpoint 0 idle is carried out when the settings are right.
LEMMA SettingFacts ==
    ASSUME NEW s, Ready(s), NEW h, NEW r, r.length = 0, r.kind # "SET_ADDRESS",
           Serves(r) \/ Stray(r), NEW t, Parts(t), t.class = s.class,
           NEW x \in Alternates, t.csr = [DataAck(s, TRUE).csr EXCEPT !.alternate = x],
           t.inst \in Inst, t.inst.eEP0State = "IDLE", ~t.inst.pending,
           t.inst.ucConfigSection <= NumSections(t.inst.ucConfigIndex),
           Knows(t.inst, Believed(r, h))
    PROVE  CarriesOut(s, r, h, t)
<1>1. t.inst.eEP0State # "TX_CONFIG"
  OBVIOUS
<1>2. Read(s, t) /\ ~t.csr.sendstall
  BY <1>1, CommandFacts
<1> QED BY <1>2 DEF CarriesOut

\* The remote wakeup feature, or one that is taken for it.
LEMMA DeviceFeatureOutcome ==
    ASSUME NEW s, Ready(s), NEW h \in Host, Knows(s.inst, h), NEW r, WellFormed(r),
           r.kind \in {"SET_FEATURE", "CLEAR_FEATURE"}
    PROVE  Outcome(s, r, h, DeviceFeature(s, r, IF r.kind = "SET_FEATURE" THEN 1 ELSE 0))
<1> DEFINE a == DataAck(s, TRUE)
           v == IF r.kind = "SET_FEATURE" THEN 1 ELSE 0
           t == DeviceFeature(s, r, v)
           i == s.inst
<1>1. /\ Parts(a) /\ a.inst = i /\ a.class = s.class /\ i \in Inst
      /\ i.eEP0State = "IDLE" /\ ~i.pending
      /\ i.ucConfigSection <= NumSections(i.ucConfigIndex)
      /\ a.csr.alternate \in Alternates
      /\ a.csr = [a.csr EXCEPT !.alternate = a.csr.alternate]
      /\ Read(s, a) /\ Same(i, a.inst)
  BY AckFacts
<1>11. CASE r.value % 2 # REMOTE_WAKE
  <2>1. ~Serves(r)
    BY <1>11 DEF Serves
  <2>2. t = StallEP0(a)
    BY <1>11 DEF DeviceFeature
  <2> HIDE DEF t, a
  <2>3. Refuses(s, r, StallEP0(a))
    BY <1>1, <2>1, RefuseFacts DEF i
  <2> QED BY <2>2, <2>3 DEF Outcome, t
<1> SUFFICES ASSUME r.value % 2 = REMOTE_WAKE PROVE Outcome(s, r, h, t)
  BY <1>11
<1>2. t = [a EXCEPT !.inst.remoteWake = v]
  BY DEF DeviceFeature
<1>3. v \in {0, 1} /\ Knows(i, h)
  OBVIOUS
<1> HIDE DEF a, t, i
<1>4. Parts(t) /\ t.csr = a.csr /\ t.class = a.class /\ t.inst = [i EXCEPT !.remoteWake = v]
  BY <1>1, <1>2 DEF Parts
<1>5. /\ t.inst \in Inst /\ t.inst.eEP0State = "IDLE" /\ ~t.inst.pending
      /\ t.inst.ucConfigSection = i.ucConfigSection /\ t.inst.ucConfigIndex = i.ucConfigIndex
      /\ t.inst.ulConfiguration = i.ulConfiguration /\ t.inst.altSetting = i.altSetting
      /\ t.inst.ucHalt = i.ucHalt /\ t.inst.remoteWake = v
  BY <1>1, <1>3, <1>4 DEF Inst
<1>6. Believed(r, h) = [h EXCEPT !.wake = v] /\ r.length = 0 /\ Serves(r)
  BY DEF Believed, WellFormed, Serves
<1> HIDE DEF v
<1>7. Knows(t.inst, Believed(r, h))
  BY <1>3, <1>5, <1>6 DEF Knows, Host
<1>8. t.inst.ucConfigSection <= NumSections(t.inst.ucConfigIndex)
  BY <1>1, <1>5
<1>9. t.class = s.class /\ a.csr.alternate \in Alternates /\ r.kind # "SET_ADDRESS"
      /\ t.csr = [DataAck(s, TRUE).csr EXCEPT !.alternate = a.csr.alternate]
  BY <1>1, <1>4 DEF a
<1>10. CarriesOut(s, r, h, t)
  BY <1>4, <1>5, <1>6, <1>7, <1>8, <1>9, SettingFacts
<1> QED BY <1>10 DEF Outcome, t, v

\* The halt of an endpoint is set.
LEMMA SetHaltOutcome ==
    ASSUME NEW s, Ready(s), NEW h \in Host, Knows(s.inst, h), NEW r, WellFormed(r),
           r.kind = "SET_HALT"
    PROVE  Outcome(s, r, h, SetHalt(s, r))
<1> DEFINE a == DataAck(s, TRUE)
           t == SetHalt(s, r)
           i == s.inst
<1>1. /\ Parts(a) /\ a.inst = i /\ a.class = s.class /\ i \in Inst
      /\ i.eEP0State = "IDLE" /\ ~i.pending
      /\ i.ucConfigSection <= NumSections(i.ucConfigIndex)
      /\ a.csr.alternate \in Alternates
      /\ a.csr = [a.csr EXCEPT !.alternate = a.csr.alternate]
      /\ Read(s, a) /\ Same(i, a.inst)
  BY AckFacts
<1>2. t = IF r.value \in Endpoints THEN [a EXCEPT !.inst.ucHalt[r.value] = 1] ELSE StallEP0(a)
  BY DEF SetHalt
<1>3. Knows(i, h)
  OBVIOUS
<1> HIDE DEF a, t, i
<1>4. CASE r.value \in Endpoints
  <2>2. t = [a EXCEPT !.inst.ucHalt[r.value] = 1]
    BY <1>2, <1>4
  <2>4. /\ Parts(t) /\ t.csr = a.csr /\ t.class = a.class
        /\ t.inst = [i EXCEPT !.ucHalt[r.value] = 1]
    BY <1>1, <2>2 DEF Parts
  <2>5. /\ t.inst \in Inst /\ t.inst.eEP0State = "IDLE" /\ ~t.inst.pending
        /\ t.inst.ucConfigSection = i.ucConfigSection /\ t.inst.ucConfigIndex = i.ucConfigIndex
        /\ t.inst.ulConfiguration = i.ulConfiguration /\ t.inst.altSetting = i.altSetting
        /\ t.inst.remoteWake = i.remoteWake /\ t.inst.ucHalt = [i.ucHalt EXCEPT ![r.value] = 1]
    BY <1>1, <2>4 DEF Inst
  <2>6. Believed(r, h) = [h EXCEPT !.halt[r.value] = 1] /\ r.length = 0 /\ Serves(r)
    BY <1>4 DEF Believed, WellFormed, Serves
  <2>7. Knows(t.inst, Believed(r, h))
    BY <1>3, <2>5, <2>6 DEF Knows, Host
  <2>8. t.inst.ucConfigSection <= NumSections(t.inst.ucConfigIndex)
    BY <1>1, <2>5
  <2>9. t.class = s.class /\ a.csr.alternate \in Alternates /\ r.kind # "SET_ADDRESS"
        /\ t.csr = [DataAck(s, TRUE).csr EXCEPT !.alternate = a.csr.alternate]
    BY <1>1, <2>4 DEF a
  <2>10. CarriesOut(s, r, h, t)
    BY <2>4, <2>5, <2>6, <2>7, <2>8, <2>9, SettingFacts
  <2> QED BY <2>10 DEF Outcome, t
<1>5. CASE r.value \notin Endpoints
  <2>1. ~Serves(r)
    BY <1>5 DEF Serves
  <2>2. Refuses(s, r, StallEP0(a))
    BY <1>1, <2>1, RefuseFacts DEF i
  <2> QED BY <1>2, <1>5, <2>2 DEF Outcome, t
<1> QED BY <1>4, <1>5

\* The halt of an endpoint is cleared, or something else is.
LEMMA ClearHaltOutcome ==
    ASSUME NEW s, Ready(s), NEW h \in Host, Knows(s.inst, h), NEW menu \in Menus,
           NEW r \in menu, r.kind = "CLEAR_HALT"
    PROVE  Outcome(s, r, h, ClearHalt(s, r))
<1> DEFINE a == DataAck(s, TRUE)
           t == ClearHalt(s, r)
           i == s.inst
<1>1. /\ Parts(a) /\ a.inst = i /\ a.class = s.class /\ i \in Inst
      /\ i.eEP0State = "IDLE" /\ ~i.pending
      /\ i.ucConfigSection <= NumSections(i.ucConfigIndex)
      /\ a.csr.alternate \in Alternates
      /\ a.csr = [a.csr EXCEPT !.alternate = a.csr.alternate]
      /\ Read(s, a) /\ Same(i, a.inst)
  BY AckFacts
<1>2. t = CASE r.value \in Endpoints -> [a EXCEPT !.inst.ucHalt[r.value] = 0]
            [] r.value = <<"in", NUM_USB_EP>> -> [a EXCEPT !.inst.ucHalt[<<"out", 1>>] = 0]
            [] r.value = <<"out", NUM_USB_EP>> -> [a EXCEPT !.inst.ucConfigSection = 0]
            [] OTHER -> StallEP0(a)
  BY DEF ClearHalt
<1>3. Knows(i, h) /\ r.length = 0 /\ r.kind # "SET_ADDRESS"
  BY MenusAssumption DEF WellFormed
<1>4. NUM_USB_EP \in Nat
  BY SizesAssumption
<1>11. \A d : <<d, NUM_USB_EP>> \notin Endpoints
  BY <1>4 DEF Endpoints
<1>12. ASSUME StrayHalt(r)
       PROVE  ~NoStray /\ Believed(r, h).config = h.config /\ Believed(r, h).alt = h.alt
              /\ Believed(r, h).wake = h.wake
  BY <1>12 DEF NoStray, Stray, Believed, Host
<1> HIDE DEF a, t, i
<1>5. /\ t.class = s.class /\ t.csr = a.csr
         => t.csr = [DataAck(s, TRUE).csr EXCEPT !.alternate = a.csr.alternate]
  BY <1>1 DEF a
<1>6. CASE r.value \in Endpoints
  <2>2. t = [a EXCEPT !.inst.ucHalt[r.value] = 0]
    BY <1>2, <1>6, <1>11
  <2>4. /\ Parts(t) /\ t.csr = a.csr /\ t.class = a.class
        /\ t.inst = [i EXCEPT !.ucHalt[r.value] = 0]
    BY <1>1, <2>2 DEF Parts
  <2>5. /\ t.inst \in Inst /\ t.inst.eEP0State = "IDLE" /\ ~t.inst.pending
        /\ t.inst.ucConfigSection = i.ucConfigSection /\ t.inst.ucConfigIndex = i.ucConfigIndex
        /\ t.inst.ulConfiguration = i.ulConfiguration /\ t.inst.altSetting = i.altSetting
        /\ t.inst.remoteWake = i.remoteWake /\ t.inst.ucHalt = [i.ucHalt EXCEPT ![r.value] = 0]
    BY <1>1, <2>4 DEF Inst
  <2>6. Believed(r, h) = [h EXCEPT !.halt[r.value] = 0] /\ Serves(r)
    BY <1>6 DEF Believed, Serves
  <2>7. Knows(t.inst, Believed(r, h))
    BY <1>3, <2>5, <2>6 DEF Knows, Host
  <2>8. t.inst.ucConfigSection <= NumSections(t.inst.ucConfigIndex) /\ t.class = s.class
    BY <1>1, <2>4, <2>5
  <2>10. CarriesOut(s, r, h, t)
    BY <1>1, <1>3, <1>5, <2>4, <2>5, <2>6, <2>7, <2>8, SettingFacts
  <2> QED BY <2>10 DEF Outcome, t
<1>7. CASE r.value = <<"in", NUM_USB_EP>>
  <2>1. t = [a EXCEPT !.inst.ucHalt[<<"out", 1>>] = 0]
    BY <1>2, <1>7, <1>11
  <2>2. /\ Parts(t) /\ t.csr = a.csr /\ t.class = a.class
        /\ t.inst = [i EXCEPT !.ucHalt[<<"out", 1>>] = 0]
    BY <1>1, <2>1 DEF Parts
  <2>3. [i.ucHalt EXCEPT ![<<"out", 1>>] = 0] \in [Endpoints -> {0, 1}]
    <3>1. i.ucHalt \in [Endpoints -> {0, 1}]
      BY <1>1 DEF Inst
    <3> QED BY <3>1
  <2>4. /\ t.inst \in Inst /\ t.inst.eEP0State = "IDLE" /\ ~t.inst.pending
        /\ t.inst.ucConfigSection = i.ucConfigSection /\ t.inst.ucConfigIndex = i.ucConfigIndex
        /\ t.inst.ulConfiguration = i.ulConfiguration /\ t.inst.altSetting = i.altSetting
        /\ t.inst.remoteWake = i.remoteWake
    BY <1>1, <2>2, <2>3 DEF Inst
  <2>5. StrayHalt(r) /\ Stray(r)
    BY <1>7 DEF StrayHalt, Stray
  <2>6. Knows(t.inst, Believed(r, h))
    BY <1>3, <1>12, <2>4, <2>5 DEF Knows
  <2>7. t.inst.ucConfigSection <= NumSections(t.inst.ucConfigIndex) /\ t.class = s.class
    BY <1>1, <2>2, <2>4
  <2>8. CarriesOut(s, r, h, t)
    BY <1>1, <1>3, <1>5, <2>2, <2>4, <2>5, <2>6, <2>7, SettingFacts
  <2> QED BY <2>8 DEF Outcome, t
<1>8. CASE r.value = <<"out", NUM_USB_EP>>
  <2>1. t = [a EXCEPT !.inst.ucConfigSection = 0]
    BY <1>2, <1>8, <1>11
  <2>2. /\ Parts(t) /\ t.csr = a.csr /\ t.class = a.class
        /\ t.inst = [i EXCEPT !.ucConfigSection = 0]
    BY <1>1, <2>1 DEF Parts
  <2>4. /\ t.inst \in Inst /\ t.inst.eEP0State = "IDLE" /\ ~t.inst.pending
        /\ t.inst.ucConfigSection = 0 /\ t.inst.ucConfigIndex = i.ucConfigIndex
        /\ t.inst.ulConfiguration = i.ulConfiguration /\ t.inst.altSetting = i.altSetting
        /\ t.inst.remoteWake = i.remoteWake
    BY <1>1, <2>2 DEF Inst
  <2>5. StrayHalt(r) /\ Stray(r)
    BY <1>8 DEF StrayHalt, Stray
  <2>6. Knows(t.inst, Believed(r, h))
    BY <1>3, <1>12, <2>4, <2>5 DEF Knows
  <2>7. t.inst.ucConfigSection <= NumSections(t.inst.ucConfigIndex) /\ t.class = s.class
    <3>1. i.ucConfigIndex \in 0 .. Len(Configs) - 1
      BY <1>1 DEF Inst
    <3>2. NumSections(i.ucConfigIndex) \in Nat
      BY <3>1, StartFacts
    <3> QED BY <1>1, <2>2, <2>4, <3>2
  <2>8. CarriesOut(s, r, h, t)
    BY <1>1, <1>3, <1>5, <2>2, <2>4, <2>5, <2>6, <2>7, SettingFacts
  <2> QED BY <2>8 DEF Outcome, t
<1>9. CASE r.value \notin Endpoints \cup {<<"in", NUM_USB_EP>>, <<"out", NUM_USB_EP>>}
  <2>1. ~Serves(r)
    BY <1>9 DEF Serves
  <2>2. Refuses(s, r, StallEP0(a)) /\ t = StallEP0(a)
    BY <1>1, <1>2, <1>9, <2>1, RefuseFacts DEF i
  <2> QED BY <2>2 DEF Outcome, t
<1> QED BY <1>6, <1>7, <1>8, <1>9

\* The address waits for the end of the status stage.
LEMMA SetAddressOutcome ==
    ASSUME NEW s, Ready(s), NEW h \in Host, Knows(s.inst, h), NEW r, WellFormed(r),
           r.kind = "SET_ADDRESS"
    PROVE  Outcome(s, r, h, SetAddress(s, r))
<1> DEFINE a == DataAck(s, TRUE)
           t == SetAddress(s, r)
           i == s.inst
           x == a.csr.alternate
<1>1. /\ Parts(a) /\ a.inst = i /\ a.class = s.class /\ i \in Inst
      /\ i.ucConfigSection <= NumSections(i.ucConfigIndex)
      /\ x \in Alternates /\ a.csr = [DataAck(s, TRUE).csr EXCEPT !.alternate = x]
  BY AckFacts
<1>2. t = [a EXCEPT !.inst.ulDevAddress = r.value, !.inst.pending = TRUE,
                    !.inst.eEP0State = "STATUS"]
  BY DEF SetAddress
<1>3. Knows(i, h) /\ r.value \in Nat /\ r.length = 0
  BY DEF WellFormed
<1> HIDE DEF a, t, i
<1>4. /\ Parts(t) /\ t.csr = a.csr /\ t.class = a.class
      /\ t.inst = [i EXCEPT !.ulDevAddress = r.value, !.pending = TRUE, !.eEP0State = "STATUS"]
  BY <1>1, <1>2 DEF Parts
<1>5. /\ t.inst \in Inst /\ t.inst.eEP0State = "STATUS" /\ t.inst.pending
      /\ t.inst.ulDevAddress = r.value
      /\ t.inst.ucConfigSection = i.ucConfigSection /\ t.inst.ucConfigIndex = i.ucConfigIndex
      /\ t.inst.ulConfiguration = i.ulConfiguration /\ t.inst.altSetting = i.altSetting
      /\ t.inst.ucHalt = i.ucHalt /\ t.inst.remoteWake = i.remoteWake
  <2> DEFINE j == t.inst
  <2>1. /\ i \in Inst /\ r.value \in Nat
        /\ j = [i EXCEPT !.ulDevAddress = r.value, !.pending = TRUE, !.eEP0State = "STATUS"]
    BY <1>1, <1>3, <1>4
  <2> HIDE DEF j
  <2>2. j \in Inst
    BY <2>1 DEF Inst
  <2>3. j.eEP0State = "STATUS" /\ j.pending /\ j.ulDevAddress = r.value
    BY <2>1 DEF Inst
  <2>4. /\ j.ucConfigSection = i.ucConfigSection /\ j.ucConfigIndex = i.ucConfigIndex
        /\ j.ulConfiguration = i.ulConfiguration /\ j.altSetting = i.altSetting
        /\ j.ucHalt = i.ucHalt /\ j.remoteWake = i.remoteWake
    BY <2>1 DEF Inst
  <2> QED BY <2>2, <2>3, <2>4 DEF j
<1>6. Believed(r, h) = [h EXCEPT !.addr = r.value] /\ Serves(r)
  BY DEF Believed, Serves
<1>7. Knows(t.inst, Believed(r, h))
  BY <1>3, <1>5, <1>6 DEF Knows, Host
<1>8. /\ t.class = s.class /\ t.csr = [DataAck(s, TRUE).csr EXCEPT !.alternate = x]
      /\ t.inst.eEP0State # "TX_CONFIG"
      /\ t.inst.ucConfigSection <= NumSections(t.inst.ucConfigIndex)
  BY <1>1, <1>4, <1>5
<1> HIDE DEF x
<1>9. Read(s, t) /\ ~t.csr.sendstall
  BY <1>1, <1>4, <1>5, <1>8, CommandFacts
<1> QED BY <1>3, <1>5, <1>6, <1>7, <1>9 DEF Outcome, CarriesOut, t

\* A configuration is chosen.
LEMMA SetConfigurationOutcome ==
    ASSUME NEW s, Ready(s), NEW h \in Host, Knows(s.inst, h), NEW r, WellFormed(r),
           r.kind = "SET_CONFIGURATION"
    PROVE  Outcome(s, r, h, SetConfiguration(s, r))
<1> DEFINE a == DataAck(s, TRUE)
           t == SetConfiguration(s, r)
           i == s.inst
           x == IF r.value # 0 THEN 0 ELSE a.csr.alternate
<1>1. /\ Parts(a) /\ a.inst = i /\ a.class = s.class /\ i \in Inst
      /\ i.eEP0State = "IDLE" /\ ~i.pending
      /\ i.ucConfigSection <= NumSections(i.ucConfigIndex)
      /\ a.csr.alternate \in Alternates /\ Read(s, a) /\ Same(i, a.inst)
  BY AckFacts
<1>2. t = IF r.value > Len(Configs) THEN StallEP0(a)
          ELSE [a EXCEPT !.inst.ulConfiguration = r.value,
                         !.csr.alternate = IF r.value # 0 THEN 0 ELSE @]
  BY DEF SetConfiguration
<1>3. /\ Knows(i, h) /\ r.value \in Nat /\ r.length = 0 /\ r.kind # "SET_ADDRESS"
      /\ Len(Configs) \in Nat /\ x \in Alternates
  <2>1. Knows(i, h) /\ r.value \in Nat /\ r.length = 0 /\ r.kind # "SET_ADDRESS"
    BY DEF WellFormed
  <2>2. Len(Configs) \in Nat /\ 0 \in Alternates
    BY SizesAssumption
  <2> HIDE DEF a
  <2>3. x \in Alternates
    BY <1>1, <2>2
  <2> QED BY <2>1, <2>2, <2>3
<1> HIDE DEF a, t, i
<1>4. CASE r.value <= Len(Configs)
  <2>2. t = [a EXCEPT !.inst.ulConfiguration = r.value,
                      !.csr.alternate = IF r.value # 0 THEN 0 ELSE @]
    BY <1>2, <1>3, <1>4
  <2>4. /\ Parts(t) /\ t.csr = [a.csr EXCEPT !.alternate = x] /\ t.class = a.class
        /\ t.inst = [i EXCEPT !.ulConfiguration = r.value]
    BY <1>1, <2>2 DEF Parts
  <2>5. /\ t.inst \in Inst /\ t.inst.eEP0State = "IDLE" /\ ~t.inst.pending
        /\ t.inst.ucConfigSection = i.ucConfigSection /\ t.inst.ucConfigIndex = i.ucConfigIndex
        /\ t.inst.ulConfiguration = r.value
        /\ t.inst.remoteWake = i.remoteWake /\ t.inst.ucHalt = i.ucHalt
    BY <1>1, <1>3, <1>4, <2>4, SMTT(30) DEF Inst
  <2>6. Believed(r, h) = [h EXCEPT !.config = r.value, !.alt = Unknown] /\ Serves(r)
    BY <1>4 DEF Believed, Serves
  <2>7. Knows(t.inst, Believed(r, h))
    BY <1>3, <2>5, <2>6 DEF Knows, Host
  <2>8. /\ t.inst.ucConfigSection <= NumSections(t.inst.ucConfigIndex) /\ t.class = s.class
        /\ t.csr = [DataAck(s, TRUE).csr EXCEPT !.alternate = x]
    BY <1>1, <2>4, <2>5 DEF a
  <2> HIDE DEF x
  <2>10. CarriesOut(s, r, h, t)
    BY <1>3, <2>4, <2>5, <2>6, <2>7, <2>8, SettingFacts
  <2> QED BY <2>10 DEF Outcome, t
<1>5. CASE ~(r.value <= Len(Configs))
  <2>1. ~Serves(r)
    BY <1>5 DEF Serves
  <2>3. t = StallEP0(a)
    BY <1>2, <1>3, <1>5
  <2>2. Refuses(s, r, StallEP0(a))
    BY <1>1, <2>1, RefuseFacts DEF i
  <2> QED BY <2>2, <2>3 DEF Outcome, t
<1> QED BY <1>4, <1>5

\* An alternate setting is chosen.
LEMMA SetInterfaceOutcome ==
    ASSUME NEW s, Ready(s), NEW h \in Host, Knows(s.inst, h), NEW r, WellFormed(r),
           r.kind = "SET_INTERFACE"
    PROVE  Outcome(s, r, h, SetInterface(s, r))
<1> DEFINE a == DataAck(s, TRUE)
           t == SetInterface(s, r)
           i == s.inst
           v == r.value
<1>1. /\ Parts(a) /\ a.inst = i /\ a.class = s.class /\ i \in Inst
      /\ i.eEP0State = "IDLE" /\ ~i.pending
      /\ i.ucConfigSection <= NumSections(i.ucConfigIndex)
      /\ a.csr.alternate \in Alternates /\ a.csr = [a.csr EXCEPT !.alternate = a.csr.alternate]
      /\ Read(s, a) /\ Same(i, a.inst)
  BY AckFacts
<1>2. t = IF v \notin Alternates THEN StallEP0(a) ELSE IF v = i.altSetting THEN a
          ELSE [a EXCEPT !.inst.altSetting = v, !.csr.alternate = v]
  BY DEF SetInterface
<1>3. Knows(i, h) /\ r.length = 0 /\ r.kind # "SET_ADDRESS"
  BY DEF WellFormed
<1> HIDE DEF a, t, i
<1>4. CASE v \in Alternates
  <2>1. /\ Parts(t) /\ t.class = s.class
        /\ \E x \in Alternates : t.csr = [a.csr EXCEPT !.alternate = x]
        /\ t.inst = [i EXCEPT !.altSetting = v]
    <3>1. CASE v = i.altSetting
      <4>1. t = a
        BY <1>2, <1>4, <3>1
      <4>2. i = [i EXCEPT !.altSetting = v]
        BY <1>1, <3>1 DEF Inst
      <4> QED BY <1>1, <4>1, <4>2
    <3>2. CASE v # i.altSetting
      <4>1. t = [a EXCEPT !.inst.altSetting = v, !.csr.alternate = v]
        BY <1>2, <1>4, <3>2
      <4>2. /\ Parts(t) /\ t.class = a.class /\ t.csr = [a.csr EXCEPT !.alternate = v]
            /\ t.inst = [i EXCEPT !.altSetting = v]
        BY <1>1, <4>1 DEF Parts
      <4> QED BY <1>1, <1>4, <4>2
    <3> QED BY <3>1, <3>2
  <2>2. PICK x \in Alternates : t.csr = [a.csr EXCEPT !.alternate = x]
    BY <2>1
  <2>5. /\ t.inst \in Inst /\ t.inst.eEP0State = "IDLE" /\ ~t.inst.pending
        /\ t.inst.ucConfigSection = i.ucConfigSection /\ t.inst.ucConfigIndex = i.ucConfigIndex
        /\ t.inst.ulConfiguration = i.ulConfiguration /\ t.inst.altSetting = v
        /\ t.inst.remoteWake = i.remoteWake /\ t.inst.ucHalt = i.ucHalt
    BY <1>1, <1>4, <2>1 DEF Inst
  <2>6. Believed(r, h) = [h EXCEPT !.alt = v] /\ Serves(r)
    BY <1>4 DEF Believed, Serves
  <2>7. Knows(t.inst, Believed(r, h))
    BY <1>3, <2>5, <2>6 DEF Knows, Host
  <2>8. /\ t.inst.ucConfigSection <= NumSections(t.inst.ucConfigIndex)
        /\ t.csr = [DataAck(s, TRUE).csr EXCEPT !.alternate = x]
    BY <1>1, <2>2, <2>5 DEF a
  <2>10. CarriesOut(s, r, h, t)
    BY <1>3, <2>1, <2>5, <2>6, <2>7, <2>8, SettingFacts
  <2> QED BY <2>10 DEF Outcome, t
<1>5. CASE v \notin Alternates
  <2>1. ~Serves(r)
    BY <1>5 DEF Serves
  <2>2. Refuses(s, r, StallEP0(a)) /\ t = StallEP0(a)
    BY <1>1, <1>2, <1>5, <2>1, RefuseFacts DEF i
  <2> QED BY <2>2 DEF Outcome, t
<1> QED BY <1>4, <1>5

\* USBDReadAndDispatchRequest ends in one of the four ways.
LEMMA DispatchFacts ==
    ASSUME NEW s, Ready(s), NEW h \in Host, Knows(s.inst, h), NEW menu \in Menus, NEW r \in menu
    PROVE  Outcome(s, r, h, ReadAndDispatchRequest(s, r))
<1>1. WellFormed(r)
  BY MenusAssumption
<1>2. CASE r.kind \in {"GET_STATUS_DEVICE", "GET_STATUS_INTERFACE", "GET_STATUS_EP",
                       "GET_STATUS_OTHER"}
  <2>1. ReadAndDispatchRequest(s, r) = GetStatus(s, r)
    BY <1>2 DEF ReadAndDispatchRequest
  <2> QED BY <1>1, <1>2, <2>1, GetStatusOutcome
<1>3. CASE r.kind \in {"SET_FEATURE", "CLEAR_FEATURE"}
  <2>1. ReadAndDispatchRequest(s, r) =
            DeviceFeature(s, r, IF r.kind = "SET_FEATURE" THEN 1 ELSE 0)
    BY <1>3 DEF ReadAndDispatchRequest
  <2> QED BY <1>1, <1>3, <2>1, DeviceFeatureOutcome
<1>10. CASE r.kind \in {"FEATURE_OTHER", "SYNC_FRAME"}
  <2>1. ReadAndDispatchRequest(s, r) = StallEP0(DataAck(s, TRUE))
    BY <1>10 DEF ReadAndDispatchRequest, Unsupported
  <2>2. ~Serves(r)
    BY <1>10 DEF Serves
  <2>3. Refuses(s, r, StallEP0(DataAck(s, TRUE)))
    BY <2>2, AckFacts, RefuseFacts
  <2> QED BY <2>1, <2>3 DEF Outcome
<1>4. CASE r.kind \in {"SET_HALT", "CLEAR_HALT"}
  <2>1. /\ r.kind = "SET_HALT" => ReadAndDispatchRequest(s, r) = SetHalt(s, r)
        /\ r.kind = "CLEAR_HALT" => ReadAndDispatchRequest(s, r) = ClearHalt(s, r)
    BY DEF ReadAndDispatchRequest
  <2> QED BY <1>1, <1>4, <2>1, SetHaltOutcome, ClearHaltOutcome
<1>5. CASE r.kind = "SET_ADDRESS"
  <2>1. ReadAndDispatchRequest(s, r) = SetAddress(s, r)
    BY <1>5 DEF ReadAndDispatchRequest
  <2> QED BY <1>1, <1>5, <2>1, SetAddressOutcome
<1>6. CASE r.kind \in {"GET_DEVICE", "GET_CONFIG", "GET_STRING", "GET_OTHER"}
  <2>1. ReadAndDispatchRequest(s, r) = GetDescriptor(s, r)
    BY <1>6 DEF ReadAndDispatchRequest
  <2> QED BY <1>1, <1>6, <2>1, GetDescriptorOutcome
<1>7. CASE r.kind \in {"GET_CONFIGURATION", "GET_INTERFACE"}
  <2>1. /\ r.kind = "GET_CONFIGURATION" => ReadAndDispatchRequest(s, r) = GetConfiguration(s)
        /\ r.kind = "GET_INTERFACE" => ReadAndDispatchRequest(s, r) = GetInterface(s, r)
    BY DEF ReadAndDispatchRequest
  <2> QED BY <1>1, <1>7, <2>1, GetSettingOutcome
<1>8. CASE r.kind \in {"SET_CONFIGURATION", "SET_INTERFACE"}
  <2>1. /\ r.kind = "SET_CONFIGURATION" =>
               ReadAndDispatchRequest(s, r) = SetConfiguration(s, r)
        /\ r.kind = "SET_INTERFACE" => ReadAndDispatchRequest(s, r) = SetInterface(s, r)
    BY DEF ReadAndDispatchRequest
  <2> QED BY <1>1, <1>8, <2>1, SetConfigurationOutcome, SetInterfaceOutcome
<1>9. CASE r.kind \notin {"GET_STATUS_DEVICE", "GET_STATUS_INTERFACE", "GET_STATUS_EP",
                          "GET_STATUS_OTHER", "SET_FEATURE", "CLEAR_FEATURE", "SET_HALT",
                          "CLEAR_HALT", "FEATURE_OTHER", "SYNC_FRAME", "SET_ADDRESS",
                          "GET_DEVICE", "GET_CONFIG", "GET_STRING", "GET_OTHER",
                          "GET_CONFIGURATION", "SET_CONFIGURATION", "GET_INTERFACE",
                          "SET_INTERFACE"}
  <2>1. ReadAndDispatchRequest(s, r) = ClassRequest(s, r)
    BY <1>9 DEF ReadAndDispatchRequest
  <2> QED BY <1>1, <1>9, <2>1, ClassOutcome
<1> QED BY <1>2, <1>3, <1>4, <1>5, <1>6, <1>7, <1>8, <1>9, <1>10

-----------------------------------------------------------------------------
(* The interrupt.                                                          *)

\* USBDeviceEnumResetHandler resets the settings.
LEMMA ResetFacts ==
    ASSUME NEW s, DeviceOK(s)
    PROVE  LET t == EnumResetHandler(s)
           IN  /\ DeviceOK(t) /\ t.csr = s.csr /\ t.class = s.class
               /\ t.inst.eEP0State = s.inst.eEP0State /\ t.inst.pending = s.inst.pending
               /\ t.inst.ulDevAddress = s.inst.ulDevAddress /\ t.inst.remoteWake = 0
               /\ t.inst.ucHalt = s.inst.ucHalt
<1> DEFINE t == EnumResetHandler(s)
           i == s.inst
           j == t.inst
<1>1. Parts(s) /\ i \in Inst
  BY DEF DeviceOK, Parts
<1>2. DEFAULT_CONFIG_ID \in 0 .. Len(Configs) /\ 0 \in Alternates
  <2>1. DEFAULT_CONFIG_ID \in DOMAIN Configs /\ Configs \in Seq(Seq(Nat)) /\ 0 \in Alternates
    BY SizesAssumption
  <2>2. DOMAIN Configs = 1 .. Len(Configs) /\ Len(Configs) \in Nat
    BY <2>1
  <2> QED BY <2>1, <2>2 DEF DEFAULT_CONFIG_ID
<1>3. t = [s EXCEPT !.inst.remoteWake = 0, !.inst.ulConfiguration = DEFAULT_CONFIG_ID,
                    !.inst.altSetting = 0]
  BY DEF EnumResetHandler
<1> HIDE DEF t
<1>4. /\ Parts(t) /\ t.csr = s.csr /\ t.class = s.class
      /\ j = [i EXCEPT !.remoteWake = 0, !.ulConfiguration = DEFAULT_CONFIG_ID, !.altSetting = 0]
  BY <1>1, <1>3 DEF Parts
<1> HIDE DEF j
<1>5. /\ j \in Inst /\ j.eEP0State = i.eEP0State /\ j.pending = i.pending
      /\ j.ulDevAddress = i.ulDevAddress /\ j.remoteWake = 0 /\ j.ucHalt = i.ucHalt
  BY <1>1, <1>2, <1>4 DEF Inst
<1>6. /\ j.ucConfigIndex = i.ucConfigIndex /\ j.ucConfigSection = i.ucConfigSection
      /\ j.ucSectionOffset = i.ucSectionOffset /\ j.ulEP0DataRemain = i.ulEP0DataRemain
  BY <1>1, <1>4 DEF Inst
<1>7. (AtPlace(i) => AtPlace(j)) /\ Reached(j) = Reached(i)
  BY <1>6 DEF AtPlace, Reached
<1>8. DeviceOK(t)
  BY <1>4, <1>5, <1>6, <1>7 DEF DeviceOK, Parts, j
<1> QED BY <1>4, <1>5, <1>8 DEF t, j

\* The end of a status stage: endpoint 0 is idle, and a pending address is taken.
LEMMA ApplyFacts ==
    ASSUME NEW s, DeviceOK(s)
    PROVE  LET t == ApplyAddress([s EXCEPT !.inst.eEP0State = "IDLE"])
           IN  /\ DeviceOK(t) /\ t.class = s.class
               /\ t.csr = [s.csr EXCEPT !.faddr = IF s.inst.pending THEN s.inst.ulDevAddress ELSE @]
               /\ t.inst.eEP0State = "IDLE" /\ ~t.inst.pending
               /\ t.inst.ulConfiguration = s.inst.ulConfiguration
               /\ t.inst.altSetting = s.inst.altSetting
               /\ t.inst.remoteWake = s.inst.remoteWake /\ t.inst.ucHalt = s.inst.ucHalt
               /\ t.inst.ulDevAddress = s.inst.ulDevAddress
<1> DEFINE e == [s EXCEPT !.inst.eEP0State = "IDLE"]
           t == ApplyAddress(e)
           i == s.inst
           j == t.inst
           d == [s.csr EXCEPT !.faddr = IF s.inst.pending THEN s.inst.ulDevAddress ELSE @]
<1>1. Parts(s) /\ i \in Inst /\ s.csr \in Csr
  BY DEF DeviceOK, Parts
<1>2. e = [s EXCEPT !.inst.eEP0State = "IDLE"]
  OBVIOUS
<1> HIDE DEF e
<1>3. Parts(e) /\ e.csr = s.csr /\ e.class = s.class /\ e.inst = [i EXCEPT !.eEP0State = "IDLE"]
  BY <1>1, <1>2 DEF Parts
<1>4. t = IF ~e.inst.pending THEN e
          ELSE [e EXCEPT !.inst.pending = FALSE, !.csr.faddr = e.inst.ulDevAddress]
  BY DEF ApplyAddress
<1> HIDE DEF t, i
<1>5. e.inst \in Inst /\ e.inst.pending = i.pending /\ e.inst.ulDevAddress = i.ulDevAddress
  BY <1>1, <1>3 DEF Inst
<1>6. /\ Parts(t) /\ t.class = s.class /\ t.csr = d
      /\ j = [i EXCEPT !.eEP0State = "IDLE", !.pending = FALSE]
  <2>1. CASE i.pending
    <3>1. t = [e EXCEPT !.inst.pending = FALSE, !.csr.faddr = e.inst.ulDevAddress]
      BY <1>4, <1>5, <2>1
    <3>2. /\ Parts(t) /\ t.class = e.class /\ t.csr = [s.csr EXCEPT !.faddr = i.ulDevAddress]
          /\ t.inst = [e.inst EXCEPT !.pending = FALSE]
      BY <1>3, <1>5, <3>1 DEF Parts
    <3>3. j = [i EXCEPT !.eEP0State = "IDLE", !.pending = FALSE]
      BY <1>1, <1>3, <3>2 DEF Inst
    <3> HIDE DEF j
    <3> QED BY <1>3, <2>1, <3>2, <3>3 DEF i
  <2>2. CASE ~i.pending
    <3>1. t = e
      BY <1>4, <1>5, <2>2
    <3>2. d = s.csr
      BY <1>1, <2>2 DEF Csr, i
    <3>3. e.inst = [i EXCEPT !.eEP0State = "IDLE", !.pending = FALSE]
      BY <1>1, <1>3, <2>2 DEF Inst
    <3> HIDE DEF d
    <3> QED BY <1>3, <3>1, <3>2, <3>3
  <2> QED BY <2>1, <2>2
<1> HIDE DEF j
<1>7. /\ j \in Inst /\ j.eEP0State = "IDLE" /\ ~j.pending
      /\ j.ulConfiguration = i.ulConfiguration /\ j.altSetting = i.altSetting
      /\ j.remoteWake = i.remoteWake /\ j.ucHalt = i.ucHalt
      /\ j.ulDevAddress = i.ulDevAddress
      /\ j.ucConfigIndex = i.ucConfigIndex /\ j.ucConfigSection = i.ucConfigSection
  BY <1>1, <1>6 DEF Inst
<1>8. /\ d \in Csr /\ d.rx = s.csr.rx /\ d.tx = s.csr.tx /\ d.txrdy = s.csr.txrdy
  <2>1. i.ulDevAddress \in Nat
    BY <1>1 DEF Inst
  <2> QED BY <1>1, <2>1 DEF Csr, i
<1> HIDE DEF d
<1>9. DeviceOK(t)
  BY <1>6, <1>7, <1>8 DEF DeviceOK, Parts, j, i
<1> QED BY <1>6, <1>7, <1>9 DEF t, e, d, i, j

\* An interrupt that does not look for a request.
LEMMA QuietFacts ==
    ASSUME NEW s, DeviceOK(s), NEW r,
           \/ s.inst.eEP0State \in {"TX", "TX_CONFIG", "STALL"}
           \/ s.inst.eEP0State = "IDLE" /\ s.csr.rx = << >>
    PROVE  LET t == EnumHandler(s, r)
           IN  /\ DeviceOK(t) /\ Same(s.inst, t.inst) /\ t.class = s.class
               /\ t.csr.rx = s.csr.rx /\ t.csr.sendstall = s.csr.sendstall
               /\ t.csr.faddr = s.csr.faddr /\ t.inst.eEP0State # "RX"
<1> DEFINE t == EnumHandler(s, r)
           i == s.inst
<1>1. CASE i.eEP0State = "IDLE" /\ s.csr.rx = << >>
  <2>1. t = s
    BY <1>1 DEF EnumHandler, PacketReady
  <2> QED BY <1>1, <2>1 DEF Same
<1>2. CASE i.eEP0State \in {"TX", "TX_CONFIG"}
  <2>1. CASE i.eEP0State = "TX"
    <3>1. t = EP0StateTx(s)
      BY <2>1 DEF EnumHandler
    <3> QED BY <3>1, TxFacts DEF Sent, Kept
  <2>2. CASE i.eEP0State = "TX_CONFIG"
    <3>1. t = EP0StateTxConfig(s)
      BY <2>2 DEF EnumHandler
    <3>2. AtPlace(i) /\ Reached(i) >= ConfDescSize
      BY <2>2 DEF DeviceOK
    <3> QED BY <3>1, <3>2, TxConfigFacts DEF Sent, Kept
  <2> QED BY <1>2, <2>1, <2>2
<1>3. CASE i.eEP0State = "STALL"
  <2>1. t = IF s.csr.sentstall
            THEN [s EXCEPT !.csr.sentstall = FALSE, !.inst.eEP0State = "IDLE"] ELSE s
    BY <1>3 DEF EnumHandler
  <2>2. CASE ~s.csr.sentstall
    BY <1>3, <2>1, <2>2 DEF Same
  <2>3. CASE s.csr.sentstall
    <3>1. t = [s EXCEPT !.csr.sentstall = FALSE, !.inst.eEP0State = "IDLE"]
      BY <2>1, <2>3
    <3>2. /\ Parts(s) /\ i \in Inst /\ s.csr \in Csr /\ s.class \in Class
          /\ i.ucConfigSection <= NumSections(i.ucConfigIndex)
          /\ Len(s.csr.rx) <= EP0_MAX_PACKET_SIZE /\ Len(s.csr.tx) <= EP0_MAX_PACKET_SIZE
          /\ s.csr.txrdy \/ s.csr.tx = << >>
      BY DEF DeviceOK, Parts
    <3> HIDE DEF t, i
    <3>3. /\ Parts(t) /\ t.class = s.class /\ t.csr = [s.csr EXCEPT !.sentstall = FALSE]
          /\ t.inst = [i EXCEPT !.eEP0State = "IDLE"]
      BY <3>1, <3>2 DEF Parts, i
    <3>4. /\ t.csr \in Csr /\ t.csr.rx = s.csr.rx /\ t.csr.tx = s.csr.tx
          /\ t.csr.txrdy = s.csr.txrdy /\ t.csr.sendstall = s.csr.sendstall
          /\ t.csr.faddr = s.csr.faddr
      BY <3>2, <3>3 DEF Csr
    <3>5. /\ t.inst \in Inst /\ Same(i, t.inst) /\ t.inst.eEP0State = "IDLE"
          /\ t.inst.ucConfigSection = i.ucConfigSection /\ t.inst.ucConfigIndex = i.ucConfigIndex
      BY <3>2, <3>3 DEF Inst, Same
    <3>6. DeviceOK(t)
      BY <3>2, <3>3, <3>4, <3>5 DEF DeviceOK, Parts
    <3> QED BY <3>3, <3>4, <3>5, <3>6 DEF t, i
  <2> QED BY <2>2, <2>3
<1> QED BY <1>1, <1>2, <1>3

\* What is still to come are bytes.
LEMMA RestType ==
    ASSUME NEW s, DeviceOK(s)
    PROVE  Rest(s.inst) \in Seq(Byte)
<1> DEFINE i == s.inst
<1>1. i \in Inst /\ (i.eEP0State = "TX_CONFIG" => AtPlace(i))
  BY DEF DeviceOK
<1> HIDE DEF i
<1>2. CASE i.eEP0State = "TX"
  <2>1. Bytes(i.pEP0Data, i.ulEP0DataRemain) \in Seq(Byte)
    BY <1>1, BytesType DEF Inst
  <2> QED BY <1>2, <2>1 DEF Rest, i
<1>3. CASE i.eEP0State = "TX_CONFIG"
  <2> DEFINE c == i.ucConfigIndex
             m == Reached(i)
             n == Reached(i) + i.ulEP0DataRemain
  <2>1. c \in 0 .. Len(Configs) - 1 /\ TotalLength(c) \in Nat
    BY <1>1, <1>3, ConfigType DEF AtPlace, Place
  <2>2. m \in 0 .. TotalLength(c) /\ i.ulEP0DataRemain \in Nat /\ n <= TotalLength(c)
    BY <1>1, <1>3, PlaceFacts DEF AtPlace, Reached, Inst
  <2>3. m \in Nat /\ n \in Nat /\ m <= n
    <3> HIDE DEF c, m
    <3> QED BY <2>1, <2>2 DEF m
  <2> HIDE DEF c, m, n
  <2>4. Between(c, m, n) \in Seq(Byte)
    BY <2>1, <2>2, <2>3, BetweenFacts
  <2> QED BY <1>3, <2>4 DEF Rest, i, c, m, n
<1>4. CASE i.eEP0State \notin {"TX", "TX_CONFIG"}
  <2>1. << >> \in Seq(Byte)
    OBVIOUS
  <2> QED BY <1>4, <2>1 DEF Rest, i
<1> QED BY <1>2, <1>3, <1>4 DEF i

\* The device as endpoint 0's handler finds it, behind a reset if there was one, and as
\* the interrupt leaves it.
Before == IF "RESET" \in seen THEN EnumResetHandler(Dev) ELSE Dev
After == IF "EP0" \in seen THEN EnumHandler(Before, host.req) ELSE Before

\* If a step tells the class of data, they are all that the host has to send.
Tells ==
    class'.told # class.told /\ class'.told # << >> /\ ~host.late =>
        class'.told = <<host.req.length, OutData(host.req.length)>>

\* The interrupt leaves the device as After says: behind a reset, it knows what the host
\* knows of it.
LEMMA HandlerFacts ==
    ASSUME Inv, USBDeviceIntHandlerInternal
    PROVE  /\ seen # {} /\ seen' = {} /\ irq' = irq /\ host' = host /\ Raised' = irq
           /\ "RESET" \notin irq /\ seen \subseteq {"EP0", "RESET"} /\ irq \subseteq {"EP0"}
           /\ inst' = After.inst /\ csr' = After.csr /\ class' = After.class
           /\ DeviceOK(After) => Sound'
           /\ DeviceOK(Before) /\ Before.csr = csr /\ Before.class = class
           /\ Before.inst.eEP0State = inst.eEP0State /\ Before.inst.pending = inst.pending
           /\ Before.inst.ulDevAddress = inst.ulDevAddress
           /\ Aware => Knows(Before.inst, host)
           /\ "RESET" \notin Raised => Before = Dev
<1>1. DeviceOK(Dev) /\ Dev.inst = inst /\ Dev.csr = csr /\ Dev.class = class
  BY DEF Inv, Sound, Dev
<1>2. /\ seen # {} /\ seen' = {} /\ irq' = irq /\ host' = host
      /\ inst' = After.inst /\ csr' = After.csr /\ class' = After.class
  BY DEF USBDeviceIntHandlerInternal, After, Before, Dev
<1>6. /\ Raised' = irq /\ "RESET" \notin irq /\ seen \subseteq {"EP0", "RESET"}
      /\ irq \subseteq {"EP0"} /\ ("RESET" \in Raised => "RESET" \in seen)
      /\ ("RESET" \notin Raised => "RESET" \notin seen)
  BY <1>2 DEF Inv, Sound, Raised
<1>3. DeviceOK(After) => Sound'
  <2>1. ASSUME DeviceOK(After) PROVE Dev' = After
    <3>1. Parts(After)
      BY <2>1 DEF DeviceOK, Parts
    <3> HIDE DEF After
    <3> QED BY <1>2, <3>1 DEF Dev, Parts
  <2>2. /\ host \in Host /\ irq \subseteq {"EP0", "RESET"} /\ "RESET" \notin irq
        /\ host.retried \/ host.late => host.trouble
    BY <1>6 DEF Inv, Sound
  <2> QED BY <1>2, <2>1, <2>2 DEF Sound
<1>4. CASE "RESET" \in seen
  <2> DEFINE s == EnumResetHandler(Dev)
  <2>1. Before = s
    BY <1>4 DEF Before
  <2>2. /\ DeviceOK(s) /\ s.csr = Dev.csr /\ s.class = Dev.class
        /\ s.inst.eEP0State = Dev.inst.eEP0State /\ s.inst.pending = Dev.inst.pending
        /\ s.inst.ulDevAddress = Dev.inst.ulDevAddress /\ s.inst.remoteWake = 0
        /\ s.inst.ucHalt = Dev.inst.ucHalt
    BY <1>1, ResetFacts
  <2> HIDE DEF s
  <2>3. "RESET" \in Raised
    BY <1>4 DEF Raised
  <2>4. Aware => Knows(s.inst, host)
    BY <1>1, <2>2, <2>3 DEF Aware, Knows
  <2> QED BY <1>1, <1>2, <1>3, <1>6, <2>1, <2>2, <2>3, <2>4
<1>5. CASE "RESET" \notin seen
  <2>1. Before = Dev
    BY <1>5 DEF Before
  <2>2. Aware => Knows(inst, host)
    BY <1>5, <1>6 DEF Aware
  <2> QED BY <1>1, <1>2, <1>3, <1>6, <2>1, <2>2
<1> QED BY <1>4, <1>5

\* The SETUP packet is one packet, and packets are not empty.
LEMMA SetupPacketIs ==
    /\ SetupPacket \in Seq(Byte) /\ Len(SetupPacket) = 1 /\ SetupPacket # << >>
    /\ EP0_MAX_PACKET_SIZE \in Nat \ {0}
<1>1. <<"setup", 0, 0>> \in Byte
  BY DEF Byte
<1>2. SetupPacket \in Seq(Byte) /\ Len(SetupPacket) = 1
  BY <1>1 DEF SetupPacket
<1> HIDE DEF SetupPacket
<1>4. SetupPacket # << >>
  <2>1. ASSUME SetupPacket = << >> PROVE FALSE
    BY <1>2, <2>1
  <2> QED BY <2>1
<1>5. EP0_MAX_PACKET_SIZE \in Nat \ {0}
  BY SizesAssumption
<1> QED BY <1>2, <1>4, <1>5

\* A device that is the same in its settings knows what it knew.
LEMMA SameKnows ==
    ASSUME NEW i, NEW j, NEW h, Knows(i, h), Same(i, j)
    PROVE  Knows(j, h)
BY DEF Knows, Same

\* What an interrupt on endpoint 0 does when it finds no request to serve.
LEMMA NothingServed ==
    ASSUME NEW s, DeviceOK(s), NEW r, s.inst.eEP0State # "RX",
           s.csr.rx = << >> \/ s.inst.eEP0State \notin {"IDLE", "STATUS"}
    PROVE  LET t == EnumHandler(s, r)
           IN  /\ DeviceOK(t) /\ t.class = s.class /\ t.csr.rx = s.csr.rx
               /\ t.csr.sendstall = s.csr.sendstall /\ t.inst.eEP0State # "RX"
               /\ \A h : Knows(s.inst, h) => Knows(t.inst, h)
               /\ s.inst.eEP0State \in {"IDLE", "STATUS"} =>
                      t.inst.eEP0State = "IDLE" /\ t.csr.dataend = s.csr.dataend
               /\ IF s.inst.eEP0State = "STATUS" /\ s.inst.pending
                  THEN t.csr.faddr = s.inst.ulDevAddress /\ ~t.inst.pending
                  ELSE t.csr.faddr = s.csr.faddr /\ t.inst.pending = s.inst.pending
               /\ t.inst.ulDevAddress = s.inst.ulDevAddress
<1> DEFINE t == EnumHandler(s, r)
<1>1. s.inst \in Inst /\ s.csr \in Csr
  BY DEF DeviceOK
<1>2. CASE s.inst.eEP0State # "STATUS"
  <2>1. \/ s.inst.eEP0State \in {"TX", "TX_CONFIG", "STALL"}
        \/ s.inst.eEP0State = "IDLE" /\ s.csr.rx = << >>
    BY <1>1, <1>2 DEF Inst
  <2>2. /\ DeviceOK(t) /\ Same(s.inst, t.inst) /\ t.class = s.class
        /\ t.csr.rx = s.csr.rx /\ t.csr.sendstall = s.csr.sendstall
        /\ t.csr.faddr = s.csr.faddr /\ t.inst.eEP0State # "RX"
    BY <2>1, QuietFacts
  <2>3. s.inst.eEP0State = "IDLE" => t = s
    BY <2>1 DEF EnumHandler, PacketReady
  <2> HIDE DEF t
  <2>4. \A h : Knows(s.inst, h) => Knows(t.inst, h)
    BY <2>2, SameKnows
  <2>5. t.inst.pending = s.inst.pending /\ t.inst.ulDevAddress = s.inst.ulDevAddress
    BY <2>2 DEF Same
  <2> QED BY <1>2, <2>2, <2>3, <2>4, <2>5 DEF t
<1>3. CASE s.inst.eEP0State = "STATUS"
  <2> DEFINE u == ApplyAddress([s EXCEPT !.inst.eEP0State = "IDLE"])
  <2>1. t = u
    BY <1>3 DEF EnumHandler, PacketReady
  <2>2. /\ DeviceOK(u) /\ u.class = s.class
        /\ u.csr = [s.csr EXCEPT !.faddr = IF s.inst.pending THEN s.inst.ulDevAddress ELSE @]
        /\ u.inst.eEP0State = "IDLE" /\ ~u.inst.pending
        /\ u.inst.ulConfiguration = s.inst.ulConfiguration
        /\ u.inst.altSetting = s.inst.altSetting
        /\ u.inst.remoteWake = s.inst.remoteWake /\ u.inst.ucHalt = s.inst.ucHalt
        /\ u.inst.ulDevAddress = s.inst.ulDevAddress
    BY ApplyFacts
  <2> HIDE DEF t, u
  <2>3. /\ u.csr.rx = s.csr.rx /\ u.csr.sendstall = s.csr.sendstall
        /\ u.csr.dataend = s.csr.dataend
        /\ u.csr.faddr = IF s.inst.pending THEN s.inst.ulDevAddress ELSE s.csr.faddr
    BY <1>1, <2>2 DEF Csr
  <2>4. \A h : Knows(s.inst, h) => Knows(u.inst, h)
    BY <2>2 DEF Knows
  <2>5. ~s.inst.pending => u.inst.pending = s.inst.pending
    BY <1>1, <2>2 DEF Inst, DeviceOK
  <2> QED BY <1>3, <2>1, <2>2, <2>3, <2>4, <2>5 DEF t
<1> QED BY <1>2, <1>3

\* The interrupt without a request before it.
LEMMA IdleHandled ==
    ASSUME Inv, USBDeviceIntHandlerInternal, Idle
    PROVE  Inv' /\ Tells
<1>1. /\ seen # {} /\ seen' = {} /\ host' = host /\ Raised' = irq /\ "RESET" \notin irq
      /\ seen \subseteq {"EP0", "RESET"} /\ irq \subseteq {"EP0"}
      /\ inst' = After.inst /\ csr' = After.csr /\ class' = After.class
      /\ DeviceOK(After) => Sound'
      /\ DeviceOK(Before) /\ Before.csr = csr /\ Before.class = class
      /\ Before.inst.eEP0State = inst.eEP0State /\ Before.inst.pending = inst.pending
      /\ Before.inst.ulDevAddress = inst.ulDevAddress
      /\ Aware => Knows(Before.inst, host)
  BY HandlerFacts
<1>2. /\ host.stage = "idle" /\ ~csr.sendstall /\ inst.eEP0State # "RX" /\ csr.rx = << >>
      /\ ~host.trouble => inst.eEP0State \in {"IDLE", "STATUS"}
      /\ Knows(Before.inst, host) /\ (Addressed \/ AddressDue)
      /\ "RESET" \in seen => "EP0" \notin seen
  BY <1>1 DEF Idle, Raised
<1> HIDE DEF Before
<1>4. SUFFICES ASSUME TRUE
               PROVE  /\ DeviceOK(After) /\ After.class.told = class.told
                      /\ ~After.csr.sendstall /\ After.inst.eEP0State # "RX"
                      /\ After.csr.rx = << >>
                      /\ ~host.trouble => After.inst.eEP0State \in {"IDLE", "STATUS"}
                      /\ Knows(After.inst, host)
                      /\ After.csr.faddr = host.addr /\ ~After.inst.pending
  <2> HIDE DEF After
  <2>1. Sound'
    BY <1>1, <1>4
  <2>2. Idle'
    BY <1>1, <1>2, <1>4 DEF Idle, Aware, Addressed
  <2>3. Tells
    BY <1>1, <1>4 DEF Tells
  <2> QED BY <2>1, <2>2, <2>3 DEF Inv
<1>5. CASE "EP0" \notin seen
  <2>1. After = Before
    BY <1>5 DEF After
  <2>2. "RESET" \in Raised
    BY <1>1, <1>5 DEF Raised
  <2> QED BY <1>1, <1>2, <2>1, <2>2 DEF Addressed, AddressDue
<1>6. CASE "EP0" \in seen
  <2> DEFINE t == EnumHandler(Before, host.req)
  <2>1. After = t
    BY <1>6 DEF After
  <2>2. /\ DeviceOK(t) /\ t.class = Before.class /\ t.csr.rx = Before.csr.rx
        /\ t.csr.sendstall = Before.csr.sendstall /\ t.inst.eEP0State # "RX"
        /\ \A h : Knows(Before.inst, h) => Knows(t.inst, h)
        /\ Before.inst.eEP0State \in {"IDLE", "STATUS"} =>
               t.inst.eEP0State = "IDLE" /\ t.csr.dataend = Before.csr.dataend
        /\ IF Before.inst.eEP0State = "STATUS" /\ Before.inst.pending
           THEN t.csr.faddr = Before.inst.ulDevAddress /\ ~t.inst.pending
           ELSE t.csr.faddr = Before.csr.faddr /\ t.inst.pending = Before.inst.pending
    <3>1. DeviceOK(Before) /\ Before.inst.eEP0State # "RX" /\ Before.csr.rx = << >>
      BY <1>1, <1>2
    <3> QED BY <3>1, NothingServed
  <2> HIDE DEF t
  <2>3. t.csr.faddr = host.addr /\ ~t.inst.pending
    BY <1>1, <1>2, <2>2 DEF Addressed, AddressDue
  <2> QED BY <1>1, <1>2, <2>1, <2>2, <2>3
<1> QED BY <1>5, <1>6

\* A request that waits behind a dropped transfer.
LEMMA AskedWaits ==
    ASSUME Inv, USBDeviceIntHandlerInternal, Asked,
           "EP0" \notin seen \/ inst.eEP0State \notin {"IDLE", "STATUS"}
    PROVE  Inv' /\ Tells
<1>1. /\ seen # {} /\ seen' = {} /\ host' = host /\ Raised' = irq /\ "RESET" \notin irq
      /\ seen \subseteq {"EP0", "RESET"} /\ irq \subseteq {"EP0"}
      /\ inst' = After.inst /\ csr' = After.csr /\ class' = After.class
      /\ DeviceOK(After) => Sound'
      /\ DeviceOK(Before) /\ Before.csr = csr /\ Before.class = class
      /\ Before.inst.eEP0State = inst.eEP0State /\ Before.inst.pending = inst.pending
      /\ Aware => Knows(Before.inst, host)
  BY HandlerFacts
<1>2. /\ csr.rx = SetupPacket /\ ~csr.sendstall /\ inst.eEP0State # "RX"
      /\ Knows(Before.inst, host) /\ csr.faddr = host.addr /\ Once
      /\ host.req \in host.menu /\ host.stage = Stage(host.req)
      /\ host.got = << >> /\ host.sent = 0
      /\ "EP0" \in Raised => ~csr.txrdy /\ ~csr.dataend
      /\ ~host.trouble => "EP0" \in Raised /\ inst.eEP0State \in {"IDLE", "STATUS"}
  BY <1>1 DEF Asked
<1>3. ~inst.pending
  <2>1. CASE "EP0" \notin seen
    <3>1. "RESET" \in Raised
      BY <1>1, <2>1 DEF Raised
    <3> QED BY <3>1 DEF Asked, Addressed, AddressDue
  <2>2. CASE inst.eEP0State \notin {"IDLE", "STATUS"}
    BY <2>2 DEF Asked, Addressed, AddressDue
  <2> QED BY <2>1, <2>2
<1> HIDE DEF Before
<1>4. /\ DeviceOK(After) /\ After.class = class
      /\ After.csr.rx = csr.rx /\ ~After.csr.sendstall
      /\ After.csr.faddr = csr.faddr /\ After.inst.eEP0State # "RX"
      /\ Knows(After.inst, host) /\ ~After.inst.pending
      /\ "EP0" \in irq => ~After.csr.txrdy /\ ~After.csr.dataend
      /\ ~host.trouble => "EP0" \in irq /\ After.inst.eEP0State \in {"IDLE", "STATUS"}
  <2>1. CASE "EP0" \notin seen
    <3>1. After = Before
      BY <2>1 DEF After
    <3>2. "EP0" \in Raised => "EP0" \in irq
      BY <2>1 DEF Raised
    <3>3. "EP0" \in irq => "EP0" \in Raised
      BY DEF Raised
    <3> QED BY <1>1, <1>2, <1>3, <3>1, <3>2, <3>3
  <2>2. CASE "EP0" \in seen
    <3> DEFINE t == EnumHandler(Before, host.req)
    <3>1. After = t
      BY <2>2 DEF After
    <3>2. /\ DeviceOK(Before) /\ Before.inst.eEP0State # "RX"
          /\ Before.inst.eEP0State \notin {"IDLE", "STATUS"}
      BY <1>1, <1>2, <2>2
    <3>3. /\ DeviceOK(t) /\ t.class = Before.class /\ t.csr.rx = Before.csr.rx
          /\ t.csr.sendstall = Before.csr.sendstall /\ t.inst.eEP0State # "RX"
          /\ \A h : Knows(Before.inst, h) => Knows(t.inst, h)
          /\ Before.inst.eEP0State \in {"IDLE", "STATUS"} =>
                 t.inst.eEP0State = "IDLE" /\ t.csr.dataend = Before.csr.dataend
          /\ IF Before.inst.eEP0State = "STATUS" /\ Before.inst.pending
             THEN t.csr.faddr = Before.inst.ulDevAddress /\ ~t.inst.pending
             ELSE t.csr.faddr = Before.csr.faddr /\ t.inst.pending = Before.inst.pending
          /\ t.inst.ulDevAddress = Before.inst.ulDevAddress
      BY <3>2, NothingServed
    <3> HIDE DEF t
    <3>4. "EP0" \notin irq /\ host.trouble
      BY <1>2, <2>2 DEF Once
    <3> QED BY <1>1, <1>2, <1>3, <3>1, <3>3, <3>4
  <2> QED BY <2>1, <2>2
<1> HIDE DEF After
<1>7. Asked'
  BY <1>1, <1>2, <1>4 DEF Asked, Aware, Addressed, Once
<1>8. Tells
  BY <1>1, <1>4 DEF Tells
<1> QED BY <1>1, <1>4, <1>7, <1>8 DEF Inv

\* A multiple of the packet size, to begin with.
LEMMA ZeroMod == 0 % EP0_MAX_PACKET_SIZE = 0
<1>1. EP0_MAX_PACKET_SIZE \in Nat \ {0}
  BY SizesAssumption
<1> QED BY <1>1

\* The four ways a request ends, seen from the state the interrupt leaves.
LEMMA OutcomePhase ==
    ASSUME Inv, Asked, NEW s, s.csr.faddr = host.addr, ~s.inst.pending, Knows(s.inst, host),
           Clean(s), s.class = class, NEW t, Outcome(s, host.req, host, t),
           DeviceOK(t) => Sound', inst' = t.inst, csr' = t.csr, class' = t.class,
           host' = host, Raised' = {}
    PROVE  Inv' /\ Tells
<1> DEFINE r == host.req
<1>1. host \in Host
  BY DEF Inv, Sound
<1>2. /\ r \in host.menu /\ host.stage = Stage(r) /\ host.got = << >> /\ host.sent = 0
  BY DEF Asked
<1>3. r.length \in Nat /\ (r.kind # "CLASS_OUT" /\ r.length > 0 => Stage(r) = "in")
      /\ (r.kind = "CLASS_OUT" /\ r.length > 0 => Stage(r) = "out")
      /\ (r.length = 0 => Stage(r) = "statusIn")
  <2>1. WellFormed(r)
    BY <1>1, <1>2, MenusAssumption DEF Host
  <2> HIDE DEF r
  <2> QED BY <2>1 DEF WellFormed, Stage
<1>4. Read(s, t)
  BY DEF Outcome, Refuses, Replies, Awaits, CarriesOut
<1>5. /\ DeviceOK(t) /\ t.csr.faddr = host.addr /\ t.class.told = class.told /\ t.csr.rx = << >>
  BY <1>4 DEF Read
<1>6. Tells
  BY <1>5 DEF Tells
<1>7. Sound'
  BY <1>5
<1>8. SUFFICES Idle' \/ Asked' \/ Stalled' \/ Sending' \/ Receiving' \/ Done'
  BY <1>6, <1>7 DEF Inv
<1>9. CASE Refuses(s, r, t)
  <2>1. Knows(t.inst, host) /\ ~t.inst.pending
    BY <1>9, SameKnows DEF Refuses, Same
  <2>2. Stalled'
    BY <1>2, <1>5, <1>9, <2>1 DEF Stalled, Refuses, Addressed
  <2> QED BY <2>2
<1>10. CASE Replies(s, r, host, t)
  <2>1. Knows(t.inst, host) /\ ~t.inst.pending
    BY <1>10, SameKnows DEF Replies, Same
  <2>2. Packets'
    BY <1>10 DEF Replies, Packets
  <2>8. "RESET" \notin Raised'
    OBVIOUS
  <2>3. << >> \o (t.csr.tx \o Rest(t.inst)) = t.csr.tx \o Rest(t.inst)
    <3>1. t.csr.tx \in Seq(Byte)
      BY <1>5 DEF DeviceOK, Csr
    <3>2. Rest(t.inst) \in Seq(Byte)
      BY <1>5, RestType
    <3>3. t.csr.tx \o Rest(t.inst) \in Seq(Byte)
      BY <3>1, <3>2, ConcatProperties
    <3> QED BY <3>3, ConcatEmptySeq
  <2>4. host.stage = "in"
    BY <1>2, <1>3, <1>10 DEF Replies
  <2>5. Len(host.got) % EP0_MAX_PACKET_SIZE = 0
    <3>1. Len(host.got) = 0
      BY <1>2
    <3> QED BY <3>1, ZeroMod
  <2>6. /\ Len(host.got \o (t.csr.tx \o Rest(t.inst))) <= r.length
        /\ NoStray => \E a \in AnswersTo(r, host) :
                          Owed(r, a) = host.got \o (t.csr.tx \o Rest(t.inst))
    BY <1>2, <1>10, <2>3 DEF Replies
  <2>7. Sending'
    <3>1. /\ r.length > 0 /\ Serves(r) /\ ~t.csr.sendstall /\ Believed(r, host) = host
          /\ t.inst.eEP0State \in {"TX", "TX_CONFIG", "STATUS"}
      BY <1>10 DEF Replies
    <3> HIDE DEF r
    <3> QED BY <1>2, <1>5, <2>1, <2>2, <2>4, <2>5, <2>6, <2>8, <3>1 DEF Sending, Addressed, r
  <2> QED BY <2>7
<1>11. CASE Awaits(s, r, t)
  <2>1. Knows(t.inst, host) /\ ~t.inst.pending
    BY <1>11, SameKnows DEF Awaits, Same
  <2>2. OutData(0) = << >> /\ << >> \o << >> = << >>
    <3>1. <<"out", 0, 0>> \in Byte /\ << >> \in Seq(Byte)
      BY DEF Byte
    <3>2. OutData(0) \in Seq(Byte) /\ Len(OutData(0)) = 0
      BY <3>1, BytesType DEF OutData
    <3> QED BY <3>1, <3>2, EmptySeq, ConcatEmptySeq
  <2>3. host.stage = "out" /\ 0 # r.length
    BY <1>2, <1>3, <1>11 DEF Awaits
  <2>4. Receiving'
    <3>1. /\ t.class.buffer \o t.csr.rx = OutData(host.sent) /\ host.sent <= r.length
          /\ Len(t.class.buffer) < r.length /\ t.inst.ulEP0DataRemain = r.length - Len(t.class.buffer)
          /\ host.stage = IF host.sent = r.length THEN "statusIn" ELSE "out"
      <4>1. Len(t.class.buffer) = 0
        BY <1>11 DEF Awaits
      <4> QED BY <1>2, <1>3, <1>5, <1>11, <2>2, <2>3, <4>1 DEF Awaits
    <3> QED BY <1>2, <1>5, <1>11, <2>1, <3>1 DEF Receiving, Awaits, Addressed
  <2> QED BY <2>4
<1>12. CASE CarriesOut(s, r, host, t)
  <2>1. host.stage = "statusIn"
    BY <1>2, <1>3, <1>12 DEF CarriesOut
  <2>2. Done'
    BY <1>2, <1>5, <1>12, <2>1 DEF Done, CarriesOut
  <2> QED BY <2>2
<1> QED BY <1>9, <1>10, <1>11, <1>12 DEF Outcome

\* The SETUP packet that is there is served, by a device at the host's address.
LEMMA ServedFacts ==
    ASSUME Inv, USBDeviceIntHandlerInternal, "EP0" \in seen, csr.rx = SetupPacket,
           ~csr.sendstall, inst.eEP0State \in {"IDLE", "STATUS"}, Knows(Before.inst, host),
           csr.faddr = host.addr, Addressed \/ AddressDue, host.req \in host.menu
    PROVE  \E s : /\ s.csr.faddr = host.addr /\ ~s.inst.pending /\ Knows(s.inst, host)
                  /\ s.csr.txrdy = csr.txrdy /\ s.csr.dataend = csr.dataend
                  /\ s.class = class /\ Outcome(s, host.req, host, After)
<1> DEFINE s == IF inst.eEP0State = "STATUS"
                THEN ApplyAddress([Before EXCEPT !.inst.eEP0State = "IDLE"]) ELSE Before
<1>1. /\ DeviceOK(Before) /\ Before.csr = csr /\ Before.class = class
      /\ Before.inst.eEP0State = inst.eEP0State /\ Before.inst.pending = inst.pending
      /\ Before.inst.ulDevAddress = inst.ulDevAddress
  BY HandlerFacts
<1>3. csr.rx # << >>
  BY SetupPacketIs
<1>4. host \in Host /\ host.menu \in Menus /\ csr \in Csr
  BY DEF Inv, Sound, Host, DeviceOK, Dev
<1> HIDE DEF Before
<1>5. /\ After = ReadAndDispatchRequest(s, host.req) /\ Ready(s) /\ Knows(s.inst, host)
      /\ s.csr.txrdy = csr.txrdy /\ s.csr.dataend = csr.dataend
      /\ s.csr.faddr = host.addr /\ s.class = class
  <2>1. CASE inst.eEP0State = "IDLE"
    <3>1. s = Before
      BY <2>1
    <3>2. After = ReadAndDispatchRequest(Before, host.req)
      BY <1>1, <1>3, <2>1 DEF After, EnumHandler, PacketReady
    <3>3. ~inst.pending
      BY <2>1 DEF Addressed, AddressDue
    <3>4. Ready(Before)
      BY <1>1, <2>1, <3>3 DEF Ready
    <3> QED BY <1>1, <3>1, <3>2, <3>4
  <2>2. CASE inst.eEP0State = "STATUS"
    <3> DEFINE t == ApplyAddress([Before EXCEPT !.inst.eEP0State = "IDLE"])
    <3>1. s = t
      BY <2>2
    <3>2. After = ReadAndDispatchRequest(t, host.req)
      BY <1>1, <1>3, <2>2 DEF After, EnumHandler, PacketReady
    <3>3. /\ DeviceOK(t) /\ t.class = Before.class
          /\ t.csr = [Before.csr EXCEPT
                          !.faddr = IF Before.inst.pending THEN Before.inst.ulDevAddress ELSE @]
          /\ t.inst.eEP0State = "IDLE" /\ ~t.inst.pending
          /\ t.inst.ulConfiguration = Before.inst.ulConfiguration
          /\ t.inst.altSetting = Before.inst.altSetting
          /\ t.inst.remoteWake = Before.inst.remoteWake /\ t.inst.ucHalt = Before.inst.ucHalt
      BY <1>1, ApplyFacts
    <3> HIDE DEF t
    <3>4. /\ t.csr.sendstall = csr.sendstall /\ t.csr.txrdy = csr.txrdy
          /\ t.csr.dataend = csr.dataend
          /\ t.csr.faddr = IF inst.pending THEN inst.ulDevAddress ELSE csr.faddr
      BY <1>1, <1>4, <3>3 DEF Csr
    <3>5. t.csr.faddr = host.addr
      BY <3>4 DEF Addressed, AddressDue
    <3>6. Ready(t)
      BY <3>3, <3>4 DEF Ready
    <3>7. Knows(t.inst, host)
      BY <3>3 DEF Knows
    <3> QED BY <1>1, <3>1, <3>2, <3>3, <3>4, <3>5, <3>6, <3>7
  <2> QED BY <2>1, <2>2
<1> HIDE DEF s, After
<1>6. Outcome(s, host.req, host, After)
  BY <1>4, <1>5, DispatchFacts
<1>7. ~s.inst.pending
  BY <1>5 DEF Ready
<1> QED BY <1>5, <1>6, <1>7

\* A request that is served.
LEMMA AskedServed ==
    ASSUME Inv, USBDeviceIntHandlerInternal, Asked,
           "EP0" \in seen, inst.eEP0State \in {"IDLE", "STATUS"}
    PROVE  Inv' /\ Tells
<1>1. /\ host' = host /\ Raised' = irq /\ irq \subseteq {"EP0"}
      /\ inst' = After.inst /\ csr' = After.csr /\ class' = After.class
      /\ DeviceOK(After) => Sound'
      /\ Aware => Knows(Before.inst, host)
  BY HandlerFacts
<1>2. /\ csr.rx = SetupPacket /\ ~csr.sendstall /\ ~csr.txrdy /\ ~csr.dataend
      /\ Knows(Before.inst, host) /\ host.req \in host.menu
      /\ csr.faddr = host.addr /\ (Addressed \/ AddressDue) /\ "EP0" \notin irq
  BY <1>1 DEF Asked, Raised, Once
<1>3. PICK s : /\ s.csr.faddr = host.addr /\ ~s.inst.pending /\ Knows(s.inst, host)
               /\ s.csr.txrdy = csr.txrdy /\ s.csr.dataend = csr.dataend
               /\ s.class = class /\ Outcome(s, host.req, host, After)
  BY <1>2, ServedFacts
<1>4. Clean(s)
  BY <1>2, <1>3 DEF Clean
<1>5. Raised' = {}
  BY <1>1, <1>2
<1> HIDE DEF After
<1> QED BY <1>1, <1>3, <1>4, <1>5, OutcomePhase

\* The next packet of an answer, or the interrupt behind the last one.
LEMMA SendingHandled ==
    ASSUME Inv, USBDeviceIntHandlerInternal, Sending
    PROVE  Inv' /\ Tells
<1>1. /\ seen # {} /\ host' = host /\ Raised' = irq /\ "RESET" \notin irq
      /\ seen \subseteq {"EP0", "RESET"} /\ irq \subseteq {"EP0"}
      /\ inst' = After.inst /\ csr' = After.csr /\ class' = After.class
      /\ DeviceOK(After) => Sound'
      /\ "RESET" \notin Raised => Before = Dev
  BY HandlerFacts
<1>2. DeviceOK(Dev) /\ Dev.inst = inst /\ Dev.csr = csr /\ Dev.class = class
  BY DEF Inv, Sound, Dev
<1>3. /\ seen = {"EP0"} /\ After = EnumHandler(Dev, host.req)
      /\ Raised # {} /\ "RESET" \notin Raised'
  BY <1>1 DEF Sending, After, Raised
<1> DEFINE t == EnumHandler(Dev, host.req)
<1>4. /\ csr.rx = << >> /\ ~csr.sendstall /\ csr.faddr = host.addr /\ ~inst.pending
      /\ Knows(inst, host) /\ inst.eEP0State \in {"TX", "TX_CONFIG", "STATUS", "IDLE"}
  BY DEF Sending, Addressed
<1>5. CASE inst.eEP0State \in {"TX", "TX_CONFIG"}
  <2>1. Sent(Dev, Rest(inst), t)
    <3>1. CASE inst.eEP0State = "TX"
      <4>1. t = EP0StateTx(Dev) /\ Rest(inst) = Bytes(inst.pEP0Data, inst.ulEP0DataRemain)
        BY <1>2, <3>1 DEF EnumHandler, Rest
      <4> QED BY <1>2, <4>1, TxFacts
    <3>2. CASE inst.eEP0State = "TX_CONFIG"
      <4>1. /\ t = EP0StateTxConfig(Dev)
            /\ Rest(inst) = Between(inst.ucConfigIndex, Reached(inst),
                                    Reached(inst) + inst.ulEP0DataRemain)
        BY <1>2, <3>2 DEF EnumHandler, Rest
      <4>2. AtPlace(inst) /\ Reached(inst) >= ConfDescSize
        BY <1>2, <3>2 DEF DeviceOK
      <4> HIDE DEF t
      <4> QED BY <1>2, <4>1, <4>2, TxConfigFacts
    <3> QED BY <1>5, <3>1, <3>2
  <2> HIDE DEF t
  <2>2. /\ DeviceOK(t) /\ Same(inst, t.inst) /\ t.class = class /\ t.csr.rx = << >>
        /\ ~t.csr.sendstall /\ t.csr.faddr = host.addr /\ t.csr.txrdy
        /\ t.inst.eEP0State \in {"TX", "TX_CONFIG", "STATUS"}
    BY <1>2, <1>4, <2>1 DEF Sent, Kept
  <2>3. Sound' /\ Tells
    BY <1>1, <1>3, <2>2 DEF Tells, t
  <2>4. Knows(t.inst, host) /\ ~t.inst.pending
    <3>1. Knows(t.inst, host)
      BY <1>4, <2>2, SameKnows
    <3> QED BY <1>4, <2>2, <3>1 DEF Same
  <2>5. inst' = t.inst /\ csr' = t.csr
    BY <1>1, <1>3 DEF t
  <2>6. CASE host.stage = "in"
    <3>1. ~csr.txrdy /\ ~csr.dataend /\ Once
      BY <1>3, <1>5, <2>6 DEF Sending, Packets
    <3>6. Raised' = {}
      BY <1>1, <1>3, <3>1 DEF Once
    <3>2. /\ Rest(inst) = t.csr.tx \o Rest(t.inst)
          /\ IF t.inst.eEP0State = "STATUS" THEN Len(t.csr.tx) < EP0_MAX_PACKET_SIZE
             ELSE Len(t.csr.tx) = EP0_MAX_PACKET_SIZE /\ ~t.csr.dataend
      BY <1>2, <2>1, <3>1 DEF Sent
    <3>3. csr.tx \o Rest(inst) = Rest(inst)
      <4>1. csr.tx = << >>
        BY <1>2, <3>1 DEF DeviceOK
      <4>2. Rest(inst) \in Seq(Byte)
        BY <1>2, RestType
      <4> QED BY <4>1, <4>2, ConcatEmptySeq
    <3>4. Packets'
      BY <2>2, <2>5, <3>2, <3>6 DEF Packets
    <3>5. Sending'
      <4>1. /\ Len(host.got \o (t.csr.tx \o Rest(t.inst))) <= host.req.length
            /\ NoStray => \E a \in AnswersTo(host.req, host) :
                              Owed(host.req, a) = host.got \o (t.csr.tx \o Rest(t.inst))
        BY <2>6, <3>2, <3>3 DEF Sending
      <4> QED BY <1>1, <1>3, <1>5, <2>2, <2>4, <2>5, <2>6, <3>4, <4>1 DEF Sending, Addressed
    <3> QED BY <2>3, <3>5 DEF Inv
  <2>7. CASE host.stage = "statusOut"
    <3>1. Sending'
      BY <1>1, <1>3, <1>5, <2>2, <2>4, <2>5, <2>7 DEF Sending, Addressed
    <3> QED BY <2>3, <3>1 DEF Inv
  <2> QED BY <2>6, <2>7 DEF Sending
<1>6. CASE inst.eEP0State \in {"STATUS", "IDLE"}
  <2>1. host.stage = "statusOut"
    BY <1>3, <1>6 DEF Sending, Packets
  <2>2. /\ DeviceOK(t) /\ t.class = class /\ t.csr.rx = << >>
        /\ ~t.csr.sendstall /\ t.csr.faddr = host.addr
        /\ t.inst.eEP0State = "IDLE" /\ ~t.inst.pending /\ Knows(t.inst, host)
    <3>1. CASE inst.eEP0State = "IDLE"
      <4>1. t = Dev
        BY <1>2, <1>4, <3>1 DEF EnumHandler, PacketReady
      <4> HIDE DEF t
      <4> QED BY <1>2, <1>4, <3>1, <4>1
    <3>2. CASE inst.eEP0State = "STATUS"
      <4> DEFINE u == ApplyAddress([Dev EXCEPT !.inst.eEP0State = "IDLE"])
      <4>1. t = u
        BY <1>2, <1>4, <3>2 DEF EnumHandler, PacketReady
      <4>2. /\ DeviceOK(u) /\ u.class = Dev.class
            /\ u.csr = [Dev.csr EXCEPT !.faddr = IF Dev.inst.pending THEN Dev.inst.ulDevAddress
                                                 ELSE @]
            /\ u.inst.eEP0State = "IDLE" /\ ~u.inst.pending
            /\ u.inst.ulConfiguration = Dev.inst.ulConfiguration
            /\ u.inst.altSetting = Dev.inst.altSetting
            /\ u.inst.remoteWake = Dev.inst.remoteWake /\ u.inst.ucHalt = Dev.inst.ucHalt
        BY <1>2, ApplyFacts
      <4> HIDE DEF u, t
      <4>3. csr \in Csr
        BY <1>2 DEF DeviceOK
      <4>4. /\ u.csr.rx = csr.rx /\ u.csr.sendstall = csr.sendstall /\ u.csr.faddr = csr.faddr
        BY <1>2, <1>4, <4>2, <4>3 DEF Csr
      <4>5. Knows(u.inst, host)
        BY <1>2, <1>4, <4>2 DEF Knows
      <4> QED BY <1>2, <1>4, <4>1, <4>2, <4>4, <4>5
    <3> QED BY <1>6, <3>1, <3>2
  <2>3. inst' = t.inst /\ csr' = t.csr /\ class' = t.class
    BY <1>1, <1>3
  <2> HIDE DEF t
  <2>4. Sound' /\ Tells
    BY <1>1, <1>3, <2>2, <2>3 DEF Tells, t
  <2>5. Sending'
    BY <1>1, <1>3, <2>1, <2>2, <2>3 DEF Sending, Addressed
  <2> QED BY <2>4, <2>5 DEF Inv
<1> QED BY <1>4, <1>5, <1>6

\* pfnDataReceived changes the count that is waited for, and what the class was told.
LEMMA ToldFacts ==
    ASSUME NEW s, DeviceOK(s), s.inst.eEP0State # "TX_CONFIG"
    PROVE  LET t == ToldOfData(s)
           IN  /\ DeviceOK(t) /\ t.csr = s.csr /\ t.class.buffer = s.class.buffer
               /\ Same(s.inst, t.inst) /\ t.inst.eEP0State = s.inst.eEP0State
               /\ t.class.told = s.class.told
                  \/ t.class.told = <<s.inst.ulOUTDataSize, s.class.buffer>>
<1> DEFINE t == ToldOfData(s)
           n == s.inst.ulOUTDataSize
           i == s.inst
           k == s.class
           what == <<n, k.buffer>>
<1>1. /\ Parts(s) /\ i \in Inst /\ k \in Class /\ i.ucConfigSection <= NumSections(i.ucConfigIndex)
      /\ s.csr \in Csr /\ Len(s.csr.rx) <= EP0_MAX_PACKET_SIZE
      /\ Len(s.csr.tx) <= EP0_MAX_PACKET_SIZE /\ (s.csr.txrdy \/ s.csr.tx = << >>)
  BY DEF DeviceOK, Parts
<1>2. CASE ~HasDataReceived \/ n = 0
  <2>1. t = s
    BY <1>2 DEF ToldOfData
  <2> QED BY <2>1 DEF Same
<1>3. CASE ~(~HasDataReceived \/ n = 0)
  <2>1. t = [s EXCEPT !.inst.ulOUTDataSize = 0, !.class.told = what]
    BY <1>3 DEF ToldOfData
  <2>2. what \in Nat \X Seq(Byte)
    BY <1>1 DEF Inst, Class
  <2> HIDE DEF t, what, i, k
  <2>3. /\ Parts(t) /\ t.csr = s.csr /\ t.class = [k EXCEPT !.told = what]
        /\ t.inst = [i EXCEPT !.ulOUTDataSize = 0]
    BY <1>1, <2>1 DEF Parts, i, k
  <2>4. t.class \in Class /\ t.class.told = what /\ t.class.buffer = k.buffer
    BY <1>1, <2>2, <2>3 DEF Class
  <2> DEFINE j == t.inst
  <2>5. i \in Inst /\ j = [i EXCEPT !.ulOUTDataSize = 0]
    BY <1>1, <2>3
  <2> HIDE DEF j
  <2>6. j \in Inst
    BY <2>5 DEF Inst
  <2>7. /\ Same(i, j) /\ j.eEP0State = i.eEP0State
        /\ j.ucConfigSection = i.ucConfigSection /\ j.ucConfigIndex = i.ucConfigIndex
    BY <2>5 DEF Inst, Same
  <2>8. DeviceOK(t)
    BY <1>1, <2>3, <2>4, <2>6, <2>7 DEF DeviceOK, Parts, i, j
  <2> QED BY <2>3, <2>4, <2>7, <2>8 DEF t, what, i, j, k
<1> QED BY <1>2, <1>3

\* The interrupt in the receive state.
LEMMA ReceiveFacts ==
    ASSUME NEW s, DeviceOK(s), s.inst.eEP0State = "RX"
    PROVE  LET t == Receive(s)
               m == s.inst.ulEP0DataRemain
               n == Least(Least(m, EP0_MAX_PACKET_SIZE), Len(s.csr.rx))
               last == m <= EP0_MAX_PACKET_SIZE
           IN  /\ DeviceOK(t) /\ Same(s.inst, t.inst) /\ t.csr.rx = << >>
               /\ t.csr.sendstall = s.csr.sendstall /\ t.csr.faddr = s.csr.faddr
               /\ t.csr.dataend = (s.csr.dataend \/ last)
               /\ t.class.buffer = s.class.buffer \o SubSeq(s.csr.rx, 1, n)
               /\ t.inst.eEP0State = IF last THEN "IDLE" ELSE "RX"
               /\ ~last => /\ t.inst.ulEP0DataRemain = m - n /\ t.class.told = s.class.told
                           /\ t.inst.ulOUTDataSize = s.inst.ulOUTDataSize
               /\ t.class.told = s.class.told
                  \/ t.class.told = <<s.inst.ulOUTDataSize, t.class.buffer>>
<1> DEFINE i == s.inst
           rx == s.csr.rx
           m == i.ulEP0DataRemain
           n == Least(Least(m, EP0_MAX_PACKET_SIZE), Len(rx))
           last == m <= EP0_MAX_PACKET_SIZE
           data == s.class.buffer \o SubSeq(rx, 1, n)
           s0 == [s EXCEPT !.class.buffer = @ \o SubSeq(rx, 1, n)]
           a == DataAck(s0, last)
           b == [a EXCEPT !.inst.pEP0Data = Behind(@, n), !.inst.ulEP0DataRemain = @ - n]
           c == [b EXCEPT !.inst.eEP0State = "IDLE"]
           t == Receive(s)
<1>1. /\ i \in Inst /\ s.csr \in Csr /\ s.class \in Class /\ Parts(s)
      /\ i.ucConfigSection <= NumSections(i.ucConfigIndex)
      /\ Len(rx) <= EP0_MAX_PACKET_SIZE /\ Len(s.csr.tx) <= EP0_MAX_PACKET_SIZE
      /\ s.csr.txrdy \/ s.csr.tx = << >>
  BY DEF DeviceOK, Parts
<1>2. /\ rx \in Seq(Byte) /\ Len(rx) \in Nat /\ m \in Nat /\ EP0_MAX_PACKET_SIZE \in Nat
      /\ s.class.buffer \in Seq(Byte)
  <2>1. rx \in Seq(Byte) /\ m \in Nat /\ s.class.buffer \in Seq(Byte)
    BY <1>1 DEF Csr, Class, Inst
  <2> QED BY <2>1, SetupPacketIs
<1>3. n \in Nat /\ n <= Len(rx) /\ m - n \in Nat
  <2> HIDE DEF m, rx
  <2> QED BY <1>2 DEF Least
<1>4. t = IF ~last THEN b ELSE ToldOfData(c)
  BY DEF Receive
<1> HIDE DEF n, last, t
<1>5. SubSeq(rx, 1, n) \in Seq(Byte)
  <2> HIDE DEF rx
  <2> QED BY <1>2, <1>3
<1>6. data \in Seq(Byte)
  <2> HIDE DEF rx
  <2> QED BY <1>2, <1>5, ConcatProperties
<1>7. s0 = [s EXCEPT !.class.buffer = data]
  OBVIOUS
<1> HIDE DEF data, s0
<1>8. /\ Parts(s0) /\ s0.inst = i /\ s0.csr = s.csr
      /\ s0.class = [s.class EXCEPT !.buffer = data]
  BY <1>1, <1>7 DEF Parts
<1>9. s0.class \in Class /\ s0.class.told = s.class.told /\ s0.class.buffer = data
  BY <1>1, <1>6, <1>8 DEF Class
<1>10. DeviceOK(s0)
  BY <1>1, <1>8, <1>9 DEF DeviceOK, Parts
<1>11. last \in BOOLEAN
  BY DEF last
<1>12. /\ DeviceOK(a) /\ Read(s0, a) /\ a.inst = i /\ a.class = s0.class
       /\ a.csr.sendstall = s.csr.sendstall /\ a.csr.dataend = (s.csr.dataend \/ last)
  BY <1>8, <1>10, <1>11, DataAckFacts
<1> HIDE DEF a
<1>13. /\ Parts(a) /\ a.csr.rx = << >> /\ a.csr.faddr = s.csr.faddr /\ a.csr \in Csr
       /\ Len(a.csr.rx) <= EP0_MAX_PACKET_SIZE /\ Len(a.csr.tx) <= EP0_MAX_PACKET_SIZE
       /\ a.csr.txrdy \/ a.csr.tx = << >>
  BY <1>8, <1>12 DEF Read, DeviceOK, Parts
<1>14. b = [a EXCEPT !.inst.pEP0Data = Behind(@, n), !.inst.ulEP0DataRemain = @ - n]
  OBVIOUS
<1>15. c = [b EXCEPT !.inst.eEP0State = "IDLE"]
  OBVIOUS
<1> HIDE DEF b, c
<1>16. /\ Parts(b) /\ b.csr = a.csr /\ b.class = s0.class
       /\ b.inst = [i EXCEPT !.pEP0Data = Behind(@, n), !.ulEP0DataRemain = @ - n]
  BY <1>12, <1>13, <1>14 DEF Parts
<1>17. /\ b.inst \in Inst /\ Same(i, b.inst) /\ b.inst.eEP0State = "RX"
       /\ b.inst.ulEP0DataRemain = m - n /\ b.inst.ulOUTDataSize = i.ulOUTDataSize
       /\ b.inst.ucConfigSection = i.ucConfigSection /\ b.inst.ucConfigIndex = i.ucConfigIndex
  <2>1. Behind(i.pEP0Data, n) \in Byte
    BY <1>1, <1>3, BytesType DEF Inst
  <2> DEFINE j == b.inst
  <2>2. j = [i EXCEPT !.pEP0Data = Behind(@, n), !.ulEP0DataRemain = @ - n]
    BY <1>16
  <2>3. i \in Inst /\ i.eEP0State = "RX"
    BY <1>1
  <2> HIDE DEF j, i
  <2>4. /\ j \in Inst /\ Same(i, j) /\ j.eEP0State = "RX"
        /\ j.ulEP0DataRemain = m - n /\ j.ulOUTDataSize = i.ulOUTDataSize
        /\ j.ucConfigSection = i.ucConfigSection /\ j.ucConfigIndex = i.ucConfigIndex
    BY <1>3, <2>1, <2>2, <2>3 DEF Inst, Same, m
  <2> QED BY <2>4 DEF j
<1>18. DeviceOK(b)
  BY <1>1, <1>9, <1>13, <1>16, <1>17 DEF DeviceOK, Parts
<1>19. CASE ~last
  <2>1. t = b
    BY <1>4, <1>19
  <2> QED BY <1>9, <1>12, <1>13, <1>16, <1>17, <1>18, <1>19, <2>1 DEF t, last, n, data
<1>20. CASE last
  <2> DEFINE u == ToldOfData(c)
             j == b.inst
  <2>1. t = u
    BY <1>4, <1>20
  <2>2. /\ Parts(c) /\ c.csr = a.csr /\ c.class = s0.class /\ c.inst = [j EXCEPT !.eEP0State = "IDLE"]
    BY <1>15, <1>16 DEF Parts
  <2>3. j \in Inst /\ Same(i, j) /\ j.ulOUTDataSize = i.ulOUTDataSize
        /\ j.ucConfigSection <= NumSections(j.ucConfigIndex)
    BY <1>1, <1>17
  <2> HIDE DEF j
  <2>4. /\ c.inst \in Inst /\ Same(j, c.inst) /\ c.inst.eEP0State = "IDLE"
        /\ c.inst.ulOUTDataSize = i.ulOUTDataSize
        /\ c.inst.ucConfigSection <= NumSections(c.inst.ucConfigIndex)
    BY <2>2, <2>3 DEF Inst, Same
  <2>5. Same(i, c.inst)
    BY <2>3, <2>4 DEF Same
  <2>6. DeviceOK(c)
    BY <1>9, <1>13, <2>2, <2>4 DEF DeviceOK, Parts
  <2>7. /\ DeviceOK(u) /\ u.csr = c.csr /\ u.class.buffer = c.class.buffer
        /\ Same(c.inst, u.inst) /\ u.inst.eEP0State = c.inst.eEP0State
        /\ u.class.told = c.class.told
           \/ u.class.told = <<c.inst.ulOUTDataSize, c.class.buffer>>
    BY <2>4, <2>6, ToldFacts
  <2> HIDE DEF u
  <2>8. Same(i, t.inst)
    BY <2>1, <2>5, <2>7 DEF Same
  <2>9. t.class.told = s.class.told \/ t.class.told = <<i.ulOUTDataSize, t.class.buffer>>
    BY <1>9, <2>1, <2>2, <2>4, <2>7
  <2>10. t.class.buffer = data
    BY <1>9, <2>1, <2>2, <2>7
  <2> QED BY <1>12, <1>13, <1>20, <2>1, <2>2, <2>4, <2>7, <2>8, <2>9, <2>10, ZenonT(40)
          DEF t, last, n, data
<1> QED BY <1>19, <1>20

\* A packet of the data that a request brings.
LEMMA ReceivingHandled ==
    ASSUME Inv, USBDeviceIntHandlerInternal, Receiving
    PROVE  Inv' /\ Tells
<1> DEFINE r == host.req
           L == r.length
           rx == csr.rx
           buffer == class.buffer
           m == inst.ulEP0DataRemain
           n == Least(Least(m, EP0_MAX_PACKET_SIZE), Len(rx))
           last == m <= EP0_MAX_PACKET_SIZE
           t == Receive(Dev)
<1>1. /\ seen # {} /\ host' = host /\ Raised' = irq
      /\ seen \subseteq {"EP0", "RESET"} /\ irq \subseteq {"EP0"}
      /\ inst' = After.inst /\ csr' = After.csr /\ class' = After.class
      /\ DeviceOK(After) => Sound'
      /\ "RESET" \notin Raised => Before = Dev
  BY HandlerFacts
<1>2. /\ DeviceOK(Dev) /\ Dev.inst = inst /\ Dev.csr = csr /\ Dev.class = class
      /\ host \in Host
  BY DEF Inv, Sound, Dev
<1>3. /\ Raised = {"EP0"} /\ Once /\ csr.rx # << >>
      /\ Len(csr.rx) = Least(EP0_MAX_PACKET_SIZE, inst.ulEP0DataRemain)
  BY <1>1 DEF Receiving, Raised
<1>4. /\ r \in host.menu /\ r.kind = "CLASS_OUT" /\ host.got = << >>
      /\ ~csr.sendstall /\ ~csr.dataend /\ inst.eEP0State = "RX"
      /\ inst.ulOUTDataSize = L /\ buffer \o rx = OutData(host.sent) /\ host.sent <= L
      /\ Len(buffer) < L /\ m = L - Len(buffer)
      /\ host.stage = (IF host.sent = L THEN "statusIn" ELSE "out")
      /\ Knows(inst, host) /\ csr.faddr = host.addr /\ ~inst.pending
  BY DEF Receiving, Addressed
<1>5. inst \in Inst /\ csr \in Csr /\ class \in Class
  BY <1>2 DEF DeviceOK
<1>6. /\ rx \in Seq(Byte) /\ Len(rx) \in Nat \ {0} /\ buffer \in Seq(Byte) /\ Len(buffer) \in Nat
      /\ L \in Nat /\ L > 0 /\ m \in Nat /\ host.sent \in Nat /\ EP0_MAX_PACKET_SIZE \in Nat \ {0}
  <2>1. rx \in Seq(Byte) /\ buffer \in Seq(Byte) /\ m \in Nat /\ host.sent \in Nat
    BY <1>2, <1>5 DEF Csr, Class, Inst, Host
  <2>2. L \in Nat /\ L > 0
    BY <1>2, <1>4, MenusAssumption DEF WellFormed, Host
  <2>3. EP0_MAX_PACKET_SIZE \in Nat \ {0}
    BY SizesAssumption
  <2>4. Len(rx) # 0
    BY <1>3, <2>1, EmptySeq
  <2> QED BY <2>1, <2>2, <2>3, <2>4
<1>7. seen = {"EP0"} /\ Raised' = {} /\ After = t
  <2>1. seen = {"EP0"} /\ Raised' = {}
    BY <1>1, <1>3 DEF Raised, Once
  <2> QED BY <1>1, <1>2, <1>3, <1>4, <2>1 DEF After, EnumHandler
<1>9. n = Len(rx) /\ n \in Nat /\ SubSeq(rx, 1, n) = rx /\ m - n \in Nat /\ (last => m - n = 0)
      /\ (~last => n = EP0_MAX_PACKET_SIZE)
  <2>1. n = Len(rx) /\ n \in Nat /\ m - n \in Nat /\ (last => m - n = 0) /\ (~last => n = EP0_MAX_PACKET_SIZE)
    <3> HIDE DEF m, rx
    <3> QED BY <1>3, <1>6 DEF Least, m, rx
  <2> HIDE DEF n, rx
  <2>2. SubSeq(rx, 1, n) = rx
    BY <1>6, <2>1, SubSeqFull
  <2> QED BY <2>1, <2>2
<1> DEFINE data == buffer \o rx
<1>10. /\ data \in Seq(Byte) /\ Len(data) = Len(buffer) + n
       /\ Len(OutData(host.sent)) = host.sent
  <2>1. <<"out", 0, 0>> \in Byte
    BY DEF Byte
  <2>2. Len(OutData(host.sent)) = host.sent
    BY <1>6, <2>1, BytesType DEF OutData
  <2>3. data \in Seq(Byte) /\ Len(data) = Len(buffer) + Len(rx)
    <3> HIDE DEF buffer, rx
    <3> QED BY <1>6, ConcatProperties
  <2> QED BY <1>9, <2>2, <2>3
<1>11. host.sent = Len(buffer) + n
  BY <1>4, <1>10
<1>12. /\ DeviceOK(t) /\ Same(inst, t.inst) /\ t.csr.rx = << >> /\ ~t.csr.sendstall
       /\ t.csr.faddr = host.addr /\ (~last => ~t.csr.dataend) /\ t.class.buffer = data
       /\ t.inst.eEP0State = IF last THEN "IDLE" ELSE "RX"
       /\ ~last => /\ t.inst.ulEP0DataRemain = m - n /\ t.inst.ulOUTDataSize = L
                   /\ t.class.told = class.told
       /\ t.class.told = class.told \/ t.class.told = <<L, data>>
  <2>1. DeviceOK(Dev) /\ Dev.inst.eEP0State = "RX"
    BY <1>2, <1>4
  <2> DEFINE u == Receive(Dev)
             k == Least(Least(Dev.inst.ulEP0DataRemain, EP0_MAX_PACKET_SIZE), Len(Dev.csr.rx))
             ends == Dev.inst.ulEP0DataRemain <= EP0_MAX_PACKET_SIZE
  <2>2. /\ DeviceOK(u) /\ Same(Dev.inst, u.inst) /\ u.csr.rx = << >>
        /\ u.csr.sendstall = Dev.csr.sendstall /\ u.csr.faddr = Dev.csr.faddr
        /\ u.csr.dataend = (Dev.csr.dataend \/ ends)
        /\ u.class.buffer = Dev.class.buffer \o SubSeq(Dev.csr.rx, 1, k)
        /\ u.inst.eEP0State = IF ends THEN "IDLE" ELSE "RX"
        /\ ~ends => /\ u.inst.ulEP0DataRemain = Dev.inst.ulEP0DataRemain - k
                    /\ u.class.told = Dev.class.told
                    /\ u.inst.ulOUTDataSize = Dev.inst.ulOUTDataSize
        /\ u.class.told = Dev.class.told
           \/ u.class.told = <<Dev.inst.ulOUTDataSize, u.class.buffer>>
    BY <2>1, ReceiveFacts
  <2>3. t = u /\ k = n /\ ends = last
    BY <1>2
  <2> HIDE DEF t, u, k, ends, n, last
  <2>4. ~last => ~u.csr.dataend
    BY <1>2, <1>4, <2>2, <2>3
  <2>5. /\ u.class.buffer = data /\ u.csr.rx = << >> /\ ~u.csr.sendstall /\ u.csr.faddr = host.addr
        /\ DeviceOK(u) /\ Same(inst, u.inst)
    BY <1>2, <1>4, <1>9, <2>2, <2>3
  <2>6. u.class.told = class.told \/ u.class.told = <<L, data>>
    BY <1>2, <1>4, <2>2, <2>5
  <2>7. CASE last
    BY <2>2, <2>3, <2>5, <2>6, <2>7
  <2>8. CASE ~last
    BY <1>2, <1>4, <2>2, <2>3, <2>4, <2>5, <2>6, <2>8
  <2> QED BY <2>7, <2>8
<1>13. Knows(t.inst, host) /\ ~t.inst.pending
  <2>1. Knows(t.inst, host)
    BY <1>4, <1>12, SameKnows
  <2> QED BY <1>4, <1>12, <2>1 DEF Same
<1>14. Sound' /\ inst' = t.inst /\ csr' = t.csr /\ class' = t.class
  BY <1>1, <1>7, <1>12
<1> HIDE DEF t, n, data
<1>21. CASE ~last
  <2>1. Tells
    BY <1>12, <1>14, <1>21 DEF Tells
  <2>2. /\ Len(data) < L /\ m - n = L - Len(data)
    <3>1. Len(data) = Len(buffer) + n /\ n = EP0_MAX_PACKET_SIZE
      BY <1>9, <1>10, <1>21
    <3>2. m = L - Len(buffer) /\ EP0_MAX_PACKET_SIZE < m
      <4>1. m = L - Len(buffer)
        BY <1>4
      <4> HIDE DEF m
      <4> QED BY <1>6, <1>21, <4>1
    <3> HIDE DEF m, L, buffer
    <3> QED BY <1>6, <3>1, <3>2
  <2>3. data \o << >> = data
    BY <1>10, ConcatEmptySeq
  <2>4. data = OutData(host.sent)
    BY <1>4 DEF data
  <2>5. Receiving'
    BY <1>1, <1>4, <1>7, <1>12, <1>13, <1>14, <1>21, <2>2, <2>3, <2>4 DEF Receiving, Addressed
  <2> QED BY <1>14, <2>1, <2>5 DEF Inv
<1>22. CASE last
  <2>1. host.sent = L /\ data = OutData(L)
    <3>1. host.sent = L
      <4>1. m = L - Len(buffer) /\ m - n = 0
        BY <1>4, <1>9, <1>22
      <4> HIDE DEF m, L, buffer
      <4> QED BY <1>6, <1>9, <1>11, <4>1
    <3> QED BY <1>4, <3>1 DEF data
  <2>2. Tells
    BY <1>12, <1>14, <2>1 DEF Tells
  <2>3. Done'
    <3>1. Believed(r, host) = host /\ Serves(r) /\ host.stage = "statusIn"
      BY <1>4, <2>1 DEF Believed, Serves
    <3> QED BY <1>1, <1>4, <1>7, <1>12, <1>13, <1>14, <1>22, <3>1 DEF Done
  <2> QED BY <1>14, <2>2, <2>3 DEF Inv
<1> QED BY <1>21, <1>22

\* What becomes of a late SETUP when it is served, at last or too soon.
LEMMA LateOutcome ==
    ASSUME Inv, USBDeviceIntHandlerInternal, "EP0" \in seen, "RESET" \notin Raised,
           LateAsked, inst.eEP0State \in {"IDLE", "STATUS"}, host.req \in host.menu
    PROVE  /\ DeviceOK(After)
           /\ LateRefused' \/ LateServed' \/ LateReceiving'
<1> DEFINE r == host.req
           t == After
<1>1. /\ host' = host /\ inst' = t.inst /\ csr' = t.csr /\ class' = t.class
      /\ Before = Dev
  BY HandlerFacts
<1>2. /\ csr.rx = SetupPacket /\ ~csr.sendstall /\ host.stage = Stage(r) /\ host.sent = 0
      /\ Knows(inst, host) /\ csr.faddr = host.addr /\ (Addressed \/ AddressDue)
      /\ Dev.inst = inst
  BY DEF LateAsked, Dev
<1>3. PICK s : /\ s.csr.faddr = host.addr /\ ~s.inst.pending /\ Knows(s.inst, host)
               /\ Outcome(s, r, host, t)
  BY <1>1, <1>2, ServedFacts
<1> HIDE DEF t
<1>4. /\ DeviceOK(t) /\ t.csr.faddr = host.addr /\ t.csr.rx = << >>
  BY <1>3 DEF Outcome, Refuses, Replies, Awaits, CarriesOut, Read
<1>5. WellFormed(r)
  BY MenusAssumption DEF Inv, Sound, Host
<1>6. CASE Refuses(s, r, t)
  <2>1. Knows(t.inst, host) /\ ~t.inst.pending
    BY <1>3, <1>6, SameKnows DEF Refuses, Same
  <2>2. LateRefused'
    BY <1>1, <1>2, <1>4, <1>6, <2>1 DEF LateRefused, Refuses, Addressed
  <2> QED BY <1>4, <2>2 DEF t
<1>7. CASE Replies(s, r, host, t)
  <2>1. Knows(t.inst, host) /\ ~t.inst.pending
    BY <1>3, <1>7, SameKnows DEF Replies, Same
  <2>2. r.length > 0 /\ r.kind # "CLASS_OUT" /\ Serves(r) /\ Believed(r, host) = host
        /\ ~t.csr.sendstall /\ t.inst.eEP0State # "RX"
    BY <1>7 DEF Replies
  <2>3. r.kind # "SET_ADDRESS" /\ host.stage = "in"
    <3> HIDE DEF r
    <3> QED BY <1>2, <1>5, <2>2 DEF WellFormed, Stage
  <2>4. LateServed'
    BY <1>1, <1>4, <2>1, <2>2, <2>3 DEF LateServed, Addressed
  <2> QED BY <1>4, <2>4 DEF t
<1>8. CASE Awaits(s, r, t)
  <2>1. Knows(t.inst, host) /\ ~t.inst.pending
    BY <1>3, <1>8, SameKnows DEF Awaits, Same
  <2>2. /\ r.length > 0 /\ r.kind = "CLASS_OUT" /\ ~t.csr.sendstall
        /\ t.inst.eEP0State = "RX" /\ t.inst.ulEP0DataRemain = r.length
    BY <1>8 DEF Awaits
  <2>3. host.stage = "out" /\ r.length \in Nat
    <3> HIDE DEF r
    <3> QED BY <1>2, <1>5, <2>2 DEF WellFormed, Stage
  <2>4. Len(<< >>) = 0
    OBVIOUS
  <2>5. /\ host.sent <= r.length /\ host.sent # r.length
        /\ r.length <= (r.length - host.sent) + Len(t.csr.rx) /\ Len(t.csr.rx) <= host.sent + 1
    BY <1>2, <1>4, <2>2, <2>3, <2>4
  <2>6. LateReceiving'
    BY <1>1, <2>1, <2>2, <2>3, <2>5, <1>4 DEF LateReceiving, Addressed
  <2> QED BY <1>4, <2>6 DEF t
<1>9. CASE CarriesOut(s, r, host, t)
  <2>1. host.stage = "statusIn"
    BY <1>2, <1>9 DEF CarriesOut, Stage
  <2>2. /\ Serves(r) \/ Stray(r)
        /\ Knows(t.inst, Believed(r, host)) /\ ~t.csr.sendstall
        /\ IF r.kind = "SET_ADDRESS"
           THEN t.inst.eEP0State = "STATUS" /\ t.inst.pending /\ t.inst.ulDevAddress = r.value
           ELSE t.inst.eEP0State = "IDLE" /\ ~t.inst.pending
    BY <1>9 DEF CarriesOut
  <2>3. LateServed'
    BY <1>1, <1>4, <2>1, <2>2 DEF LateServed, Addressed
  <2> QED BY <1>4, <2>3 DEF t
<1> QED BY <1>3, <1>6, <1>7, <1>8, <1>9 DEF Outcome

\* An interrupt that finds the data of a transfer whose SETUP was late, or none of it yet.
LEMMA LateReceives ==
    ASSUME Inv, host.req \in host.menu, LateReceiving,
           NEW t, t = Receive(Dev), inst' = t.inst, csr' = t.csr, host' = host
    PROVE  DeviceOK(t) /\ (LateServed' \/ LateReceiving')
<1> DEFINE r == host.req
           L == r.length
           m == inst.ulEP0DataRemain
           k == Len(csr.rx)
           n == Least(Least(m, EP0_MAX_PACKET_SIZE), k)
           last == m <= EP0_MAX_PACKET_SIZE
<1>1. /\ DeviceOK(Dev) /\ Dev.inst = inst /\ Dev.csr = csr /\ host \in Host
      /\ inst \in Inst /\ csr \in Csr /\ k <= EP0_MAX_PACKET_SIZE
  BY DEF Inv, Sound, Dev, DeviceOK
<1>2. /\ r.kind = "CLASS_OUT" /\ ~csr.sendstall /\ inst.eEP0State = "RX"
      /\ host.sent <= L /\ host.stage = (IF host.sent = L THEN "statusIn" ELSE "out")
      /\ 0 < m /\ m <= (L - host.sent) + k /\ k <= host.sent + 1
      /\ Knows(inst, host) /\ csr.faddr = host.addr /\ ~inst.pending
  BY DEF LateReceiving, Addressed
<1>3. /\ m \in Nat /\ k \in Nat /\ L \in Nat /\ host.sent \in Nat
      /\ EP0_MAX_PACKET_SIZE \in Nat \ {0}
  <2>1. csr.rx \in Seq(Byte) /\ m \in Nat /\ host.sent \in Nat
    BY <1>1 DEF Csr, Inst, Host
  <2>2. L \in Nat
    BY <1>1, MenusAssumption DEF WellFormed, Host
  <2> QED BY <2>1, <2>2, SetupPacketIs
<1>4. /\ DeviceOK(t) /\ Same(inst, t.inst) /\ t.csr.rx = << >> /\ ~t.csr.sendstall
      /\ t.csr.faddr = host.addr /\ (last => t.csr.dataend)
      /\ t.inst.eEP0State = IF last THEN "IDLE" ELSE "RX"
      /\ ~last => t.inst.ulEP0DataRemain = m - n
  <2>1. DeviceOK(Dev) /\ Dev.inst.eEP0State = "RX"
    BY <1>1, <1>2
  <2> QED BY <1>1, <1>2, <2>1, ReceiveFacts
<1>5. Knows(t.inst, host) /\ ~t.inst.pending
  <2>1. Knows(t.inst, host)
    BY <1>2, <1>4, SameKnows
  <2> QED BY <1>2, <1>4, <2>1 DEF Same
<1>6. CASE ~last
  <2>1. /\ 0 < m - n /\ m - n <= (L - host.sent) + 0
    <3> HIDE DEF m, k, L
    <3> QED BY <1>1, <1>2, <1>3, <1>6 DEF Least
  <2>2. Len(t.csr.rx) = 0 /\ 0 <= host.sent + 1
    BY <1>3, <1>4
  <2> HIDE DEF n, last
  <2>3. LateReceiving'
    BY <1>2, <1>4, <1>5, <1>6, <2>1, <2>2 DEF LateReceiving, Addressed
  <2> QED BY <1>4, <2>3
<1>7. CASE last
  <2>1. Believed(r, host) = host /\ Serves(r)
    BY <1>2 DEF Believed, Serves
  <2>2. LateServed'
    BY <1>2, <1>4, <1>5, <1>7, <2>1 DEF LateServed, Addressed
  <2> QED BY <1>4, <2>2
<1> QED BY <1>6, <1>7

\* An interrupt in a transfer whose SETUP was late.
LEMMA LateHandled ==
    ASSUME Inv, USBDeviceIntHandlerInternal, Late
    PROVE  Inv' /\ Tells
<1> DEFINE r == host.req
           t == After
<1>1. /\ seen # {} /\ host' = host /\ Raised' = irq /\ "RESET" \notin irq
      /\ seen \subseteq {"EP0", "RESET"}
      /\ inst' = t.inst /\ csr' = t.csr /\ class' = t.class
      /\ DeviceOK(t) => Sound'
      /\ "RESET" \notin Raised => Before = Dev
  BY HandlerFacts
<1>2. /\ host.late /\ r \in host.menu /\ "RESET" \notin Raised
      /\ LateAsked \/ LateRefused \/ LateServed \/ LateReceiving
  BY DEF Late
<1>3. DeviceOK(Dev) /\ Dev.inst = inst /\ Dev.csr = csr
  BY DEF Inv, Sound, Dev
<1>4. "EP0" \in seen /\ t = EnumHandler(Dev, r) /\ "RESET" \notin Raised'
  BY <1>1, <1>2 DEF After, Raised
<1>5. Tells
  BY <1>2 DEF Tells
<1>6. SUFFICES ASSUME TRUE
               PROVE  /\ DeviceOK(t)
                      /\ LateAsked' \/ LateRefused' \/ LateServed' \/ LateReceiving'
  <2>1. Late' /\ Sound'
    BY <1>1, <1>2, <1>4, <1>6 DEF Late
  <2> QED BY <1>5, <2>1 DEF Inv
<1> HIDE DEF t
<1>7. ASSUME inst.eEP0State # "RX", csr.rx = << >> \/ inst.eEP0State \notin {"IDLE", "STATUS"}
      PROVE  /\ DeviceOK(t) /\ csr'.rx = csr.rx
             /\ csr'.sendstall = csr.sendstall /\ inst'.eEP0State # "RX"
             /\ \A h : Knows(inst, h) => Knows(inst', h)
             /\ inst.eEP0State \in {"IDLE", "STATUS"} =>
                    inst'.eEP0State = "IDLE" /\ csr'.dataend = csr.dataend
             /\ IF inst.eEP0State = "STATUS" /\ inst.pending
                THEN csr'.faddr = inst.ulDevAddress /\ ~inst'.pending
                ELSE csr'.faddr = csr.faddr /\ inst'.pending = inst.pending
  <2> DEFINE u == EnumHandler(Dev, r)
  <2>1. /\ DeviceOK(u) /\ u.csr.rx = Dev.csr.rx
        /\ u.csr.sendstall = Dev.csr.sendstall /\ u.inst.eEP0State # "RX"
        /\ \A h : Knows(Dev.inst, h) => Knows(u.inst, h)
        /\ Dev.inst.eEP0State \in {"IDLE", "STATUS"} =>
               u.inst.eEP0State = "IDLE" /\ u.csr.dataend = Dev.csr.dataend
        /\ IF Dev.inst.eEP0State = "STATUS" /\ Dev.inst.pending
           THEN u.csr.faddr = Dev.inst.ulDevAddress /\ ~u.inst.pending
           ELSE u.csr.faddr = Dev.csr.faddr /\ u.inst.pending = Dev.inst.pending
    <3>1. DeviceOK(Dev) /\ Dev.inst.eEP0State # "RX"
          /\ (Dev.csr.rx = << >> \/ Dev.inst.eEP0State \notin {"IDLE", "STATUS"})
      BY <1>3, <1>7
    <3> QED BY <3>1, NothingServed
  <2> HIDE DEF u
  <2>2. u = t /\ inst' = u.inst /\ csr' = u.csr
    BY <1>1, <1>4 DEF u
  <2> QED BY <1>3, <2>1, <2>2
<1>8. CASE LateAsked /\ inst.eEP0State \in {"IDLE", "STATUS"}
  BY <1>2, <1>4, <1>8, LateOutcome DEF t
<1>9. CASE LateAsked /\ inst.eEP0State \notin {"IDLE", "STATUS"}
  <2>1. ~inst.pending /\ inst.eEP0State # "RX"
    BY <1>9 DEF LateAsked, Addressed, AddressDue
  <2>2. LateAsked'
    BY <1>1, <1>7, <1>9, <2>1 DEF LateAsked, Addressed
  <2> QED BY <1>7, <1>9, <2>1, <2>2
<1>10. CASE LateRefused
  <2>1. ~inst.pending /\ inst.eEP0State # "RX" /\ csr.rx = << >>
    BY <1>10 DEF LateRefused, Addressed
  <2>2. LateRefused'
    BY <1>1, <1>7, <1>10, <2>1 DEF LateRefused, Addressed
  <2> QED BY <1>7, <2>1, <2>2
<1>11. CASE LateServed
  <2>1. inst.eEP0State # "RX" /\ csr.rx = << >>
    BY <1>11 DEF LateServed
  <2>2. /\ csr'.rx = << >> /\ ~csr'.sendstall /\ inst'.eEP0State # "RX"
        /\ Serves(r) \/ Stray(r)
        /\ Knows(inst', Believed(r, host))
    BY <1>7, <1>11, <2>1 DEF LateServed
  <2>3. IF r.kind = "SET_ADDRESS"
        THEN /\ host.stage = "statusIn"
             /\ IF inst'.pending
                THEN /\ inst'.eEP0State = "STATUS" /\ inst'.ulDevAddress = r.value
                     /\ csr'.faddr = host.addr
                ELSE csr'.faddr = r.value
        ELSE csr'.faddr = host.addr /\ ~inst'.pending
    BY <1>7, <1>11, <2>1 DEF LateServed, Addressed
  <2>4. \/ host.stage = "statusIn"
        \/ host.stage \in {"in", "statusOut"} /\ r.length > 0 /\ r.kind # "CLASS_OUT"
        \/ host.stage = "out" /\ r.kind = "CLASS_OUT" /\ csr'.dataend
           /\ inst'.eEP0State = "IDLE"
    BY <1>7, <1>11, <2>1 DEF LateServed
  <2>5. LateServed'
    BY <1>1, <2>2, <2>3, <2>4 DEF LateServed, Addressed
  <2> QED BY <1>7, <2>1, <2>5
<1>12. CASE LateReceiving
  <2>1. t = Receive(Dev)
    BY <1>3, <1>4, <1>12 DEF LateReceiving, EnumHandler
  <2> QED BY <1>1, <1>2, <1>12, <2>1, LateReceives
<1> QED BY <1>2, <1>8, <1>9, <1>10, <1>11, <1>12

\* Every interrupt keeps Inv.
LEMMA HandlerStep ==
    ASSUME Inv, USBDeviceIntHandlerInternal
    PROVE  Inv' /\ Tells
<1>1. seen # {}
  BY HandlerFacts
<1>2. ~Stalled /\ ~Done
  BY <1>1 DEF Stalled, Done, Raised
<1>3. CASE Asked
  <2>1. CASE "EP0" \in seen /\ inst.eEP0State \in {"IDLE", "STATUS"}
    BY <1>3, <2>1, AskedServed
  <2>2. CASE ~("EP0" \in seen /\ inst.eEP0State \in {"IDLE", "STATUS"})
    BY <1>3, <2>2, AskedWaits
  <2> QED BY <2>1, <2>2
<1> QED BY <1>2, <1>3, IdleHandled, SendingHandled, ReceivingHandled, LateHandled DEF Inv

-----------------------------------------------------------------------------
(* The host.                                                               *)

\* The controller takes or gives a packet.
LEMMA ControllerFacts ==
    ASSUME DeviceOK(Dev), inst' = inst, csr' \in Csr, class' \in Class,
           Len(csr'.rx) <= EP0_MAX_PACKET_SIZE, csr'.tx = << >> \/ csr'.tx = csr.tx,
           csr'.tx = << >> \/ csr'.txrdy
    PROVE  DeviceOK(Dev')
<1> DEFINE d == [inst |-> inst, csr |-> csr', class |-> class']
<1>1. Dev' = d
  BY DEF Dev
<1>2. /\ inst \in Inst /\ Len(csr.tx) <= EP0_MAX_PACKET_SIZE
      /\ inst.ucConfigSection <= NumSections(inst.ucConfigIndex)
      /\ inst.eEP0State = "TX_CONFIG" => AtPlace(inst) /\ Reached(inst) >= ConfDescSize
  BY DEF DeviceOK, Dev
<1>3. Len(csr'.tx) <= EP0_MAX_PACKET_SIZE
  <2>1. 0 <= EP0_MAX_PACKET_SIZE /\ Len(<< >>) = 0
    BY SizesAssumption
  <2> QED BY <1>2, <2>1
<1>4. /\ d.inst = inst /\ d.csr = csr' /\ d.class = class'
      /\ d = [inst |-> d.inst, csr |-> d.csr, class |-> d.class]
  OBVIOUS
<1> HIDE DEF d
<1>5. DeviceOK(d)
  BY <1>2, <1>3, <1>4 DEF DeviceOK
<1> QED BY <1>1, <1>5

\* The host's view of the settings.
Beliefs(h, g) ==
    g.config = h.config /\ g.alt = h.alt /\ g.wake = h.wake /\ g.halt = h.halt

\* Hosts with the same view of the settings expect the same answers.
LEMMA BeliefsFacts ==
    ASSUME NEW h, NEW g, Beliefs(h, g)
    PROVE  /\ \A r : AnswersTo(r, g) = AnswersTo(r, h)
           /\ \A i : Knows(i, h) = Knows(i, g)
BY DEF Beliefs, AnswersTo, Knows

\* A request with data sets nothing.
LEMMA ReadsOnly ==
    ASSUME NEW r, WellFormed(r), r.length > 0
    PROVE  \A h : Believed(r, h) = h
BY DEF WellFormed, Believed

\* An interrupt that the controller raises.
LEMMA RaisedFacts ==
    ASSUME Inv, irq' = irq \cup {"EP0"}, seen' = seen
    PROVE  /\ Raised' = Raised \cup {"EP0"} /\ "EP0" \in Raised'
           /\ ("RESET" \in Raised') = ("RESET" \in Raised)
           /\ irq' \subseteq {"EP0", "RESET"} /\ seen' \subseteq {"EP0", "RESET"}
           /\ "RESET" \in irq' => seen' = {}
           /\ "EP0" \notin seen => Once'
           /\ Raised = {} => Raised' = {"EP0"} /\ Once'
<1>1. Raised' = Raised \cup {"EP0"} /\ "EP0" \in Raised'
  BY DEF Raised
<1>2. ("RESET" \in Raised') = ("RESET" \in Raised)
  BY <1>1
<1>3. /\ irq' \subseteq {"EP0", "RESET"} /\ seen' \subseteq {"EP0", "RESET"}
      /\ "RESET" \in irq' => seen' = {}
  BY DEF Inv, Sound
<1>4. "EP0" \notin seen => Once'
  BY DEF Once
<1>5. Raised = {} => Raised' = {"EP0"} /\ Once'
  BY DEF Raised, Once
<1> QED BY <1>1, <1>2, <1>3, <1>4, <1>5

\* The interrupt status is read: no phase tells what is raised from what is being served.
LEMMA StatusRead ==
    ASSUME Inv, inst' = inst, csr' = csr, class' = class, host' = host,
           Raised' = Raised, Once => Once', irq' \subseteq {"EP0", "RESET"},
           seen' \subseteq {"EP0", "RESET"}, "RESET" \in irq' => seen' = {}
    PROVE  Inv' /\ Tells
<1>1. Sound'
  <2>1. Dev' = Dev
    BY DEF Dev
  <2> QED BY <2>1 DEF Inv, Sound
<1>2. Addressed' = Addressed /\ AddressDue' = AddressDue /\ Aware' = Aware
  BY DEF Addressed, AddressDue, Aware
<1>3. Idle => Idle'
  BY <1>2 DEF Idle
<1>4. Asked => Asked'
  BY <1>2 DEF Asked
<1>5. (Stalled => Stalled') /\ (Done => Done')
  BY <1>2 DEF Stalled, Done
<1>6. Receiving => Receiving'
  BY <1>2 DEF Receiving
<1>7. Sending => Sending'
  <2>1. Packets => Packets'
    BY DEF Packets
  <2> QED BY <1>2, <2>1 DEF Sending
<1>8. Late => Late'
  <2>1. (LateAsked => LateAsked') /\ (LateRefused => LateRefused')
    BY <1>2 DEF LateAsked, LateRefused
  <2>2. (LateServed => LateServed') /\ (LateReceiving => LateReceiving')
    BY <1>2 DEF LateServed, LateReceiving
  <2> QED BY <2>1, <2>2 DEF Late
<1> QED BY <1>1, <1>3, <1>4, <1>5, <1>6, <1>7, <1>8 DEF Inv, Tells

\* A SETUP packet: what it does to the controller and the host.
LEMMA SetupFacts ==
    ASSUME Inv, NEW r \in host.menu, NEW again \in BOOLEAN, NEW trouble \in BOOLEAN,
           Setup(r, again, trouble), again => trouble
    PROVE  /\ inst' = inst /\ irq' = irq \cup {"EP0"} /\ seen' = seen
           /\ csr'.rx = SetupPacket /\ ~csr'.txrdy /\ ~csr'.dataend
           /\ csr'.sendstall = csr.sendstall /\ csr'.faddr = csr.faddr
           /\ host'.menu = host.menu /\ host'.stage = Stage(r) /\ host'.req = r
           /\ host'.got = << >> /\ host'.sent = 0 /\ host'.addr = host.addr
           /\ Beliefs(host, host')
           /\ host'.late = ("EP0" \in seen \/ (again /\ host.late))
           /\ host'.trouble = (trouble \/ host'.late)
           /\ Sound' /\ Tells
<1> DEFINE late == "EP0" \in seen \/ (again /\ host.late)
<1>1. DeviceOK(Dev) /\ host \in Host /\ csr \in Csr
  BY DEF Inv, Sound, DeviceOK, Dev
<1>2. /\ csr' = [csr EXCEPT !.rx = SetupPacket, !.tx = << >>, !.txrdy = FALSE,
                            !.dataend = FALSE]
      /\ host' = [host EXCEPT !.stage = Stage(r), !.req = r, !.got = << >>, !.sent = 0,
                              !.retried = again, !.late = late, !.trouble = trouble \/ late]
      /\ class' = [buffer |-> << >>, told |-> << >>] /\ irq' = irq \cup {"EP0"}
      /\ inst' = inst /\ seen' = seen
  BY DEF Setup, SetupPacket, EP0Interrupt
<1>3. << >> \in Seq(Byte)
  OBVIOUS
<1>4. /\ csr' \in Csr /\ csr'.rx = SetupPacket /\ csr'.tx = << >> /\ ~csr'.txrdy /\ ~csr'.dataend
      /\ csr'.sendstall = csr.sendstall /\ csr'.faddr = csr.faddr
  BY <1>1, <1>2, <1>3, SetupPacketIs DEF Csr
<1>5. class' \in Class /\ class'.told = << >>
  BY <1>2, <1>3 DEF Class
<1>6. DeviceOK(Dev')
  <2>1. Len(csr'.rx) <= EP0_MAX_PACKET_SIZE
    BY <1>4, SetupPacketIs
  <2> QED BY <1>1, <1>2, <1>4, <1>5, <2>1, ControllerFacts
<1>7. late \in BOOLEAN /\ (trouble \/ late) \in BOOLEAN
  BY <1>1 DEF Host
<1>8. /\ host'.menu = host.menu /\ host'.stage = Stage(r) /\ host'.req = r /\ host'.got = << >>
      /\ host'.sent = 0 /\ host'.retried = again /\ host'.late = late
      /\ host'.trouble = (trouble \/ late)
      /\ host'.addr = host.addr /\ Beliefs(host, host')
  <2> HIDE DEF late
  <2> QED BY <1>1, <1>2 DEF Host, Beliefs
<1>9. host' \in Host
  <2>1. Stage(r) \in {"idle", "in", "out", "statusIn", "statusOut"}
    BY DEF Stage
  <2>2. r \in UNION Menus
    BY <1>1 DEF Host
  <2>3. host'.late \in BOOLEAN /\ host'.trouble \in BOOLEAN /\ host'.retried \in BOOLEAN
    BY <1>7, <1>8
  <2> DEFINE l == late
             b == trouble \/ late
  <2>4. l \in BOOLEAN /\ b \in BOOLEAN
        /\ host' = [host EXCEPT !.stage = Stage(r), !.req = r, !.got = << >>, !.sent = 0,
                                !.retried = again, !.late = l, !.trouble = b]
    BY <1>2, <1>7
  <2>5. host \in Host /\ << >> \in Seq(Byte)
    BY <1>1, <1>3
  <2> HIDE DEF l, b
  <2> QED BY <2>1, <2>2, <2>4, <2>5, ZenonT(40) DEF Host
<1>10. host'.retried \/ host'.late => host'.trouble
  BY <1>8
<1>11. Sound'
  BY <1>2, <1>6, <1>9, <1>10, RaisedFacts DEF Sound
<1>12. Tells
  BY <1>5 DEF Tells
<1>13. host'.trouble = (trouble \/ host'.late)
  <2> HIDE DEF late
  <2> QED BY <1>8
<1> QED BY <1>2, <1>4, <1>8, <1>11, <1>12, <1>13

\* A request, or the same once more.
LEMMA SetupStep ==
    ASSUME Inv, NEW r \in host.menu, NEW again \in BOOLEAN, NEW trouble \in BOOLEAN,
           Setup(r, again, trouble), again => trouble,
           inst.eEP0State # "RX", ~csr.sendstall, csr.faddr = host.addr,
           ~trouble => inst.eEP0State \in {"IDLE", "STATUS"},
           Aware, Addressed \/ AddressDue,
           "EP0" \in seen \/ again => "RESET" \notin Raised
    PROVE  Inv' /\ Tells
<1>1. /\ inst' = inst /\ irq' = irq \cup {"EP0"} /\ seen' = seen
      /\ csr'.rx = SetupPacket /\ ~csr'.txrdy /\ ~csr'.dataend
      /\ csr'.sendstall = csr.sendstall /\ csr'.faddr = csr.faddr
      /\ host'.menu = host.menu /\ host'.stage = Stage(r) /\ host'.req = r
      /\ host'.got = << >> /\ host'.sent = 0 /\ host'.addr = host.addr
      /\ Beliefs(host, host')
      /\ host'.late = ("EP0" \in seen \/ (again /\ host.late))
      /\ host'.trouble = (trouble \/ host'.late)
      /\ Sound' /\ Tells
  BY SetupFacts
<1>2. /\ "EP0" \in Raised' /\ ("RESET" \in Raised') = ("RESET" \in Raised)
      /\ "EP0" \notin seen => Once'
  BY <1>1, RaisedFacts
<1>3. Aware' /\ (Knows(inst, host) => Knows(inst', host'))
  BY <1>1, <1>2 DEF Aware, Knows, Beliefs
<1>4. Addressed' \/ AddressDue'
  BY <1>1, <1>2 DEF Addressed, AddressDue
<1>5. CASE host'.late
  <2>1. "RESET" \notin Raised
    BY <1>1, <1>5
  <2>2. Knows(inst', host')
    BY <1>3, <2>1 DEF Aware
  <2>3. LateAsked'
    BY <1>1, <1>4, <2>2 DEF LateAsked
  <2>4. Late'
    BY <1>1, <1>2, <1>5, <2>1, <2>3 DEF Late
  <2> QED BY <1>1, <2>4 DEF Inv
<1>6. CASE ~host'.late
  <2>1. ~host'.trouble => inst'.eEP0State \in {"IDLE", "STATUS"}
    BY <1>1, <1>6
  <2>2. Once'
    BY <1>1, <1>2, <1>6
  <2>3. Asked'
    BY <1>1, <1>2, <1>3, <1>4, <2>1, <2>2 DEF Asked
  <2> QED BY <1>1, <2>3 DEF Inv
<1> QED BY <1>5, <1>6

\* A new request keeps Inv.
LEMMA RequestStep ==
    ASSUME Inv, HostRequest
    PROVE  Inv' /\ Tells
<1>1. host.stage = "idle" /\ host.addr = csr.faddr
  BY DEF HostRequest, Found
<1>2. PICK r \in host.menu : Setup(r, FALSE, host.trouble)
  BY DEF HostRequest
<1>3. Idle
  <2>1. ~Late
    BY <1>1 DEF Late, LateAsked, LateRefused, LateServed, LateReceiving, Stage
  <2> QED BY <1>1, <2>1 DEF Inv, Asked, Stalled, Sending, Receiving, Done, Stage
<1>4. host.trouble \in BOOLEAN
  BY DEF Inv, Sound, Host
<1>5. "EP0" \in seen => "RESET" \notin Raised
  BY <1>3 DEF Idle, Raised
<1> DEFINE no == FALSE
<1>6. no \in BOOLEAN /\ Setup(r, no, host.trouble) /\ ~no
  BY <1>2
<1> HIDE DEF no
<1> QED BY <1>1, <1>3, <1>4, <1>5, <1>6, SetupStep DEF Idle

\* A host repeats a request only behind a transfer that did not end well, or whose SETUP
\* was late: in any other, something moves.
LEMMA RetriesStep ==
    ASSUME Inv, HostRetries
    PROVE  Inv' /\ Tells /\ host'.trouble
<1> DEFINE r == host.req
           yes == TRUE
<1>1. /\ host.stage # "idle" /\ host.addr = csr.faddr /\ irq = {} /\ seen = {} /\ Raised = {}
      /\ ~CanRead /\ ~CanWrite /\ ~CanFinish /\ ~IsStalled
      /\ Setup(r, yes, host.trouble) /\ yes
  BY DEF HostRetries, Settled, Found, Raised
<1> HIDE DEF yes
<1>2. Asked \/ Late
  <2>1. ~Idle
    BY <1>1 DEF Idle
  <2>2. ~Stalled
    BY <1>1 DEF Stalled, IsStalled, Found
  <2>3. ~Sending
    BY <1>1 DEF Sending, Packets, CanRead, CanFinish, Found
  <2>4. ~Receiving
    BY <1>1 DEF Receiving, CanWrite, CanFinish, Found
  <2>5. ~Done
    BY <1>1 DEF Done, CanFinish, Found
  <2> QED BY <2>1, <2>2, <2>3, <2>4, <2>5 DEF Inv
<1>3. host \in Host /\ host.trouble \in BOOLEAN /\ host.trouble /\ r \in host.menu
  BY <1>1, <1>2 DEF Asked, Late, Inv, Sound, Host
<1>4. WellFormed(r)
  BY <1>3, MenusAssumption DEF Host
<1>5. yes \in BOOLEAN /\ (yes => host.trouble)
  BY <1>3 DEF yes
<1>6. /\ inst' = inst /\ irq' = irq \cup {"EP0"} /\ seen' = seen
      /\ csr'.rx = SetupPacket /\ csr'.sendstall = csr.sendstall /\ csr'.faddr = csr.faddr
      /\ host'.menu = host.menu /\ host'.stage = Stage(r) /\ host'.req = r
      /\ host'.sent = 0 /\ host'.addr = host.addr /\ Beliefs(host, host')
      /\ host'.late = ("EP0" \in seen \/ (yes /\ host.late))
      /\ host'.trouble = (host.trouble \/ host'.late)
      /\ Sound' /\ Tells
  BY <1>1, <1>3, <1>5, SetupFacts
<1>7. host'.trouble
  BY <1>3, <1>6
<1>8. ASSUME inst.eEP0State # "RX", ~csr.sendstall, Aware, Addressed \/ AddressDue
      PROVE  Inv' /\ Tells
  BY <1>1, <1>3, <1>5, <1>8, SetupStep
<1>9. CASE Asked
  BY <1>7, <1>8, <1>9 DEF Asked
<1>10. CASE Late /\ LateAsked
  <2>1. Aware
    BY <1>1, <1>10 DEF LateAsked, Aware
  <2> QED BY <1>7, <1>8, <1>10, <2>1 DEF LateAsked
<1>11. CASE Late /\ LateRefused
  BY <1>1, <1>11 DEF LateRefused, IsStalled, Found
<1>12. CASE Late /\ LateServed
  <2>1. host.stage \in {"in", "out"}
    BY <1>1, <1>12 DEF LateServed, CanFinish, Found
  <2>2. r.length > 0
    <3> HIDE DEF r
    <3> QED BY <1>4, <1>12, <2>1 DEF LateServed, WellFormed, r
  <2>3. Believed(r, host) = host /\ r.kind # "SET_ADDRESS"
    <3>1. Believed(r, host) = host
      BY <1>4, <2>2, ReadsOnly
    <3>2. r.kind # "SET_ADDRESS"
      <4> HIDE DEF r
      <4> QED BY <1>4, <2>2 DEF WellFormed
    <3> QED BY <3>1, <3>2
  <2>4. Aware /\ Addressed
    BY <1>1, <1>12, <2>3 DEF LateServed, Aware
  <2> QED BY <1>7, <1>8, <1>12, <2>4 DEF LateServed
<1>13. CASE Late /\ LateReceiving
  <2>1. /\ r.kind = "CLASS_OUT" /\ ~csr.sendstall /\ inst.eEP0State = "RX"
        /\ host.sent <= r.length /\ 0 < inst.ulEP0DataRemain
        /\ inst.ulEP0DataRemain <= (r.length - host.sent) + Len(csr.rx)
        /\ Len(csr.rx) <= host.sent + 1 /\ host.late /\ "RESET" \notin Raised
        /\ Knows(inst, host) /\ csr.faddr = host.addr /\ ~inst.pending
    BY <1>13 DEF LateReceiving, Late, Addressed
  <2>2. r.length \in Nat /\ r.length > 0 /\ host.sent \in Nat /\ inst.ulEP0DataRemain \in Nat
        /\ Len(csr.rx) \in Nat
    <3>1. r.length \in Nat /\ r.length > 0
      <4> HIDE DEF r
      <4> QED BY <1>4, <2>1 DEF WellFormed
    <3>2. inst \in Inst /\ csr \in Csr
      BY DEF Inv, Sound, DeviceOK, Dev
    <3>3. csr.rx \in Seq(Byte) /\ inst.ulEP0DataRemain \in Nat /\ host.sent \in Nat
      BY <1>3, <3>2 DEF Inst, Csr, Host
    <3> QED BY <3>1, <3>3
  <2>3. Stage(r) = "out" /\ 0 # r.length /\ 0 <= r.length
    BY <2>1, <2>2 DEF Stage
  <2>4. inst.ulEP0DataRemain <= (r.length - 0) + 1
    <3> HIDE DEF r
    <3> QED BY <2>1, <2>2
  <2>5. Len(csr'.rx) = 1 /\ 1 <= 0 + 1
    BY <1>6, SetupPacketIs
  <2>6. Knows(inst', host')
    BY <1>6, <2>1 DEF Knows, Beliefs
  <2>7. LateReceiving'
    BY <1>6, <2>1, <2>3, <2>4, <2>5, <2>6 DEF LateReceiving, Addressed
  <2>8. Late'
    <3>1. host'.late /\ "RESET" \notin Raised'
      BY <1>1, <1>6, <2>1, RaisedFacts
    <3> QED BY <1>3, <1>6, <2>7, <3>1 DEF Late
  <2> QED BY <1>6, <1>7, <2>8 DEF Inv
<1> QED BY <1>2, <1>9, <1>10, <1>11, <1>12, <1>13 DEF Late

\* The host's transfer is over, and what it believes is of the same kind as before.
LEMMA OverFacts ==
    ASSUME NEW h \in Host, NEW trouble \in BOOLEAN
    PROVE  LET g == Over(h, trouble)
           IN  /\ g \in Host /\ g.stage = "idle" /\ ~g.retried /\ ~g.late /\ g.trouble = trouble
               /\ Beliefs(h, g) /\ g.addr = h.addr /\ g.menu = h.menu
<1> DEFINE g == Over(h, trouble)
<1>1. g = [h EXCEPT !.stage = "idle", !.req = NoRequest, !.got = << >>, !.sent = 0,
                    !.retried = FALSE, !.late = FALSE, !.trouble = trouble]
  BY DEF Over
<1>2. << >> \in Seq(Byte)
  OBVIOUS
<1> HIDE DEF g
<1>3. g \in Host
  BY <1>1, <1>2 DEF Host
<1>4. /\ g.stage = "idle" /\ ~g.retried /\ ~g.late /\ g.trouble = trouble
      /\ Beliefs(h, g) /\ g.addr = h.addr /\ g.menu = h.menu
  BY <1>1 DEF Host, Beliefs
<1> QED BY <1>3, <1>4 DEF g

\* Multiples of a packet size.
LEMMA ModUnique ==
    ASSUME NEW q \in Nat, NEW m \in Nat \ {0}
    PROVE  (m * q) % m = 0
OBVIOUS

\* A multiple and one more packet.
LEMMA ModPlus ==
    ASSUME NEW a \in Nat, NEW m \in Nat \ {0}, a % m = 0
    PROVE  (a + m) % m = 0
<1> DEFINE q == a \div m
<1>1. q \in Nat /\ a = m * q + (a % m)
  OBVIOUS
<1> HIDE DEF q
<1>2. a + m = m * (q + 1)
  BY <1>1
<1>3. q + 1 \in Nat
  BY <1>1
<1> QED BY <1>2, <1>3, ModUnique

\* The host takes a packet: what this does to the controller and to the host.
LEMMA InFacts ==
    ASSUME Inv, HostIn
    PROVE  LET short == Len(csr.tx) < EP0_MAX_PACKET_SIZE
               all == Len(host.got \o csr.tx) >= host.req.length
           IN  /\ irq' = irq \cup {"EP0"} /\ seen' = seen /\ inst' = inst
               /\ csr'.rx = << >> /\ csr'.tx = << >> /\ ~csr'.txrdy
               /\ csr'.sendstall = csr.sendstall /\ csr'.faddr = csr.faddr
               /\ csr'.dataend = csr.dataend
               /\ host'.menu = host.menu /\ host'.req = host.req
               /\ host'.got = host.got \o csr.tx
               /\ host'.stage = (IF short \/ all THEN "statusOut" ELSE "in")
               /\ host'.trouble = host.trouble /\ host'.late = host.late
               /\ host'.addr = host.addr /\ Beliefs(host, host')
               /\ host.got \in Seq(Byte) /\ csr.tx \in Seq(Byte) /\ Rest(inst) \in Seq(Byte)
               /\ Sound' /\ Tells
<1> DEFINE r == host.req
           got == host.got
           tx == csr.tx
           short == Len(tx) < EP0_MAX_PACKET_SIZE
           all == Len(got \o tx) >= r.length
           now == got \o tx
           stage == IF short \/ all THEN "statusOut" ELSE "in"
<1>1. /\ host.stage = "in" /\ csr.rx = << >>
      /\ irq' = irq \cup {"EP0"} /\ seen' = seen /\ inst' = inst /\ class' = class
      /\ csr' = [csr EXCEPT !.tx = << >>, !.txrdy = FALSE]
      /\ host' = [host EXCEPT !.got = got \o tx, !.stage = IF short \/ all THEN "statusOut" ELSE @]
  BY DEF HostIn, CanRead, EP0Interrupt
<1>2. /\ DeviceOK(Dev) /\ host \in Host /\ csr \in Csr /\ class \in Class
      /\ (host.retried \/ host.late => host.trouble) /\ Len(csr.rx) <= EP0_MAX_PACKET_SIZE
      /\ Dev.inst = inst
  BY DEF Inv, Sound, DeviceOK, Dev
<1>3. got \in Seq(Byte) /\ tx \in Seq(Byte) /\ Rest(inst) \in Seq(Byte)
  <2>1. got \in Seq(Byte) /\ tx \in Seq(Byte)
    BY <1>2 DEF Host, Csr
  <2>2. Rest(inst) \in Seq(Byte)
    BY <1>2, RestType
  <2> QED BY <2>1, <2>2
<1>4. now \in Seq(Byte) /\ << >> \in Seq(Byte)
  <2> HIDE DEF got, tx
  <2> QED BY <1>3, ConcatProperties
<1>5. stage \in {"in", "statusOut"}
  OBVIOUS
<1>6. host' = [host EXCEPT !.got = now, !.stage = stage]
  BY <1>1
<1> HIDE DEF now, stage
<1>7. /\ csr' \in Csr /\ csr'.rx = << >> /\ csr'.tx = << >> /\ ~csr'.txrdy
      /\ csr'.sendstall = csr.sendstall /\ csr'.faddr = csr.faddr /\ csr'.dataend = csr.dataend
  BY <1>1, <1>2, <1>4 DEF Csr
<1>8. /\ host'.menu = host.menu /\ host'.req = r /\ host'.got = now /\ host'.stage = stage
      /\ host'.retried = host.retried /\ host'.trouble = host.trouble
      /\ host'.late = host.late /\ host'.addr = host.addr /\ Beliefs(host, host')
  BY <1>2, <1>6 DEF Host, Beliefs
<1>9. host' \in Host
  BY <1>2, <1>4, <1>5, <1>6 DEF Host
<1>10. DeviceOK(Dev')
  <2>1. Len(csr'.rx) <= EP0_MAX_PACKET_SIZE
    BY <1>1, <1>2, <1>7
  <2> QED BY <1>1, <1>2, <1>7, <2>1, ControllerFacts
<1>11. Sound'
  BY <1>1, <1>2, <1>8, <1>9, <1>10, RaisedFacts DEF Sound
<1>12. Tells
  BY <1>1 DEF Tells
<1> HIDE DEF short, all
<1> QED BY <1>1, <1>3, <1>7, <1>8, <1>11, <1>12 DEF now, stage, short, all, r, got, tx

\* The packet belongs to an answer.
LEMMA InSending ==
    ASSUME Inv, HostIn, Sending
    PROVE  Sending'
<1> DEFINE r == host.req
           got == host.got
           tx == csr.tx
           R == Rest(inst)
           short == Len(tx) < EP0_MAX_PACKET_SIZE
           all == Len(got \o tx) >= r.length
<1>2. /\ host.stage = "in" /\ csr.rx = << >> /\ ~csr.sendstall /\ (csr.txrdy \/ csr.dataend)
  BY DEF HostIn, CanRead
<1>1. /\ inst' = inst /\ irq' = irq \cup {"EP0"} /\ seen' = seen
      /\ csr'.rx = << >> /\ csr'.tx = << >> /\ ~csr'.txrdy
      /\ csr'.sendstall = csr.sendstall /\ csr'.faddr = csr.faddr /\ csr'.dataend = csr.dataend
      /\ host'.menu = host.menu /\ host'.req = r /\ host'.got = got \o tx
      /\ host'.stage = (IF short \/ all THEN "statusOut" ELSE "in")
      /\ host'.addr = host.addr /\ Beliefs(host, host')
      /\ got \in Seq(Byte) /\ tx \in Seq(Byte) /\ R \in Seq(Byte)
  BY InFacts
<1>4. host \in Host
  BY DEF Inv, Sound
<1>5. /\ r \in host.menu /\ r.length > 0 /\ Serves(r) /\ "RESET" \notin Raised
      /\ Packets /\ Len(got \o (tx \o R)) <= r.length
      /\ inst.eEP0State \in {"TX", "TX_CONFIG", "STATUS", "IDLE"}
      /\ inst.eEP0State \in {"TX", "TX_CONFIG"} => Len(got) % EP0_MAX_PACKET_SIZE = 0
      /\ NoStray => \E a \in AnswersTo(r, host) : Owed(r, a) = got \o (tx \o R)
      /\ Knows(inst, host) /\ csr.faddr = host.addr /\ ~inst.pending
  BY <1>2 DEF Sending, Addressed
<1>6. \/ /\ inst.eEP0State \in {"TX", "TX_CONFIG"} /\ ~csr.dataend /\ Raised = {}
         /\ Len(tx) = EP0_MAX_PACKET_SIZE
      \/ /\ inst.eEP0State = "STATUS" /\ Raised = {} /\ short
  BY <1>2, <1>5 DEF Packets
<1>7. EP0_MAX_PACKET_SIZE \in Nat \ {0} /\ << >> \in Seq(Byte)
  BY SetupPacketIs
<1>8. got \in Seq(Byte) /\ tx \in Seq(Byte) /\ R \in Seq(Byte)
  BY <1>1
<1> HIDE DEF R
<1>9. /\ got \o tx \in Seq(Byte) /\ Len(got \o tx) = Len(got) + Len(tx)
      /\ got \o (tx \o R) = (got \o tx) \o R /\ << >> \o R = R
      /\ Len((got \o tx) \o R) = Len(got \o tx) + Len(R)
      /\ Len(got) \in Nat /\ Len(tx) \in Nat /\ Len(R) \in Nat
  <2> HIDE DEF got, tx
  <2>1. got \o tx \in Seq(Byte) /\ Len(got \o tx) = Len(got) + Len(tx)
    BY <1>8, ConcatProperties
  <2>2. got \o (tx \o R) = (got \o tx) \o R
    BY <1>8, ConcatAssociative
  <2>3. << >> \o R = R
    BY <1>8, ConcatEmptySeq
  <2>4. Len((got \o tx) \o R) = Len(got \o tx) + Len(R)
    BY <1>8, <2>1, ConcatProperties
  <2> QED BY <1>8, <2>1, <2>2, <2>3, <2>4
<1> DEFINE now == got \o tx
<1>11. host'.stage = (IF short \/ all THEN "statusOut" ELSE "in") /\ host'.got = now
  BY <1>1
<1>14. Raised' = {"EP0"} /\ Once' /\ Rest(inst') = R
  BY <1>1, <1>6, RaisedFacts DEF R
<1>15. (NoStray => \E a \in AnswersTo(r, host') : Owed(r, a) = now \o R)
       /\ Len(now \o R) <= r.length /\ Knows(inst, host')
  <2>1. AnswersTo(r, host') = AnswersTo(r, host) /\ Knows(inst, host')
    BY <1>1, <1>5, BeliefsFacts
  <2> QED BY <1>5, <1>9, <2>1
<1>16. r.length \in Nat /\ Believed(r, host') = host'
  <2>1. WellFormed(r)
    BY <1>4, <1>5, MenusAssumption DEF Host
  <2> QED BY <1>5, <2>1, ReadsOnly DEF WellFormed
<1>17. inst.eEP0State \in {"TX", "TX_CONFIG"} =>
           Len(now) % EP0_MAX_PACKET_SIZE = 0 /\ now # << >>
  <2>1. ASSUME inst.eEP0State \in {"TX", "TX_CONFIG"}
        PROVE  Len(now) % EP0_MAX_PACKET_SIZE = 0 /\ Len(now) # 0
    <3>1. Len(tx) = EP0_MAX_PACKET_SIZE /\ Len(got) % EP0_MAX_PACKET_SIZE = 0
      BY <1>5, <1>6, <2>1
    <3> DEFINE x == Len(got)
    <3>2. Len(now) = x + EP0_MAX_PACKET_SIZE /\ x \in Nat /\ x % EP0_MAX_PACKET_SIZE = 0
      BY <1>9, <3>1
    <3> HIDE DEF x, now
    <3>3. (x + EP0_MAX_PACKET_SIZE) % EP0_MAX_PACKET_SIZE = 0
      BY <1>7, <3>2, ModPlus
    <3> QED BY <1>7, <3>2, <3>3
  <2>2. Len(<< >>) = 0
    OBVIOUS
  <2> HIDE DEF now
  <2> QED BY <2>1, <2>2
<1>18. short \/ all => R = << >>
  <2>1. CASE short
    BY <1>6, <2>1, <1>7 DEF R, Rest
  <2>2. CASE all
    <3>1. Len(R) = 0
      <4> HIDE DEF got, tx
      <4>1. Len(now) >= r.length /\ Len(now) + Len(R) <= r.length /\ Len(now) \in Nat
        BY <1>9, <1>15, <2>2 DEF all
      <4> HIDE DEF now, r
      <4> QED BY <1>9, <1>16, <4>1
    <3> QED BY <1>8, <3>1, EmptySeq
  <2> QED BY <2>1, <2>2
<1> HIDE DEF now
<1>19. /\ host'.req \in host'.menu /\ host'.req.length > 0 /\ Serves(host'.req)
       /\ csr'.rx = << >> /\ ~csr'.sendstall /\ "RESET" \notin Raised'
       /\ inst'.eEP0State \in {"TX", "TX_CONFIG", "STATUS", "IDLE"}
       /\ Believed(host'.req, host') = host'
       /\ inst'.eEP0State \in {"TX", "TX_CONFIG"} => Len(host'.got) % EP0_MAX_PACKET_SIZE = 0
       /\ Knows(inst', host') /\ Addressed'
  <2> HIDE DEF r, short, all
  <2>1. Addressed'
    BY <1>1, <1>5 DEF Addressed
  <2> QED BY <1>1, <1>2, <1>5, <1>11, <1>14, <1>15, <1>16, <1>17, <2>1
<1>20. \/ /\ host'.stage = "in" /\ Packets'
          /\ Len(host'.got \o (csr'.tx \o Rest(inst'))) <= host'.req.length
          /\ NoStray => \E a \in AnswersTo(host'.req, host') :
                            Owed(host'.req, a) = host'.got \o (csr'.tx \o Rest(inst'))
       \/ /\ host'.stage = "statusOut"
          /\ inst'.eEP0State \in {"TX", "TX_CONFIG"} =>
                 host'.got # << >> /\ Len(host'.got) >= host'.req.length
          /\ NoStray => \E a \in AnswersTo(host'.req, host') : Owed(host'.req, a) = host'.got
  <2>1. CASE short \/ all
    <3>1. now \o R = now
      BY <1>9, <1>18, <2>1, ConcatEmptySeq DEF now
    <3>2. inst.eEP0State \in {"TX", "TX_CONFIG"} => Len(now) >= r.length
      <4>1. inst.eEP0State \in {"TX", "TX_CONFIG"} => ~short
        BY <1>6, <1>7
      <4> HIDE DEF short
      <4> QED BY <2>1, <4>1 DEF now
    <3>3. host'.stage = "statusOut"
      BY <1>11, <2>1
    <3>4. NoStray => \E a \in AnswersTo(r, host') : Owed(r, a) = now
      BY <1>15, <3>1
    <3> HIDE DEF r, short, all
    <3> QED BY <1>1, <1>11, <1>17, <3>2, <3>3, <3>4
  <2>2. CASE ~(short \/ all)
    <3>1. host'.stage = "in" /\ Packets'
      BY <1>1, <1>6, <1>11, <1>14, <2>2 DEF Packets
    <3>2. csr'.tx \o Rest(inst') = R
      BY <1>1, <1>9, <1>14
    <3> HIDE DEF r, short, all
    <3> QED BY <1>1, <1>11, <1>15, <3>1, <3>2
  <2> QED BY <2>1, <2>2
<1> HIDE DEF r, got, tx
<1> QED BY <1>19, <1>20 DEF Sending

\* A packet taken in any phase keeps Inv.
LEMMA InStep ==
    ASSUME Inv, HostIn
    PROVE  Inv' /\ Tells
<1> DEFINE r == host.req
<1>1. /\ host.stage = "in" /\ csr.rx = << >> /\ ~csr.sendstall
  BY DEF HostIn, CanRead
<1>2. /\ inst' = inst /\ irq' = irq \cup {"EP0"} /\ seen' = seen
      /\ csr'.rx = << >> /\ csr'.sendstall = csr.sendstall /\ csr'.faddr = csr.faddr
      /\ host'.menu = host.menu /\ host'.req = r
      /\ host'.stage \in {"in", "statusOut"} /\ host'.late = host.late
      /\ host'.addr = host.addr /\ Beliefs(host, host') /\ Sound' /\ Tells
  BY InFacts
<1>3. Sending \/ (Late /\ LateServed)
  <2>1. ~Idle
    BY <1>1 DEF Idle
  <2>2. ~Asked
    BY <1>1, SetupPacketIs DEF Asked
  <2>3. ~Stalled /\ ~Done /\ ~Receiving
    BY <1>1 DEF Stalled, Done, Receiving
  <2>4. ~LateAsked
    BY <1>1, SetupPacketIs DEF LateAsked
  <2>5. ~LateRefused /\ ~LateReceiving
    BY <1>1 DEF LateRefused, LateReceiving
  <2> QED BY <2>1, <2>2, <2>3, <2>4, <2>5 DEF Inv, Late
<1>4. CASE Sending
  BY <1>2, <1>4, InSending DEF Inv
<1>5. CASE Late /\ LateServed
  <2>1. WellFormed(r)
    BY <1>5, MenusAssumption DEF Late, Inv, Sound, Host
  <2>2. r.length > 0 /\ r.kind # "CLASS_OUT"
    BY <1>1, <1>5 DEF LateServed
  <2>3. Believed(r, host) = host /\ Believed(r, host') = host' /\ r.kind # "SET_ADDRESS"
    <3>1. Believed(r, host) = host /\ Believed(r, host') = host'
      BY <2>1, <2>2, ReadsOnly
    <3>2. r.kind # "SET_ADDRESS"
      <4> HIDE DEF r
      <4> QED BY <2>1, <2>2 DEF WellFormed
    <3> QED BY <3>1, <3>2
  <2>4. Knows(inst, host')
    BY <1>2, <1>5, <2>3, BeliefsFacts DEF LateServed
  <2>5. LateServed'
    BY <1>1, <1>2, <1>5, <2>2, <2>3, <2>4 DEF LateServed, Addressed
  <2>6. "RESET" \notin Raised' /\ host.late /\ r \in host.menu
    BY <1>2, <1>5, RaisedFacts DEF Late
  <2> QED BY <1>2, <2>5, <2>6 DEF Inv, Late
<1> QED BY <1>3, <1>4, <1>5

\* The host sends a packet.
LEMMA OutStep ==
    ASSUME Inv, HostOut
    PROVE  Inv' /\ Tells
<1> DEFINE r == host.req
           L == r.length
           sent == host.sent
           n == Least(EP0_MAX_PACKET_SIZE, L - sent)
           data == SubSeq(OutData(sent + n), sent + 1, sent + n)
<1>1. /\ CanWrite /\ irq' = irq \cup {"EP0"} /\ seen' = seen /\ inst' = inst /\ class' = class
      /\ csr' = [csr EXCEPT !.rx = data]
      /\ host' = [host EXCEPT !.sent = sent + n, !.stage = IF sent + n = L THEN "statusIn" ELSE @]
  BY DEF HostOut, EP0Interrupt
<1>2. /\ host.stage = "out" /\ csr.rx = << >> /\ ~csr.sendstall /\ ~csr.dataend
  BY <1>1 DEF CanWrite
<1>3. Receiving \/ (Late /\ LateReceiving)
  <2>1. ~Idle
    BY <1>2 DEF Idle
  <2>2. ~Asked
    BY <1>2, SetupPacketIs DEF Asked
  <2>3. ~Stalled /\ ~Done /\ ~Sending
    BY <1>2 DEF Stalled, Done, Sending
  <2>4. ~LateAsked
    BY <1>2, SetupPacketIs DEF LateAsked
  <2>5. ~LateRefused /\ ~LateServed
    BY <1>2 DEF LateRefused, LateServed
  <2> QED BY <2>1, <2>2, <2>3, <2>4, <2>5 DEF Inv, Late
<1>4. /\ DeviceOK(Dev) /\ host \in Host /\ csr \in Csr /\ class \in Class /\ inst \in Inst
      /\ (host.retried \/ host.late => host.trouble)
      /\ csr.txrdy \/ csr.tx = << >>
  BY DEF Inv, Sound, DeviceOK, Dev
<1>5. /\ r \in host.menu /\ r.kind = "CLASS_OUT" /\ inst.eEP0State = "RX"
      /\ sent <= L /\ sent # L
      /\ Knows(inst, host) /\ csr.faddr = host.addr /\ ~inst.pending
  BY <1>2, <1>3 DEF Receiving, Late, LateReceiving, Addressed
<1>6. EP0_MAX_PACKET_SIZE \in Nat \ {0} /\ L \in Nat /\ sent \in Nat
  <2>1. WellFormed(r)
    BY <1>4, <1>5, MenusAssumption DEF Host
  <2> QED BY <1>4, <2>1, SetupPacketIs DEF WellFormed, Host
<1>7. n \in Nat \ {0} /\ sent + n <= L /\ sent + n \in Nat /\ n <= EP0_MAX_PACKET_SIZE
      /\ sent <= sent + n /\ (sent + n) - sent = n
  <2> HIDE DEF L, sent
  <2>1. L - sent \in Nat \ {0}
    BY <1>5, <1>6
  <2> QED BY <1>6, <2>1 DEF Least
<1> HIDE DEF n, L, sent
<1>9. /\ data \in Seq(Byte) /\ Len(data) = n /\ OutData(sent) \o data = OutData(sent + n)
  <2> DEFINE p == <<"out", 0, 0>>
             x == Bytes(p, sent)
             y == Bytes(Behind(p, sent), n)
  <2>1. p \in Byte
    BY DEF Byte
  <2> HIDE DEF p
  <2>2. x \in Seq(Byte) /\ Len(x) = sent /\ Behind(p, sent) \in Byte
    BY <1>6, <2>1, BytesType
  <2>3. y \in Seq(Byte) /\ Len(y) = n
    BY <1>7, <2>2, BytesType
  <2>4. Bytes(p, sent + n) = x \o y
    BY <1>6, <1>7, <2>1, BytesSplit
  <2> HIDE DEF x, y
  <2>5. OutData(sent) = x /\ OutData(sent + n) = x \o y
    BY <2>4 DEF OutData, p, x
  <2>6. SubSeq(x \o y, Len(x) + 1, Len(x) + Len(y)) = y
    BY <2>2, <2>3, ConcatSimplifications
  <2> QED BY <2>2, <2>3, <2>5, <2>6
<1> HIDE DEF data
<1>10. /\ csr' \in Csr /\ csr'.rx = data /\ csr'.tx = csr.tx /\ csr'.txrdy = csr.txrdy
       /\ csr'.sendstall = csr.sendstall /\ csr'.faddr = csr.faddr /\ csr'.dataend = csr.dataend
  BY <1>1, <1>4, <1>9 DEF Csr
<1>11. /\ host'.menu = host.menu /\ host'.req = r /\ host'.got = host.got /\ host'.sent = sent + n
       /\ host'.stage = (IF sent + n = L THEN "statusIn" ELSE "out")
       /\ host'.retried = host.retried /\ host'.trouble = host.trouble /\ host'.late = host.late
       /\ host'.addr = host.addr /\ Beliefs(host, host')
  BY <1>1, <1>2, <1>4 DEF Host, Beliefs
<1>12. host' \in Host
  BY <1>1, <1>4, <1>7 DEF Host
<1>13. DeviceOK(Dev')
  <2>1. Len(csr'.rx) <= EP0_MAX_PACKET_SIZE
    BY <1>7, <1>9, <1>10
  <2>2. csr'.tx = << >> \/ csr'.txrdy
    BY <1>4, <1>10
  <2> QED BY <1>1, <1>4, <1>10, <2>1, <2>2, ControllerFacts
<1>14. Knows(inst, host')
  BY <1>5, <1>11, BeliefsFacts
<1>15. data # << >>
  <2>1. Len(<< >>) = 0
    OBVIOUS
  <2> QED BY <1>7, <1>9, <2>1
<1>16. Sound' /\ Tells
  BY <1>1, <1>4, <1>11, <1>12, <1>13, RaisedFacts DEF Sound, Tells
<1>17. CASE Receiving
  <2>1. /\ host.got = << >> /\ inst.ulOUTDataSize = L /\ class.buffer \o << >> = OutData(sent)
        /\ inst.ulEP0DataRemain = L - Len(class.buffer) /\ Len(class.buffer) < L /\ Raised = {}
    BY <1>2, <1>17 DEF Receiving, L, sent
  <2>2. class.buffer = OutData(sent) /\ Len(class.buffer) = sent
    <3>1. class.buffer \in Seq(Byte)
      BY <1>4 DEF Class
    <3>2. <<"out", 0, 0>> \in Byte
      BY DEF Byte
    <3>3. Len(OutData(sent)) = sent
      BY <1>6, <3>2, BytesType DEF OutData
    <3> QED BY <2>1, <3>1, <3>3, ConcatEmptySeq
  <2>3. Raised' = {"EP0"} /\ Once'
    BY <1>1, <2>1, RaisedFacts
  <2>4. Len(data) = Least(EP0_MAX_PACKET_SIZE, inst.ulEP0DataRemain)
    BY <1>9, <2>1, <2>2 DEF n
  <2>5. class.buffer \o data = OutData(sent + n)
    BY <1>9, <2>2
  <2>6. Receiving'
    BY <1>1, <1>2, <1>5, <1>7, <1>10, <1>11, <1>14, <1>15, <2>1, <2>3, <2>4, <2>5
       DEF Receiving, Addressed, L
  <2> QED BY <1>16, <2>6 DEF Inv
<1>18. CASE Late /\ LateReceiving
  <2>1. /\ 0 < inst.ulEP0DataRemain /\ inst.ulEP0DataRemain <= (L - sent) + Len(csr.rx)
        /\ host.late /\ "RESET" \notin Raised
    BY <1>18 DEF Late, LateReceiving, L, sent
  <2>2. inst.ulEP0DataRemain \in Nat /\ Len(csr.rx) = 0
    BY <1>2, <1>4 DEF Inst
  <2>3. inst.ulEP0DataRemain <= (L - (sent + n)) + Len(data) /\ Len(data) <= (sent + n) + 1
    BY <1>6, <1>7, <1>9, <2>1, <2>2
  <2>4. LateReceiving'
    BY <1>1, <1>2, <1>5, <1>7, <1>10, <1>11, <1>14, <2>1, <2>3 DEF LateReceiving, Addressed, L
  <2>5. "RESET" \notin Raised'
    BY <1>1, <2>1, RaisedFacts
  <2> QED BY <1>5, <1>11, <1>16, <2>1, <2>4, <2>5 DEF Inv, Late
<1> QED BY <1>3, <1>17, <1>18

\* What a request makes the host believe.
LEMMA BelievedType ==
    ASSUME NEW h \in Host, NEW r, WellFormed(r), Serves(r) \/ Stray(r)
    PROVE  /\ Believed(r, h) \in Host
           /\ Believed(r, h).addr = IF r.kind = "SET_ADDRESS" THEN r.value ELSE h.addr
           /\ Believed(r, h).menu = h.menu /\ Believed(r, h).trouble = h.trouble
<1> DEFINE g == Believed(r, h)
<1>1. CASE r.kind = "SET_ADDRESS"
  <2>1. g = [h EXCEPT !.addr = r.value] /\ r.value \in Nat
    BY <1>1 DEF Believed, WellFormed
  <2> HIDE DEF g
  <2> QED BY <1>1, <2>1 DEF Host, g
<1>2. CASE r.kind = "SET_CONFIGURATION"
  <2>1. g = [h EXCEPT !.config = r.value, !.alt = Unknown] /\ r.value \in Nat
    BY <1>2 DEF Believed, WellFormed
  <2> HIDE DEF g
  <2> QED BY <1>2, <2>1 DEF Host, g
<1>3. CASE r.kind = "SET_INTERFACE"
  <2>1. g = [h EXCEPT !.alt = r.value] /\ r.value \in Alternates
    BY <1>3 DEF Believed, Serves, Stray, StrayHalt, StrayFeature, StrayString
  <2> HIDE DEF g
  <2> QED BY <1>3, <2>1 DEF Host, g
<1>4. CASE r.kind \in {"SET_FEATURE", "CLEAR_FEATURE"}
  <2>1. g = [h EXCEPT !.wake = IF r.kind = "SET_FEATURE" THEN 1 ELSE 0]
    BY <1>4 DEF Believed
  <2> HIDE DEF g
  <2> QED BY <1>4, <2>1 DEF Host, g
<1>5. CASE r.kind \in {"SET_HALT", "CLEAR_HALT"}
  <2> DEFINE v == IF r.kind = "SET_HALT" THEN 1 ELSE 0
             f == [h.halt EXCEPT ![r.value] = v]
  <2>1. g = [h EXCEPT !.halt = f]
    <3>1. g = [h EXCEPT !.halt[r.value] = v]
      BY <1>5 DEF Believed
    <3> QED BY <3>1
  <2>2. f \in [Endpoints -> {0, 1}]
    <3>1. h.halt \in [Endpoints -> {0, 1}]
      BY DEF Host
    <3> QED BY <3>1
  <2> HIDE DEF g, f
  <2> QED BY <1>5, <2>1, <2>2 DEF Host, g
<1>6. CASE r.kind \notin {"SET_ADDRESS", "SET_CONFIGURATION", "SET_INTERFACE", "SET_FEATURE",
                          "CLEAR_FEATURE", "SET_HALT", "CLEAR_HALT"}
  BY <1>6 DEF Believed
<1> QED BY <1>1, <1>2, <1>3, <1>4, <1>5, <1>6

\* The status stage ends a transfer that was carried out.
LEMMA StatusStep ==
    ASSUME Inv, HostStatus
    PROVE  /\ Inv' /\ Tells /\ host.stage \in {"statusIn", "statusOut"}
           /\ host.req \in host.menu /\ (Serves(host.req) \/ Stray(host.req))
<1> DEFINE r == host.req
           h == Believed(r, host)
           trouble == EndedOnFullPacket \/ host.late
<1>1. /\ CanFinish /\ irq' = irq \cup {"EP0"} /\ seen' = seen /\ inst' = inst /\ class' = class
      /\ csr' = [csr EXCEPT !.tx = << >>, !.txrdy = FALSE, !.dataend = FALSE]
      /\ host' = Over(h, trouble)
  BY DEF HostStatus, EP0Interrupt, Believe, Believed
<1>2. /\ host.stage \in {"statusIn", "statusOut"} /\ csr.rx = << >> /\ ~csr.sendstall
  BY <1>1 DEF CanFinish
<1>3. /\ DeviceOK(Dev) /\ host \in Host /\ csr \in Csr /\ class \in Class
      /\ Len(csr.rx) <= EP0_MAX_PACKET_SIZE
  BY DEF Inv, Sound, DeviceOK, Dev
<1>4. ~Receiving /\ ~LateReceiving
  <2>1. ASSUME Receiving PROVE FALSE
    <3>1. host.stage = "statusIn" /\ host.sent = r.length /\ Len(class.buffer) < r.length
          /\ class.buffer \o << >> = OutData(host.sent) /\ r \in host.menu
      BY <1>2, <2>1 DEF Receiving
    <3>2. r.length \in Nat /\ class.buffer \in Seq(Byte) /\ <<"out", 0, 0>> \in Byte
      <4>1. r.length \in Nat
        BY <1>3, <3>1, MenusAssumption DEF WellFormed, Host
      <4> QED BY <1>3, <4>1 DEF Class, Byte
    <3>3. Len(OutData(r.length)) = r.length
      BY <3>2, BytesType DEF OutData
    <3> QED BY <3>1, <3>2, <3>3, ConcatEmptySeq
  <2>2. ASSUME LateReceiving PROVE FALSE
    <3>1. /\ host.sent = r.length /\ 0 < inst.ulEP0DataRemain /\ r.kind = "CLASS_OUT"
          /\ inst.ulEP0DataRemain <= (r.length - host.sent) + Len(csr.rx)
      BY <1>2, <2>2 DEF LateReceiving
    <3>2. Len(csr.rx) = 0 /\ inst.ulEP0DataRemain \in Nat /\ host.sent \in Nat
      BY <1>2, <1>3 DEF DeviceOK, Dev, Inst, Host
    <3> HIDE DEF r
    <3> QED BY <3>1, <3>2
  <2> QED BY <2>1, <2>2
<1>5. Sending \/ Done \/ (Late /\ LateServed)
  <2>1. ~Idle
    BY <1>2 DEF Idle
  <2>2. ~Asked
    BY <1>2, SetupPacketIs DEF Asked
  <2>3. ~Stalled /\ ~LateRefused
    BY <1>2 DEF Stalled, LateRefused
  <2>4. ~LateAsked
    BY <1>2, SetupPacketIs DEF LateAsked
  <2> QED BY <1>4, <2>1, <2>2, <2>3, <2>4 DEF Inv, Late
<1>6. r \in host.menu /\ (Serves(r) \/ Stray(r)) /\ Knows(inst, h) /\ "RESET" \notin Raised
  BY <1>5 DEF Sending, Done, Late, LateServed
<1>7. WellFormed(r)
  BY <1>3, <1>6, MenusAssumption DEF Host
<1>8. trouble \in BOOLEAN
  BY <1>3 DEF EndedOnFullPacket, Host
<1>9. /\ h \in Host /\ h.addr = (IF r.kind = "SET_ADDRESS" THEN r.value ELSE host.addr)
  BY <1>3, <1>6, <1>7, BelievedType
<1>10. /\ csr' \in Csr /\ csr'.rx = << >> /\ csr'.tx = << >>
       /\ csr'.sendstall = csr.sendstall /\ csr'.faddr = csr.faddr
  <2>1. << >> \in Seq(Byte)
    OBVIOUS
  <2> QED BY <1>1, <1>2, <1>3, <2>1 DEF Csr
<1> HIDE DEF h, trouble
<1>11. /\ host' \in Host /\ host'.stage = "idle" /\ ~host'.retried /\ ~host'.late
       /\ host'.trouble = trouble
       /\ Beliefs(h, host') /\ host'.addr = h.addr
  BY <1>1, <1>8, <1>9, OverFacts
<1>12. DeviceOK(Dev')
  <2>1. Len(csr'.rx) <= EP0_MAX_PACKET_SIZE
    BY <1>2, <1>3, <1>10
  <2> QED BY <1>1, <1>3, <1>10, <2>1, ControllerFacts
<1>13. ~trouble => inst.eEP0State \in {"IDLE", "STATUS"}
  <2>1. CASE Done
    BY <2>1 DEF Done
  <2>2. CASE Sending
    BY <1>2, <2>2 DEF Sending, EndedOnFullPacket, trouble
  <2>3. CASE Late
    BY <2>3 DEF Late, trouble
  <2> QED BY <1>5, <2>1, <2>2, <2>3
<1>14. /\ inst.eEP0State # "RX"
       /\ "EP0" \in Raised' /\ "RESET" \notin Raised'
  BY <1>1, <1>5, <1>6, RaisedFacts DEF Sending, Done, LateServed
<1>15. Aware'
  <2>1. Knows(inst, host')
    BY <1>6, <1>11, BeliefsFacts
  <2> QED BY <1>1, <1>14, <2>1 DEF Aware
<1>16. Addressed' \/ AddressDue'
  <2>1. CASE Sending
    <3>1. r.kind # "SET_ADDRESS"
      BY <1>7, <2>1 DEF Sending, WellFormed
    <3> QED BY <1>1, <1>9, <1>10, <1>11, <2>1, <3>1 DEF Sending, Addressed
  <2>2. CASE Done
    <3>1. CASE r.kind = "SET_ADDRESS"
      <4>1. inst.eEP0State = "STATUS" /\ inst.pending /\ inst.ulDevAddress = r.value
        BY <2>2, <3>1 DEF Done
      <4>2. AddressDue'
        BY <1>1, <1>9, <1>11, <1>14, <3>1, <4>1 DEF AddressDue
      <4> QED BY <4>2
    <3>2. CASE r.kind # "SET_ADDRESS"
      BY <1>1, <1>9, <1>10, <1>11, <2>2, <3>2 DEF Done, Addressed
    <3> QED BY <3>1, <3>2
  <2>3. CASE LateServed
    <3>1. CASE r.kind = "SET_ADDRESS" /\ inst.pending
      <4>1. inst.eEP0State = "STATUS" /\ inst.ulDevAddress = r.value
        BY <2>3, <3>1 DEF LateServed
      <4>2. AddressDue'
        BY <1>1, <1>9, <1>11, <1>14, <3>1, <4>1 DEF AddressDue
      <4> QED BY <4>2
    <3>2. CASE r.kind = "SET_ADDRESS" /\ ~inst.pending
      <4>1. csr.faddr = r.value
        BY <2>3, <3>2 DEF LateServed
      <4> QED BY <1>1, <1>9, <1>10, <1>11, <3>2, <4>1 DEF Addressed
    <3>3. CASE r.kind # "SET_ADDRESS"
      BY <1>1, <1>9, <1>10, <1>11, <2>3, <3>3 DEF LateServed, Addressed
    <3> QED BY <3>1, <3>2, <3>3
  <2> QED BY <1>5, <2>1, <2>2, <2>3
<1>17. Idle'
  BY <1>1, <1>2, <1>10, <1>11, <1>13, <1>14, <1>15, <1>16 DEF Idle
<1>18. Sound' /\ Tells
  BY <1>1, <1>11, <1>12, RaisedFacts DEF Sound, Tells
<1> QED BY <1>2, <1>6, <1>17, <1>18 DEF Inv

\* The host sees the stall of a request that the device has nothing for.
LEMMA StallStep ==
    ASSUME Inv, HostSeesStall
    PROVE  /\ Inv' /\ Tells /\ host.req \in host.menu /\ ~Serves(host.req)
<1>1. /\ host.stage # "idle" /\ csr.sendstall
      /\ irq' = irq \cup {"EP0"} /\ seen' = seen /\ inst' = inst /\ class' = class
      /\ csr' = [csr EXCEPT !.sendstall = FALSE, !.sentstall = TRUE]
      /\ host' = Over(host, TRUE)
  BY DEF HostSeesStall, IsStalled, EP0Interrupt
<1>2. Stalled \/ (Late /\ LateRefused)
  <2>1. ~LateAsked /\ ~LateServed /\ ~LateReceiving
    BY <1>1 DEF LateAsked, LateServed, LateReceiving
  <2> QED BY <1>1, <2>1 DEF Inv, Late, Idle, Asked, Sending, Receiving, Done
<1>3. /\ DeviceOK(Dev) /\ host \in Host /\ csr \in Csr /\ class \in Class
      /\ Len(csr.rx) <= EP0_MAX_PACKET_SIZE /\ (csr.txrdy \/ csr.tx = << >>)
  BY DEF Inv, Sound, DeviceOK, Dev
<1>4. /\ csr.rx = << >> /\ "RESET" \notin Raised /\ inst.eEP0State # "RX"
      /\ ~Serves(host.req) /\ host.req \in host.menu
      /\ Knows(inst, host) /\ csr.faddr = host.addr /\ ~inst.pending
  BY <1>2 DEF Stalled, Late, LateRefused, Addressed
<1>5. /\ csr' \in Csr /\ csr'.rx = << >> /\ csr'.tx = csr.tx /\ csr'.txrdy = csr.txrdy
      /\ ~csr'.sendstall /\ csr'.faddr = csr.faddr
  BY <1>1, <1>3, <1>4 DEF Csr
<1> DEFINE yes == TRUE
<1>6. yes \in BOOLEAN /\ host' = Over(host, yes)
  BY <1>1
<1> HIDE DEF yes
<1>7. /\ host' \in Host /\ host'.stage = "idle" /\ ~host'.retried /\ ~host'.late
      /\ host'.trouble = yes
      /\ Beliefs(host, host') /\ host'.addr = host.addr
  BY <1>3, <1>6, OverFacts
<1>8. DeviceOK(Dev')
  <2>1. Len(csr'.rx) <= EP0_MAX_PACKET_SIZE /\ (csr'.tx = << >> \/ csr'.txrdy)
    BY <1>3, <1>4, <1>5
  <2> QED BY <1>1, <1>3, <1>5, <2>1, ControllerFacts
<1>9. Idle'
  <2>1. Knows(inst, host') /\ "RESET" \notin Raised'
    BY <1>1, <1>4, <1>7, BeliefsFacts, RaisedFacts
  <2> QED BY <1>1, <1>4, <1>5, <1>7, <2>1 DEF Idle, Aware, Addressed, yes
<1>10. Sound' /\ Tells
  BY <1>1, <1>7, <1>8, RaisedFacts DEF Sound, Tells
<1> QED BY <1>4, <1>9, <1>10 DEF Inv

\* The host drops a transfer.
LEMMA AbandonStep ==
    ASSUME Inv, HostAbandons
    PROVE  Inv' /\ Tells /\ host'.trouble
<1>1. /\ host.stage \in {"in", "statusOut"} /\ irq = {} /\ seen = {} /\ Raised = {}
      /\ host' = Over(host, TRUE) /\ inst' = inst /\ csr' = csr /\ class' = class
      /\ irq' = irq /\ seen' = seen /\ Raised' = Raised
      /\ host.addr # csr.faddr \/ ~csr.sendstall
  BY DEF HostAbandons, IsStalled, Settled, Found, Raised
<1>2. DeviceOK(Dev) /\ host \in Host
  BY DEF Inv, Sound
<1>3. Asked \/ Sending \/ (Late /\ (LateAsked \/ LateServed))
  <2>1. ~LateRefused
    BY <1>1 DEF LateRefused, Addressed
  <2>2. ~LateReceiving
    BY <1>1 DEF LateReceiving
  <2>3. ~Stalled
    BY <1>1 DEF Stalled, Addressed
  <2> QED BY <1>1, <2>1, <2>2, <2>3 DEF Inv, Late, Idle, Receiving, Done
<1>4. /\ csr.rx \in {<< >>, SetupPacket} /\ inst.eEP0State # "RX" /\ ~csr.sendstall
      /\ Knows(inst, host) /\ csr.faddr = host.addr /\ ~inst.pending
  <2>1. CASE Asked \/ Sending
    BY <1>1, <2>1 DEF Asked, Sending, Aware, Addressed, AddressDue
  <2>2. CASE LateAsked
    BY <1>1, <2>2 DEF LateAsked, Addressed, AddressDue
  <2>3. CASE Late /\ LateServed
    <3>1. WellFormed(host.req)
      BY <1>2, <2>3, MenusAssumption DEF Late, Host
    <3>2. host.req.length > 0
      BY <1>1, <2>3 DEF LateServed
    <3>3. host.req.kind # "SET_ADDRESS"
      BY <3>1, <3>2 DEF WellFormed
    <3>4. Believed(host.req, host) = host
      BY <3>1, <3>2, ReadsOnly
    <3> QED BY <2>3, <3>3, <3>4 DEF LateServed, Addressed
  <2> QED BY <1>3, <2>1, <2>2, <2>3
<1> DEFINE yes == TRUE
<1>5. yes \in BOOLEAN /\ host' = Over(host, yes)
  BY <1>1
<1> HIDE DEF yes
<1>6. /\ host' \in Host /\ host'.stage = "idle" /\ ~host'.retried /\ ~host'.late
      /\ host'.trouble = yes
      /\ Beliefs(host, host') /\ host'.addr = host.addr
  BY <1>2, <1>5, OverFacts
<1>7. DeviceOK(Dev')
  BY <1>1, <1>2 DEF Dev
<1>8. Knows(inst, host')
  BY <1>4, <1>6, BeliefsFacts
<1>9. Idle'
  BY <1>1, <1>4, <1>6, <1>8 DEF Idle, Aware, Addressed, yes
<1>10. Sound' /\ Tells /\ host'.trouble
  BY <1>1, <1>6, <1>7 DEF Sound, Tells, yes
<1> QED BY <1>9, <1>10 DEF Inv

\* A bus reset between two transfers.
LEMMA ResetStep ==
    ASSUME Inv, BusReset, ~ResetMidTransfer
    PROVE  Inv' /\ Tells /\ irq' = {"RESET"}
<1> DEFINE trouble == host.trouble \/ host.stage # "idle"
           g == Over(host, trouble)
<1>1. /\ irq = {} /\ seen = {} /\ irq' = {"RESET"} /\ seen' = {} /\ inst' = inst /\ class' = class
      /\ Raised = {} /\ Raised' = {"RESET"}
      /\ host.stage = "idle" \/ host.addr # csr.faddr
      /\ csr' = [csr EXCEPT !.rx = << >>, !.tx = << >>, !.txrdy = FALSE, !.dataend = FALSE,
                            !.sendstall = FALSE, !.sentstall = FALSE, !.faddr = 0]
      /\ host' = [g EXCEPT !.addr = 0, !.wake = 0, !.config = Unknown, !.alt = Unknown]
  BY DEF BusReset, Lost, Settled, Found, Raised
<1>2. DeviceOK(Dev) /\ host \in Host /\ csr \in Csr /\ class \in Class
  BY DEF Inv, Sound, DeviceOK, Dev
<1>3. Idle \/ (host.stage # "idle" /\ LateServed)
  <2>1. Asked => host.stage # "idle" /\ csr.faddr = host.addr
    BY DEF Asked, Stage
  <2>2. (Stalled => host.stage # "idle" /\ csr.faddr = host.addr)
        /\ (Done => host.stage # "idle" /\ csr.faddr = host.addr)
    BY DEF Stalled, Done, Stage, Addressed
  <2>3. (Sending => host.stage # "idle" /\ csr.faddr = host.addr)
        /\ (Receiving => host.stage # "idle" /\ csr.faddr = host.addr)
    BY DEF Sending, Receiving, Addressed
  <2>4. (LateAsked => host.stage # "idle" /\ csr.faddr = host.addr)
        /\ (LateRefused => host.stage # "idle" /\ csr.faddr = host.addr)
    BY DEF LateAsked, LateRefused, Stage, Addressed
  <2>5. (LateReceiving => host.stage # "idle" /\ csr.faddr = host.addr)
        /\ (LateServed => host.stage # "idle")
    BY DEF LateReceiving, LateServed, Addressed
  <2> QED BY <1>1, <2>1, <2>2, <2>3, <2>4, <2>5 DEF Inv, Late
<1>4. /\ inst.eEP0State # "RX" /\ ~inst.pending /\ (NoStray => inst.ucHalt = host.halt)
      /\ ~trouble => inst.eEP0State \in {"IDLE", "STATUS"}
  <2>1. CASE Idle
    BY <1>1, <2>1 DEF Idle, Aware, Knows, Addressed, AddressDue
  <2>2. CASE host.stage # "idle" /\ LateServed
    <3>1. host.req.kind = "SET_ADDRESS" /\ ~inst.pending
      BY <1>1, <1>3, <2>2 DEF LateServed, Addressed
    <3>2. Believed(host.req, host) = [host EXCEPT !.addr = host.req.value]
      BY <3>1 DEF Believed
    <3>3. Believed(host.req, host).halt = host.halt
      BY <1>2, <3>2 DEF Host
    <3> QED BY <2>2, <3>1, <3>3 DEF LateServed, Knows
  <2> QED BY <1>3, <2>1, <2>2
<1>5. trouble \in BOOLEAN
  BY <1>2 DEF Host
<1> HIDE DEF trouble
<1>6. /\ g \in Host /\ g.stage = "idle" /\ ~g.retried /\ ~g.late /\ g.trouble = trouble
      /\ Beliefs(host, g)
  BY <1>2, <1>5, OverFacts
<1> HIDE DEF g
<1>7. /\ host' \in Host /\ host'.stage = "idle" /\ ~host'.retried /\ ~host'.late
      /\ host'.trouble = trouble /\ host'.addr = 0 /\ host'.wake = 0
      /\ host'.config = Unknown /\ host'.alt = Unknown /\ host'.halt = host.halt
  BY <1>1, <1>6 DEF Host, Beliefs
<1>8. /\ csr' \in Csr /\ csr'.rx = << >> /\ csr'.tx = << >> /\ ~csr'.sendstall /\ csr'.faddr = 0
  <2>1. << >> \in Seq(Byte)
    OBVIOUS
  <2> QED BY <1>1, <1>2, <2>1 DEF Csr
<1>9. DeviceOK(Dev')
  <2>1. Len(csr'.rx) <= EP0_MAX_PACKET_SIZE
    BY <1>8, SetupPacketIs
  <2> QED BY <1>1, <1>2, <1>8, <2>1, ControllerFacts
<1>10. Idle'
  BY <1>1, <1>4, <1>7, <1>8 DEF Idle, Aware, Addressed
<1>11. Sound' /\ Tells
  BY <1>1, <1>7, <1>9 DEF Sound, Tells
<1> QED BY <1>1, <1>10, <1>11 DEF Inv

\* A device that was started has nothing to do and knows nothing yet.
LEMMA InitInv == Init => Inv
<1> SUFFICES ASSUME Init PROVE Inv
  OBVIOUS
<1>1. /\ inst = [eEP0State |-> "IDLE", ulDevAddress |-> 0, pending |-> FALSE,
                 ulConfiguration |-> DEFAULT_CONFIG_ID, altSetting |-> 0,
                 pEP0Data |-> NoPointer, ulEP0DataRemain |-> 0, ulOUTDataSize |-> 0,
                 remoteWake |-> 0, ucHalt |-> [e \in Endpoints |-> 0],
                 ucConfigIndex |-> 0, ucConfigSection |-> 0, ucSectionOffset |-> 0]
      /\ csr = [rx |-> << >>, tx |-> << >>, txrdy |-> FALSE, dataend |-> FALSE,
                sendstall |-> FALSE, sentstall |-> FALSE, faddr |-> 0, alternate |-> 0]
      /\ irq = {} /\ seen = {} /\ Raised = {} /\ class = [buffer |-> << >>, told |-> << >>]
  BY DEF Init, Raised
<1>2. PICK menu \in Menus :
          host = [menu |-> menu, stage |-> "idle", req |-> NoRequest, got |-> << >>,
                  sent |-> 0, retried |-> FALSE, late |-> FALSE, trouble |-> FALSE, addr |-> 0,
                  config |-> Unknown, alt |-> Unknown, wake |-> 0,
                  halt |-> [e \in Endpoints |-> 0]]
  BY DEF Init
<1>3. 0 \in 0 .. Len(Configs) - 1 /\ DEFAULT_CONFIG_ID \in 0 .. Len(Configs)
      /\ 0 \in Alternates /\ EP0_MAX_PACKET_SIZE \in Nat /\ NumSections(0) \in Nat
  <2>1. Configs \in Seq(Seq(Nat)) /\ 1 \in 1 .. Len(Configs)
    BY SizesAssumption DEF DEFAULT_CONFIG_ID
  <2>2. Len(Configs) \in Nat /\ Configs[1] \in Seq(Nat)
    BY <2>1
  <2> QED BY <2>2, <2>1, SizesAssumption DEF DEFAULT_CONFIG_ID, NumSections
<1>4. << >> \in Seq(Byte) /\ Len(<< >>) = 0 /\ NoPointer \in Byte
  <2>1. << >> \in Seq(Byte) /\ Len(<< >>) = 0
    OBVIOUS
  <2> QED BY <2>1 DEF NoPointer, Byte
<1>5. inst \in Inst
  <2>1. [e \in Endpoints |-> 0] \in [Endpoints -> {0, 1}]
    OBVIOUS
  <2> QED BY <1>1, <1>3, <1>4, <2>1 DEF Inst
<1>6. csr \in Csr /\ class \in Class
  BY <1>1, <1>3, <1>4 DEF Csr, Class
<1>7. host \in Host
  <2>1. [e \in Endpoints |-> 0] \in [Endpoints -> {0, 1}]
    OBVIOUS
  <2> QED BY <1>2, <1>4, <2>1 DEF Host
<1>8. DeviceOK(Dev)
  <2>1. Dev.inst = inst /\ Dev.csr = csr /\ Dev.class = class
    BY DEF Dev
  <2>2. Dev = [inst |-> Dev.inst, csr |-> Dev.csr, class |-> Dev.class]
    BY DEF Dev
  <2>3. /\ csr.rx = << >> /\ csr.tx = << >> /\ inst.eEP0State = "IDLE"
        /\ inst.ucConfigSection = 0 /\ inst.ucConfigIndex = 0
    BY <1>1
  <2> QED BY <1>3, <1>4, <1>5, <1>6, <2>1, <2>2, <2>3 DEF DeviceOK
<1>9. Idle
  <2>1. Knows(inst, host)
    BY <1>1, <1>2 DEF Knows
  <2>2. Addressed
    BY <1>1, <1>2 DEF Addressed
  <2>3. Aware
    BY <1>1, <2>1 DEF Aware
  <2> QED BY <1>1, <1>2, <2>2, <2>3 DEF Idle
<1>10. Sound
  BY <1>1, <1>2, <1>7, <1>8 DEF Sound
<1> QED BY <1>9, <1>10 DEF Inv

\* Every step keeps Inv, and tells the class of whole data only.
LEMMA NextStep ==
    ASSUME ~ResetMidTransfer, Inv, [Next]_vars
    PROVE  Inv' /\ Tells
<1>1. CASE USBDeviceIntHandlerInternal
  BY <1>1, HandlerStep
<1>2. CASE HostRequest
  BY <1>2, RequestStep
<1>3. CASE HostIn
  BY <1>3, InStep
<1>4. CASE HostOut
  BY <1>4, OutStep
<1>5. CASE HostStatus
  BY <1>5, StatusStep
<1>6. CASE HostSeesStall
  BY <1>6, StallStep
<1>7. CASE HostRetries
  BY <1>7, RetriesStep
<1>8. CASE HostAbandons
  BY <1>8, AbandonStep
<1>9. CASE BusReset
  BY <1>9, ResetStep
<1>10. CASE USB0DeviceIntHandler
  <2>1. /\ seen = {} /\ seen' = irq /\ irq' = {} /\ inst' = inst /\ csr' = csr
        /\ class' = class /\ host' = host /\ irq \subseteq {"EP0", "RESET"}
    BY <1>10 DEF USB0DeviceIntHandler, Inv, Sound
  <2>2. Raised' = Raised /\ Once'
    BY <2>1 DEF Raised, Once
  <2> QED BY <2>1, <2>2, StatusRead
<1>11. CASE UNCHANGED vars
  <2>1. inst' = inst /\ csr' = csr /\ irq' = irq /\ seen' = seen /\ class' = class /\ host' = host
    BY <1>11 DEF vars
  <2>2. /\ irq \subseteq {"EP0", "RESET"} /\ seen \subseteq {"EP0", "RESET"}
        /\ "RESET" \in irq => seen = {}
    BY DEF Inv, Sound
  <2>3. Raised' = Raised /\ (Once => Once')
    BY <2>1 DEF Raised, Once
  <2> QED BY <2>1, <2>2, <2>3, StatusRead
<1> QED BY <1>1, <1>2, <1>3, <1>4, <1>5, <1>6, <1>7, <1>8, <1>9, <1>10, <1>11 DEF Next, HostNext

\* The device, the controller and the host are always in one of the seven phases, when
\* bus resets fall between two transfers.
THEOREM PhasesAlways == ~ResetMidTransfer => (Spec => []Inv)
<1> SUFFICES ASSUME ~ResetMidTransfer PROVE Spec => []Inv
  OBVIOUS
<1>1. Inv /\ [Next]_vars => Inv'
  BY NextStep
<1> QED BY <1>1, InitInv, PTL DEF Spec

\* The fields of usbdenum.c's device instance and of the controller stay in their
\* ranges: no packet grows beyond the FIFO and no section beyond the configuration.
THEOREM TypeCorrect == ~ResetMidTransfer => (Spec => []TypeOK)
<1> SUFFICES ASSUME ~ResetMidTransfer PROVE Spec => []TypeOK
  OBVIOUS
<1>1. Inv => TypeOK
  <2> SUFFICES ASSUME Inv PROVE TypeOK
    OBVIOUS
  <2>1. /\ inst \in Inst /\ csr \in Csr
        /\ irq \subseteq {"EP0", "RESET"} /\ seen \subseteq {"EP0", "RESET"}
        /\ Len(csr.rx) <= EP0_MAX_PACKET_SIZE /\ Len(csr.tx) <= EP0_MAX_PACKET_SIZE
        /\ inst.ucConfigSection <= NumSections(inst.ucConfigIndex)
    <3>1. Dev.inst = inst /\ Dev.csr = csr
      BY DEF Dev
    <3>2. DeviceOK(Dev) /\ irq \subseteq {"EP0", "RESET"} /\ seen \subseteq {"EP0", "RESET"}
      BY DEF Inv, Sound
    <3> HIDE DEF Dev
    <3> QED BY <3>1, <3>2 DEF DeviceOK
  <2>2. inst.ucConfigSection \in 0 .. Len(Configs[inst.ucConfigIndex + 1])
    <3>1. inst.ucConfigIndex \in 0 .. Len(Configs) - 1 /\ inst.ucConfigSection \in Nat
      BY <2>1 DEF Inst
    <3>2. Len(Configs[inst.ucConfigIndex + 1]) \in Nat
      <4>1. inst.ucConfigIndex + 1 \in 1 .. Len(Configs) /\ Configs \in Seq(Seq(Nat))
        <5>1. Configs \in Seq(Seq(Nat))
          BY SizesAssumption
        <5>2. Len(Configs) \in Nat
          BY <5>1
        <5> QED BY <3>1, <5>1, <5>2
      <4>2. Configs[inst.ucConfigIndex + 1] \in Seq(Nat)
        BY <4>1, ElementOfSeq
      <4> QED BY <4>2
    <3> QED BY <2>1, <3>1, <3>2 DEF NumSections
  <2> QED BY <2>1, <2>2 DEF TypeOK, Inst, Csr
<1> QED BY <1>1, PhasesAlways, PTL

\* USBDSetAddress only records the address: the device answers at the one the host uses
\* but for the moment between the status stage and the end of the next interrupt, whatever
\* arrives between the two readings of that interrupt.  Only a SET_ADDRESS whose own SETUP
\* arrived there may find its address applied too soon.
THEOREM AddressAlwaysFollows == ~ResetMidTransfer => (Spec => []AddressFollowsStatus)
<1> SUFFICES ASSUME ~ResetMidTransfer PROVE Spec => []AddressFollowsStatus
  OBVIOUS
<1>1. Inv => AddressFollowsStatus
  <2> SUFFICES ASSUME Inv, ~Found, ~(host.late /\ host.req.kind = "SET_ADDRESS")
               PROVE  inst.pending /\ host.stage = "idle" /\ "EP0" \in irq \cup seen
    BY DEF AddressFollowsStatus, AddressWaits
  <2>1. ~Late
    BY DEF Late, LateAsked, LateRefused, LateServed, LateReceiving, Addressed, Found
  <2>2. ~Asked /\ ~Stalled /\ ~Sending /\ ~Receiving /\ ~Done
    BY DEF Asked, Stalled, Sending, Receiving, Done, Addressed, Found
  <2>3. Idle
    BY <2>1, <2>2 DEF Inv
  <2> QED BY <2>3 DEF Idle, Addressed, AddressDue, Found, Raised
<1> QED BY <1>1, PhasesAlways, PTL

\* A SETUP that USBDeviceEnumHandler finds in its status or idle state is dispatched at
\* once: a host repeats none but one behind a transfer that did not end well, or one that
\* arrived between the two readings of an interrupt.
THEOREM AlwaysServedTheFirstTime == ~ResetMidTransfer => (Spec => []ServedTheFirstTime)
<1> SUFFICES ASSUME ~ResetMidTransfer PROVE Spec => []ServedTheFirstTime
  OBVIOUS
<1>1. Inv => ServedTheFirstTime
  BY DEF Inv, Sound, ServedTheFirstTime
<1> QED BY <1>1, PhasesAlways, PTL

\* pfnDataReceived is called when the class's buffer holds all that the host has to send,
\* and with the size that was asked for, in a transfer whose SETUP was not late.
THEOREM DataReceivedAlwaysWhole == ~ResetMidTransfer => (Spec => DataReceivedIsWhole)
<1> SUFFICES ASSUME ~ResetMidTransfer PROVE Spec => DataReceivedIsWhole
  OBVIOUS
<1>1. Inv /\ [Next]_vars =>
          (class'.told # class.told /\ class'.told # << >> /\ ~host.late =>
               /\ class'.told[1] = host.req.length
               /\ class'.told[2] = OutData(host.req.length))
  <2> SUFFICES ASSUME Inv, [Next]_vars, class'.told # class.told, class'.told # << >>,
                      ~host.late
               PROVE  /\ class'.told[1] = host.req.length
                      /\ class'.told[2] = OutData(host.req.length)
    OBVIOUS
  <2>1. class'.told = <<host.req.length, OutData(host.req.length)>>
    BY NextStep DEF Tells
  <2> QED BY <2>1
<1> QED BY <1>1, PhasesAlways, PTL DEF Spec, DataReceivedIsWhole

\* The string of a request that is not taken for another is in the table, at the place
\* that Answers gives it.
LEMMA StringIs ==
    ASSUME NEW r, WellFormed(r), ~Stray(r), r.kind = "GET_STRING"
    PROVE  /\ StringAt(r.value) = StringOf(r)
           /\ FindsString(r) => StringSize(StringOf(r)) = Strings[StringAt(r.value) + 1]
<1>1. r.value[2] \in Nat /\ StringsPerLang \in Nat /\ r.value[2] <= StringsPerLang
  BY GroupFacts DEF WellFormed, Stray, StrayString
<1>2. StringAt(r.value) = StringOf(r)
  BY <1>1 DEF StringAt, StringOf
<1>3. FindsString(r) => StringOf(r) < Len(Strings)
  BY StringFacts
<1> QED BY <1>2, <1>3 DEF StringSize

\* The host's view of the answers is the device's, but for the requests that are taken
\* for others.
LEMMA AnswersAre ==
    ASSUME NEW r, WellFormed(r), ~Stray(r)
    PROVE  Answers(r) = AnswersTo(r, host)
<1>1. CASE r.kind = "GET_STRING"
  <2>1. /\ StringAt(r.value) = StringOf(r)
        /\ FindsString(r) => StringSize(StringOf(r)) = Strings[StringAt(r.value) + 1]
    BY <1>1, StringIs
  <2>2. CASE FindsString(r)
    <3>1. Answers(r) = {Bytes(<<"string", StringAt(r.value), 0>>,
                              Strings[StringAt(r.value) + 1])}
      BY <1>1, <2>1, <2>2 DEF Answers, FindsString
    <3>2. AnswersTo(r, host) = {Bytes(<<"string", StringOf(r), 0>>, StringSize(StringOf(r)))}
      BY <1>1, <2>2 DEF AnswersTo
    <3> QED BY <2>1, <2>2, <3>1, <3>2
  <2>3. CASE ~FindsString(r)
    <3>1. Answers(r) = {}
      BY <1>1, <2>1, <2>3 DEF Answers, FindsString
    <3>2. AnswersTo(r, host) = {}
      BY <1>1, <2>3 DEF AnswersTo
    <3> QED BY <3>1, <3>2
  <2> QED BY <2>2, <2>3
<1>2. CASE r.kind # "GET_STRING"
  BY <1>2 DEF Answers, AnswersTo
<1> QED BY <1>1, <1>2

\* A request of a menu is one that a host makes.
LEMMA MenuFacts ==
    ASSUME Inv, NoStray, host.req \in host.menu
    PROVE  WellFormed(host.req) /\ ~Stray(host.req)
<1>1. host.menu \in Menus
  BY DEF Inv, Sound, Host
<1> QED BY <1>1, MenusAssumption DEF NoStray

\* Whatever USBDEP0StateTx and USBDEP0StateTxConfig send, in whatever packets, is the
\* answer to the request that the host made, from its first byte on and without a gap,
\* in a transfer whose SETUP was not late; the hosts make no request that the device
\* takes for another.
THEOREM TransferAlwaysIntact ==
    NoStray /\ ~ResetMidTransfer => (Spec => []TransferIntact)
<1> SUFFICES ASSUME NoStray, ~ResetMidTransfer PROVE Spec => []TransferIntact
  OBVIOUS
<1>1. Inv => TransferIntact
  <2> SUFFICES ASSUME Inv, host.stage \in {"in", "statusOut"}, ~host.late,
                      ~(host.stage = "in" /\ host.got = << >>)
               PROVE  \E a \in Answers(host.req) :
                          LET owed == SubSeq(a, 1, Least(Len(a), host.req.length))
                          IN  /\ Len(host.got) <= Len(owed)
                              /\ host.got = SubSeq(owed, 1, Len(host.got))
                              /\ host.stage = "statusOut" => host.got = owed
    BY DEF TransferIntact
  <2>1. Sending
    BY DEF Inv, Idle, Asked, Stalled, Receiving, Done, Stage, Late
  <2>2. /\ host.got \in Seq(Byte) /\ csr.tx \in Seq(Byte) /\ Rest(inst) \in Seq(Byte)
    <3>1. DeviceOK(Dev) /\ host \in Host /\ csr \in Csr /\ Dev.inst = inst
      BY DEF Inv, Sound, DeviceOK, Dev
    <3>2. Rest(inst) \in Seq(Byte)
      BY <3>1, RestType
    <3> QED BY <3>1, <3>2 DEF Host, Csr
  <2> DEFINE left == IF host.stage = "in" THEN csr.tx \o Rest(inst) ELSE << >>
  <2>3. left \in Seq(Byte)
    BY <2>2
  <2>4. host.got \o << >> = host.got
    BY <2>2, ConcatEmptySeq
  <2>5. PICK a \in AnswersTo(host.req, host) : Owed(host.req, a) = host.got \o left
    BY <2>1, <2>4 DEF Sending
  <2>6. AnswersTo(host.req, host) = Answers(host.req)
    <3>1. WellFormed(host.req) /\ ~Stray(host.req)
      BY <2>1, MenuFacts DEF Sending
    <3> QED BY <3>1, AnswersAre
  <2> DEFINE owed == host.got \o left
  <2>7. Len(host.got) <= Len(owed) /\ host.got = SubSeq(owed, 1, Len(host.got))
    <3> HIDE DEF left
    <3>1. Len(owed) = Len(host.got) + Len(left) /\ Len(left) \in Nat /\ Len(host.got) \in Nat
      BY <2>2, <2>3
    <3>2. SubSeq(owed, 1, Len(host.got)) = host.got
      BY <2>2, <2>3
    <3> QED BY <3>1, <3>2
  <2>8. host.stage = "statusOut" => host.got = owed
    BY <2>4
  <2>9. owed = SubSeq(a, 1, Least(Len(a), host.req.length))
    BY <2>5 DEF Owed
  <2> HIDE DEF owed
  <2> QED BY <2>5, <2>6, <2>7, <2>8, <2>9
<1> QED BY <1>1, PhasesAlways, PTL

\* The device has something for exactly the valid requests, of those that are not taken
\* for others.
LEMMA ValidIs ==
    ASSUME NEW r, WellFormed(r), ~Stray(r)
    PROVE  Valid(r) <=> Serves(r)
<1>1. CASE r.kind \in {"SET_FEATURE", "CLEAR_FEATURE"}
  <2>1. r.value % 2 = REMOTE_WAKE <=> r.value = REMOTE_WAKE
    BY <1>1 DEF Stray, StrayFeature, REMOTE_WAKE
  <2>2. Answers(r) = {}
    BY <1>1 DEF Answers
  <2> QED BY <1>1, <2>1, <2>2 DEF Valid, Commands, Serves
<1>2. CASE r.kind = "GET_STRING"
  <2>1. StringAt(r.value) = StringOf(r)
    BY <1>2, StringIs
  <2>2. Answers(r) # {} <=> FindsString(r)
    BY <1>2, <2>1 DEF Answers, FindsString
  <2> QED BY <1>2, <2>2 DEF Valid, Commands, Serves
<1>3. CASE r.kind \in {"GET_CONFIGURATION", "GET_INTERFACE"}
  <2>1. ASSUME NEW v, NEW S, S # {} PROVE Known(v, S) # {}
    BY <2>1 DEF Known
  <2>2. 0 .. Len(Configs) # {} /\ Alternates # {}
    <3>1. Len(Configs) \in Nat /\ 0 \in Alternates
      BY SizesAssumption
    <3>2. 0 \in 0 .. Len(Configs)
      BY <3>1
    <3> QED BY <3>1, <3>2
  <2>3. CASE r.kind = "GET_CONFIGURATION"
    <3>1. Answers(r) = {Bytes(<<"configuration", v, 0>>, 1) :
                            v \in Known(host.config, 0 .. Len(Configs))}
      BY <2>3 DEF Answers
    <3>2. PICK v : v \in Known(host.config, 0 .. Len(Configs))
      BY <2>1, <2>2
    <3>3. Bytes(<<"configuration", v, 0>>, 1) \in Answers(r)
      BY <3>1, <3>2
    <3> QED BY <2>3, <3>3 DEF Valid, Serves
  <2>4. CASE r.kind = "GET_INTERFACE" /\ r.value = 0
    <3>1. Answers(r) = {Bytes(<<"interface", v, 0>>, 1) : v \in Known(host.alt, Alternates)}
      BY <2>4 DEF Answers
    <3>2. PICK v : v \in Known(host.alt, Alternates)
      BY <2>1, <2>2
    <3>3. Bytes(<<"interface", v, 0>>, 1) \in Answers(r)
      BY <3>1, <3>2
    <3>4. 0 < USB_MAX_INTERFACES_PER_DEVICE
      BY SizesAssumption
    <3> QED BY <2>4, <3>3, <3>4 DEF Valid, Serves
  <2>5. CASE r.kind = "GET_INTERFACE" /\ r.value # 0
    <3>1. r.value \in 1 .. USB_MAX_INTERFACES_PER_DEVICE - 1
              <=> r.value < USB_MAX_INTERFACES_PER_DEVICE
      <4>1. r.value \in Nat
        BY <2>5 DEF WellFormed
      <4>2. USB_MAX_INTERFACES_PER_DEVICE \in Nat
        BY SizesAssumption
      <4> DEFINE v == r.value
      <4>3. v \in Nat /\ v # 0
        BY <2>5, <4>1
      <4> HIDE DEF v
      <4>4. v \in 1 .. USB_MAX_INTERFACES_PER_DEVICE - 1 <=> v < USB_MAX_INTERFACES_PER_DEVICE
        BY <4>2, <4>3
      <4> QED BY <4>4 DEF v
    <3>2. Answers(r) # {} <=> r.value \in 1 .. USB_MAX_INTERFACES_PER_DEVICE - 1
      BY <2>5 DEF Answers
    <3> QED BY <2>5, <3>1, <3>2 DEF Valid, Commands, Serves
  <2> QED BY <1>3, <2>3, <2>4, <2>5
<1>4. CASE r.kind \notin {"SET_FEATURE", "CLEAR_FEATURE", "GET_STRING", "GET_CONFIGURATION",
                          "GET_INTERFACE"}
  BY <1>4 DEF Valid, Commands, Answers, Serves
<1> QED BY <1>1, <1>2, <1>3, <1>4

\* USBDCDStallEP0 is called for the requests the device has nothing for and for no other:
\* a stall is never left over from an earlier transfer, and no transfer ends well that
\* USBDReadAndDispatchRequest should have refused, when the hosts make no request that
\* the device takes for another.
THEOREM AlwaysRefusesOnlyInvalid ==
    NoStray /\ ~ResetMidTransfer => (Spec => RefusesOnlyInvalid)
<1> SUFFICES ASSUME NoStray, ~ResetMidTransfer PROVE Spec => RefusesOnlyInvalid
  OBVIOUS
<1>1. Inv /\ csr.sendstall => ~Valid(host.req)
  <2> SUFFICES ASSUME Inv, csr.sendstall PROVE ~Valid(host.req)
    OBVIOUS
  <2>1. Stalled \/ (Late /\ LateRefused)
    BY DEF Inv, Idle, Asked, Sending, Receiving, Done, Late, LateAsked, LateServed,
           LateReceiving
  <2>2. ~Serves(host.req) /\ host.req \in host.menu
    BY <2>1 DEF Stalled, Late, LateRefused
  <2> QED BY <2>2, MenuFacts, ValidIs
<1>2. Inv /\ [Next]_vars /\ host.stage \in {"statusIn", "statusOut"} /\ host'.stage = "idle"
          /\ ~host'.trouble /\ irq' # {"RESET"}
          => Valid(host.req)
  <2> SUFFICES ASSUME Inv, [Next]_vars, host.stage \in {"statusIn", "statusOut"},
                      host'.stage = "idle", ~host'.trouble, irq' # {"RESET"}
               PROVE  Valid(host.req)
    OBVIOUS
  <2>1. CASE HostStatus
    <3>1. host.req \in host.menu /\ (Serves(host.req) \/ Stray(host.req))
      BY <2>1, StatusStep
    <3> QED BY <3>1, MenuFacts, ValidIs
  <2>2. CASE USBDeviceIntHandlerInternal
    BY <2>2 DEF USBDeviceIntHandlerInternal
  <2>3. CASE USB0DeviceIntHandler
    BY <2>3 DEF USB0DeviceIntHandler
  <2>4. CASE HostRequest
    BY <2>4 DEF HostRequest
  <2>5. CASE HostIn
    BY <2>5 DEF HostIn, CanRead
  <2>6. CASE HostOut
    BY <2>6 DEF HostOut, CanWrite
  <2>7. CASE HostSeesStall
    <3>1. host' = Over(host, TRUE) /\ host \in Host
      BY <2>7 DEF HostSeesStall, Inv, Sound
    <3>2. host'.trouble
      BY <3>1 DEF Over, Host
    <3> QED BY <3>2
  <2>8. CASE HostRetries
    BY <2>8, RetriesStep
  <2>9. CASE HostAbandons
    BY <2>9, AbandonStep
  <2>10. CASE BusReset
    BY <2>10, ResetStep
  <2>11. CASE UNCHANGED vars
    BY <2>11 DEF vars
  <2> QED BY <2>1, <2>2, <2>3, <2>4, <2>5, <2>6, <2>7, <2>8, <2>9, <2>10, <2>11
          DEF Next, HostNext
<1> QED BY <1>1, <1>2, PhasesAlways, PTL DEF Spec, RefusesOnlyInvalid
=============================================================================
