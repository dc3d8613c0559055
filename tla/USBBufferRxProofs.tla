-------------------------- MODULE USBBufferRxProofs --------------------------
(***************************************************************************)
(* Proofs about the receive path, for every ring size, packet size and     *)
(* read length, with and without a tick: an unread packet is flagged       *)
(* wherever the client is interrupted, and the client gets the host's      *)
(* bytes whole and in order when its index updates are not cut in two.     *)
(***************************************************************************)
EXTENDS USBBufferRx, USBRingBufOpsProofs, SequenceTheorems, TLAPS

-----------------------------------------------------------------------------
(* The inductive invariant.                                                *)

\* The ring as it is once the index update under way, if any, is complete.
Settled(r) == [ulReadIndex |-> Wrap(r.ulReadIndex), ulWriteIndex |-> r.ulWriteIndex]

\* The bytes the ring holds, and the number of the last one that left it: the byte
\* loaded is with the client before the index moves past it.
Held == USBRingBufUsed(Settled(ring))
Gone == IF pc = "add" THEN Len(consumed) - 1 ELSE Len(consumed)

\* The bytes of a sequence are the ones that follow byte number start.
Follows(bytes, start) ==
    bytes \in Seq(Nat) /\ \A k \in 1 .. Len(bytes) : bytes[k] = start + k

\* Ring r with storage buf holds the bytes that follow byte number gone, and the
\* FIFO holds those that come next.
Intact(r, buf, bytes, gone) ==
    /\ r \in RingObject /\ buf \in [Index -> Nat] /\ gone \in Nat
    /\ \A k \in 1 .. USBRingBufUsed(r) : buf[Wrap(r.ulReadIndex + k - 1)] = gone + k
    /\ Follows(bytes, gone + USBRingBufUsed(r))

RingOK ==
    /\ Intact(Settled(ring), pucBuf, fifo, Gone)
    /\ Gone + Held + Len(fifo) = sent

\* Only between the addition and the correction is the index past the storage.
IndexOK ==
    /\ pc \in {"idle", "load", "add"} => ring \in RingObject
    /\ pc = "test" => ring.ulReadIndex \in 1 .. ulSize
    /\ pc = "subtract" => ring.ulReadIndex = ulSize

\* The bytes the call under way has yet to read are in the ring.
CallOK ==
    /\ pc \in {"load", "add"} => ulLength \in 1 .. Held
    /\ pc \in {"test", "subtract"} => ulLength \in 1 .. (Held + 1)

\* An acknowledged packet has left the FIFO.
EndpointOK == ~rxrdy => Len(fifo) = 0

Inv == TypeOK /\ RingOK /\ IndexOK /\ CallOK /\ EndpointOK /\ Follows(consumed, 0)

-----------------------------------------------------------------------------
(* Sequences of numbered bytes.                                            *)

\* Bytes put behind the ones they follow make one sequence.
LEMMA ConcatFollows ==
    ASSUME NEW s, NEW t, NEW start \in Nat,
           Follows(s, start), Follows(t, start + Len(s))
    PROVE  Follows(s \o t, start) /\ Len(s \o t) = Len(s) + Len(t)
<1>1. /\ s \in Seq(Nat) /\ t \in Seq(Nat)
      /\ \A k \in 1 .. Len(s) : s[k] = start + k
      /\ \A k \in 1 .. Len(t) : t[k] = start + Len(s) + k
  BY DEF Follows
<1>2. /\ s \o t \in Seq(Nat) /\ Len(s \o t) = Len(s) + Len(t)
      /\ \A k \in 1 .. Len(s) + Len(t) :
             (s \o t)[k] = IF k <= Len(s) THEN s[k] ELSE t[k - Len(s)]
  BY <1>1, ConcatProperties
<1>3. ASSUME NEW k \in 1 .. Len(s) + Len(t)
      PROVE  (s \o t)[k] = start + k
  <2>1. Len(s) \in Nat /\ Len(t) \in Nat
    BY <1>1
  <2>2. CASE k <= Len(s)
    BY <1>1, <1>2, <2>1, <2>2
  <2>3. CASE k > Len(s)
    <3>1. k - Len(s) \in 1 .. Len(t)
      BY <2>1, <2>3
    <3>2. t[k - Len(s)] = start + Len(s) + (k - Len(s))
      BY <1>1, <3>1
    <3> QED BY <1>2, <2>1, <2>3, <3>2
  <2> QED BY <2>1, <2>2, <2>3
<1> QED BY <1>2, <1>3 DEF Follows

\* What is left of numbered bytes when the first n are taken away.
LEMMA RestFollows ==
    ASSUME NEW s, NEW start \in Nat, Follows(s, start), NEW n \in 0 .. Len(s)
    PROVE  /\ Follows(SubSeq(s, n + 1, Len(s)), start + n)
           /\ Len(SubSeq(s, n + 1, Len(s))) = Len(s) - n
<1>1. s \in Seq(Nat) /\ Len(s) \in Nat /\ \A k \in 1 .. Len(s) : s[k] = start + k
  BY DEF Follows
<1>2. \A i \in n + 1 .. Len(s) : s[i] \in Nat
  BY <1>1
<1> DEFINE rest == SubSeq(s, n + 1, Len(s))
<1>3. /\ rest \in Seq(Nat) /\ Len(rest) = Len(s) - n
      /\ \A k \in 1 .. Len(s) - n : rest[k] = s[n + k]
  <2>1. n + 1 \in Int /\ Len(s) \in Int /\ Len(s) - (n + 1) + 1 = Len(s) - n
    BY <1>1
  <2>2. /\ rest \in Seq(Nat)
        /\ Len(rest) = IF n + 1 <= Len(s) THEN Len(s) - (n + 1) + 1 ELSE 0
        /\ \A k \in 1 .. Len(s) - (n + 1) + 1 : rest[k] = s[n + 1 + k - 1]
    BY <1>2, <2>1, SubSeqProperties
  <2> QED BY <1>1, <2>2
<1>4. \A k \in 1 .. Len(rest) : rest[k] = start + n + k
  BY <1>1, <1>3
<1> QED BY <1>3, <1>4 DEF Follows

-----------------------------------------------------------------------------
(* Reading a packet into the ring.                                         *)

\* The contiguous free block ends inside the storage and is free.
LEMMA FreeBlock ==
    ASSUME NEW r \in RingObject
    PROVE  /\ USBRingBufContigFree(r) \in 0 .. USBRingBufFree(r)
           /\ r.ulWriteIndex + USBRingBufContigFree(r) <= ulSize
BY SizeAssumption
   DEF RingObject, Index, USBRingBufContigFree, USBRingBufFree, USBRingBufUsed

\* A block of n bytes stored from slot w on: the slots it covers, seen from w.
LEMMA SlotOfBlock ==
    ASSUME NEW w \in Index, NEW j \in Index, NEW n \in Nat, w + n <= ulSize
    PROVE  /\ Distance(w, j) >= n => j \notin w .. (w + n - 1)
           /\ Distance(w, j) < n => j = w + Distance(w, j)
BY SizeAssumption DEF Index, Distance

\* The ring that is left when n bytes, for which there is room, were written.
LEMMA AdvancedWrite ==
    ASSUME NEW r \in RingObject, NEW n \in 0 .. USBRingBufFree(r)
    PROVE  LET a == IF n = 0 THEN r ELSE USBRingBufAdvanceWrite(r, n)
           IN  /\ a \in RingObject
               /\ a.ulReadIndex = r.ulReadIndex
               /\ USBRingBufUsed(a) = USBRingBufUsed(r) + n
<1> DEFINE a == IF n = 0 THEN r ELSE USBRingBufAdvanceWrite(r, n)
<1>1. /\ USBRingBufUsed(r) \in 0 .. (ulSize - 1)
      /\ USBRingBufFree(r) \in 0 .. (ulSize - 1)
      /\ USBRingBufUsed(r) + USBRingBufFree(r) = ulSize - 1
      /\ USBRingBufUsed(r) = Distance(r.ulReadIndex, r.ulWriteIndex)
      /\ r.ulReadIndex \in Index /\ r.ulWriteIndex \in Index
  BY UsedAndFree, UsedIsDistance DEF RingObject
<1>2. CASE n = 0
  BY <1>1, <1>2
<1>3. CASE n # 0
  <2>1. a = [ulWriteIndex |-> Wrap(r.ulWriteIndex + n), ulReadIndex |-> r.ulReadIndex]
    <3>1. ~(USBRingBufFree(r) < n)
      BY <1>1
    <3> QED BY <1>3, <3>1 DEF USBRingBufAdvanceWrite
  <2>2. /\ Wrap(r.ulWriteIndex + n) \in Index
        /\ Distance(r.ulReadIndex, Wrap(r.ulWriteIndex + n)) = USBRingBufUsed(r) + n
    <3>1. n \in Nat /\ Distance(r.ulReadIndex, r.ulWriteIndex) + n <= ulSize - 1
      BY <1>1, SizeAssumption
    <3> QED BY <1>1, <3>1, WritingGrows
  <2>3. a \in RingObject
    BY <2>1, <2>2, <1>1 DEF RingObject
  <2>4. USBRingBufUsed(a) = Distance(a.ulReadIndex, a.ulWriteIndex)
    BY <2>3, UsedIsDistance
  <2> QED BY <2>1, <2>2, <2>3, <2>4
<1> QED BY <1>2, <1>3

\* One pfnTransfer call takes bytes from the FIFO to the end of the ring.
LEMMA ReadIntoRingKeeps ==
    ASSUME NEW s, NEW gone, Intact(s.ring, s.buf, s.fifo, gone)
    PROVE  LET t == ReadIntoRing(s)
           IN  /\ Intact(t.ring, t.buf, t.fifo, gone)
               /\ USBRingBufUsed(t.ring) + Len(t.fifo)
                    = USBRingBufUsed(s.ring) + Len(s.fifo)
               /\ USBRingBufUsed(t.ring) >= USBRingBufUsed(s.ring)
<1> DEFINE r == s.ring
           w == r.ulWriteIndex
           u == USBRingBufUsed(r)
           n == Smaller(USBRingBufContigFree(r), Len(s.fifo))
           t == ReadIntoRing(s)
<1>1. /\ r \in RingObject /\ s.buf \in [Index -> Nat] /\ gone \in Nat
      /\ \A k \in 1 .. u : s.buf[Wrap(r.ulReadIndex + k - 1)] = gone + k
      /\ Follows(s.fifo, gone + u)
  BY DEF Intact
<1>2. /\ u \in 0 .. (ulSize - 1) /\ USBRingBufFree(r) \in 0 .. (ulSize - 1)
      /\ u + USBRingBufFree(r) = ulSize - 1
      /\ u = Distance(r.ulReadIndex, w)
      /\ r.ulReadIndex \in Index /\ w \in Index
  BY <1>1, UsedAndFree, UsedIsDistance DEF RingObject
<1>3. Len(s.fifo) \in Nat /\ s.fifo \in Seq(Nat)
      /\ \A k \in 1 .. Len(s.fifo) : s.fifo[k] = gone + u + k
  BY <1>1 DEF Follows
<1>4. n \in 0 .. USBRingBufFree(r) /\ n \in 0 .. Len(s.fifo) /\ w + n <= ulSize
  <2> DEFINE c == USBRingBufContigFree(r)
             f == USBRingBufFree(r)
  <2>1. c \in 0 .. f /\ w + c <= ulSize
    BY <1>1, FreeBlock
  <2>2. f \in Nat /\ w \in Nat /\ Len(s.fifo) \in Nat /\ ulSize \in Nat
    BY <1>2, <1>3, SizeAssumption DEF Index
  <2>3. n = Smaller(c, Len(s.fifo))
    OBVIOUS
  <2> HIDE DEF c, f, n, w
  <2>4. n \in 0 .. f /\ n \in 0 .. Len(s.fifo) /\ w + n <= ulSize
    BY <2>1, <2>2, <2>3 DEF Smaller
  <2> QED BY <2>4 DEF f
<1>5. /\ t.ring = IF n = 0 THEN r ELSE USBRingBufAdvanceWrite(r, n)
      /\ t.buf = [j \in Index |-> IF j \in w .. (w + n - 1) THEN s.fifo[j - w + 1]
                                  ELSE s.buf[j]]
      /\ t.fifo = SubSeq(s.fifo, n + 1, Len(s.fifo))
  BY DEF ReadIntoRing
<1>6. /\ t.ring \in RingObject /\ t.ring.ulReadIndex = r.ulReadIndex
      /\ USBRingBufUsed(t.ring) = u + n
  BY <1>1, <1>4, <1>5, AdvancedWrite
<1>7. Follows(t.fifo, gone + u + n) /\ Len(t.fifo) = Len(s.fifo) - n
  <2> DEFINE start == gone + u
  <2>1. start \in Nat /\ n \in 0 .. Len(s.fifo) /\ Follows(s.fifo, start)
    BY <1>1, <1>2, <1>4
  <2> HIDE DEF t, n, start
  <2>2. /\ Follows(SubSeq(s.fifo, n + 1, Len(s.fifo)), start + n)
        /\ Len(SubSeq(s.fifo, n + 1, Len(s.fifo))) = Len(s.fifo) - n
    BY <2>1, RestFollows
  <2> QED BY <1>5, <2>2 DEF start
<1> HIDE DEF t, n, u, w, r
<1>8. t.buf \in [Index -> Nat]
  <2>1. ASSUME NEW j \in Index, j \in w .. (w + n - 1) PROVE s.fifo[j - w + 1] \in Nat
    <3>1. j - w + 1 \in 1 .. Len(s.fifo)
      BY <1>2, <1>3, <1>4, <2>1, SizeAssumption DEF Index
    <3> QED BY <1>3, <3>1
  <2> QED BY <1>1, <1>5, <2>1
<1>9. ASSUME NEW k \in 1 .. (u + n)
      PROVE  t.buf[Wrap(r.ulReadIndex + k - 1)] = gone + k
  <2> DEFINE j == Wrap(r.ulReadIndex + k - 1)
  <2>1. u + n <= ulSize - 1 /\ n \in Nat
    BY <1>2, <1>4, SizeAssumption
  <2>2. /\ j \in Index
        /\ k <= u => Distance(w, j) >= n
        /\ k > u => Distance(w, j) = k - u - 1
    BY <1>2, <2>1, SlotOfByte
  <2>3. /\ Distance(w, j) >= n => j \notin w .. (w + n - 1)
        /\ Distance(w, j) < n => j = w + Distance(w, j)
    BY <1>2, <1>4, <2>1, <2>2, SlotOfBlock
  <2>4. t.buf[j] = IF j \in w .. (w + n - 1) THEN s.fifo[j - w + 1] ELSE s.buf[j]
    BY <1>5, <2>2
  <2> HIDE DEF j
  <2>5. CASE k <= u
    <3>1. k \in 1 .. u
      BY <1>2, <2>5
    <3> QED BY <1>1, <2>2, <2>3, <2>4, <2>5, <3>1 DEF j, u
  <2>6. CASE k > u
    <3>1. k - u \in 1 .. Len(s.fifo) /\ k - u - 1 < n
      BY <1>2, <1>3, <1>4, <2>6
    <3>2. j = w + (k - u - 1)
      BY <2>2, <2>3, <2>6, <3>1
    <3>3. j \in w .. (w + n - 1) /\ j - w + 1 = k - u
      <4>1. w \in Int /\ k - u \in Int /\ n \in Int /\ 1 <= k - u /\ k - u <= n
        BY <1>2, <1>4, <2>1, <3>1, SizeAssumption DEF Index
      <4> QED BY <3>2, <4>1
    <3>4. s.fifo[k - u] = gone + u + (k - u)
      BY <1>3, <3>1
    <3> QED BY <1>1, <1>2, <2>4, <3>3, <3>4 DEF j
  <2> QED BY <1>2, <2>5, <2>6
<1>10. Intact(t.ring, t.buf, t.fifo, gone)
  <2>1. gone + u + n = gone + USBRingBufUsed(t.ring)
    BY <1>1, <1>2, <1>4, <1>6
  <2>2. Follows(t.fifo, gone + USBRingBufUsed(t.ring))
    BY <1>7, <2>1
  <2> QED BY <1>1, <1>6, <1>8, <1>9, <2>2 DEF Intact
<1>11. USBRingBufUsed(t.ring) + Len(t.fifo) = u + Len(s.fifo)
  BY <1>2, <1>3, <1>4, <1>6, <1>7
<1>12. USBRingBufUsed(t.ring) >= u
  BY <1>2, <1>4, <1>6
<1> QED BY <1>10, <1>11, <1>12 DEF t, u, r

\* ... and so do the two calls of HandleRxAvailable.
LEMMA FillRingKeeps ==
    ASSUME NEW gone, Intact(ring, pucBuf, fifo, gone)
    PROVE  /\ Intact(FillRing.ring, FillRing.buf, FillRing.fifo, gone)
           /\ USBRingBufUsed(FillRing.ring) + Len(FillRing.fifo)
                = USBRingBufUsed(ring) + Len(fifo)
           /\ USBRingBufUsed(FillRing.ring) >= USBRingBufUsed(ring)
<1> DEFINE s0 == [ring |-> ring, buf |-> pucBuf, fifo |-> fifo]
           s1 == ReadIntoRing(s0)
           s2 == ReadIntoRing(s1)
           Kept(s) == /\ Intact(s.ring, s.buf, s.fifo, gone)
                      /\ USBRingBufUsed(s.ring) + Len(s.fifo)
                           = USBRingBufUsed(ring) + Len(fifo)
                      /\ USBRingBufUsed(s.ring) >= USBRingBufUsed(ring)
<1>1. Kept(s1)
  <2>1. Intact(s0.ring, s0.buf, s0.fifo, gone)
    OBVIOUS
  <2> HIDE DEF s1
  <2> QED BY <2>1, ReadIntoRingKeeps DEF s1
<1>2. Kept(s2)
  <2>1. Intact(s1.ring, s1.buf, s1.fifo, gone)
    BY <1>1
  <2>2. /\ Intact(s2.ring, s2.buf, s2.fifo, gone)
        /\ USBRingBufUsed(s2.ring) + Len(s2.fifo)
             = USBRingBufUsed(s1.ring) + Len(s1.fifo)
        /\ USBRingBufUsed(s2.ring) >= USBRingBufUsed(s1.ring)
    <3> HIDE DEF s1
    <3> QED BY <2>1, ReadIntoRingKeeps
  <2>3. /\ USBRingBufUsed(s1.ring) \in Int /\ USBRingBufUsed(s2.ring) \in Int
        /\ USBRingBufUsed(ring) \in Int
    <3> HIDE DEF s1, s2
    <3> QED BY <2>1, <2>2, UsedAndFree DEF Intact
  <2> HIDE DEF s1, s2
  <2> QED BY <1>1, <2>2, <2>3
<1>3. FillRing = IF s1.fifo # << >> THEN s2 ELSE s1
  BY DEF FillRing
<1> HIDE DEF s1, s2
<1>4. Kept(FillRing)
  BY <1>1, <1>2, <1>3
<1> QED BY <1>4

-----------------------------------------------------------------------------
(* Taking bytes out of the ring.                                           *)

\* The n oldest bytes follow what has left the ring, and the rest follows them.
LEMMA OldestFollow ==
    ASSUME NEW r, NEW buf, NEW bytes, NEW gone, Intact(r, buf, bytes, gone),
           NEW n \in 0 .. USBRingBufUsed(r)
    PROVE  LET a == USBRingBufAdvanceRead(r, n)
           IN  /\ Follows(Oldest(r, buf, n), gone) /\ Len(Oldest(r, buf, n)) = n
               /\ Intact(a, buf, bytes, gone + n)
               /\ USBRingBufUsed(a) = USBRingBufUsed(r) - n
<1> DEFINE i == r.ulReadIndex
           w == r.ulWriteIndex
           u == USBRingBufUsed(r)
           a == USBRingBufAdvanceRead(r, n)
           taken == Oldest(r, buf, n)
<1>1. /\ r \in RingObject /\ buf \in [Index -> Nat] /\ gone \in Nat
      /\ \A k \in 1 .. u : buf[Wrap(i + k - 1)] = gone + k
      /\ Follows(bytes, gone + u)
  BY DEF Intact
<1>2. /\ u \in 0 .. (ulSize - 1) /\ u = Distance(i, w) /\ i \in Index /\ w \in Index
      /\ n \in Nat /\ n <= u
  BY <1>1, UsedAndFree, UsedIsDistance DEF RingObject
<1>3. Follows(taken, gone) /\ Len(taken) = n
  <2>1. taken = [k \in 1 .. n |-> buf[Wrap(i + k - 1)]]
    BY DEF Oldest
  <2>2. ASSUME NEW k \in 1 .. n
        PROVE  buf[Wrap(i + k - 1)] = gone + k /\ gone + k \in Nat
    <3> HIDE DEF i, u
    <3>1. k \in 1 .. u
      BY <1>2
    <3> QED BY <1>1, <3>1
  <2> HIDE DEF taken
  <2>3. taken \in [1 .. n -> Nat]
    BY <2>1, <2>2
  <2>4. taken \in Seq(Nat) /\ Len(taken) = n
    BY <1>2, <2>3
  <2> QED BY <2>1, <2>2, <2>4 DEF Follows
<1>4. /\ Wrap(i + n) \in Index
      /\ Distance(Wrap(i + n), w) = u - n
      /\ \A k \in 1 .. (u - n) : Wrap(Wrap(i + n) + k - 1) = Wrap(i + (n + k) - 1)
  BY <1>2, ReadingShrinks
<1>5. a = [r EXCEPT !.ulReadIndex = Wrap(i + n)]
  <2>1. Smaller(u, n) = n
    BY <1>2 DEF Smaller
  <2> QED BY <2>1 DEF USBRingBufAdvanceRead, UpdateIndex
<1>6. /\ a \in RingObject /\ a.ulReadIndex = Wrap(i + n) /\ a.ulWriteIndex = w
      /\ USBRingBufUsed(a) = u - n
  <2>1. a \in RingObject /\ a.ulReadIndex = Wrap(i + n) /\ a.ulWriteIndex = w
    BY <1>1, <1>4, <1>5 DEF RingObject
  <2> QED BY <2>1, <1>4, UsedIsDistance
<1> HIDE DEF a, u, i, w
<1>7. ASSUME NEW k \in 1 .. (u - n)
      PROVE  buf[Wrap(a.ulReadIndex + k - 1)] = gone + n + k
  <2>1. n + k \in 1 .. u
    BY <1>2
  <2>2. buf[Wrap(i + (n + k) - 1)] = gone + (n + k)
    BY <1>1, <2>1
  <2> QED BY <1>1, <1>2, <1>4, <1>6, <2>2
<1>8. Intact(a, buf, bytes, gone + n)
  <2>1. gone + u = gone + n + USBRingBufUsed(a) /\ gone + n \in Nat
    BY <1>1, <1>2, <1>6
  <2>2. Follows(bytes, gone + n + USBRingBufUsed(a))
    BY <1>1, <2>1
  <2> QED BY <1>1, <1>6, <1>7, <2>1, <2>2 DEF Intact
<1> QED BY <1>3, <1>6, <1>8 DEF a, u

-----------------------------------------------------------------------------
(* Every step keeps the invariant.                                         *)

\* An index inside the storage is settled.
LEMMA SettledIsRing ==
    ASSUME NEW r \in RingObject
    PROVE  Settled(r) = r
BY SizeAssumption DEF Settled, RingObject, Index, Wrap

\* A well-formed ring object has the type that TypeOK asks for.
LEMMA RingObjectType ==
    ASSUME NEW r \in RingObject
    PROVE  r \in [ulReadIndex : 0 .. (Word - 1), ulWriteIndex : Index]
BY SizeAssumption, WordAssumption DEF RingObject, Index

\* The program starts with nothing sent and nothing held.
LEMMA InitInv == Init => Inv
<1> SUFFICES ASSUME Init PROVE Inv
  OBVIOUS
<1>1. ring \in RingObject /\ Settled(ring) = ring /\ USBRingBufUsed(ring) = 0
  <2>1. ring \in RingObject
    BY SizeAssumption DEF Init, USBRingBufInit, RingObject, Index
  <2> QED BY <2>1, SettledIsRing DEF Init, USBRingBufInit, USBRingBufUsed
<1>2. << >> \in Seq(Nat) /\ Len(<< >>) = 0
  OBVIOUS
<1>3. Follows(<< >>, 0)
  BY <1>2 DEF Follows
<1>4. TypeOK
  <2>1. ring \in [ulReadIndex : 0 .. (Word - 1), ulWriteIndex : Index]
    BY <1>1, RingObjectType
  <2>2. pucBuf \in [Index -> Nat]
    BY DEF Init
  <2>3. sent \in 0 .. MaxBytes
    BY BoundsAssumption DEF Init
  <2> QED BY <1>2, <2>1, <2>2, <2>3 DEF Init, TypeOK, ClientSteps
<1>5. Gone = 0 /\ Held = 0
  BY <1>1, <1>2 DEF Init, Gone, Held
<1>6. Intact(Settled(ring), pucBuf, fifo, Gone)
  BY <1>1, <1>3, <1>4, <1>5 DEF Init, Intact, TypeOK
<1> QED
  BY <1>1, <1>2, <1>3, <1>4, <1>5, <1>6
     DEF Init, Inv, RingOK, IndexOK, CallOK, EndpointOK

\* USB_EVENT_RX_AVAILABLE, taken at a step of the client that leaves the indices
\* whole, passes bytes on from the FIFO to the ring and from the ring to the client.
LEMMA SignalKeepsInv ==
    ASSUME Inv, pc \in {"idle", "load", "add"}, SignalRxAvailable, rxIntr' \in BOOLEAN,
           UNCHANGED <<sent, pc, ulLength>>
    PROVE  Inv'
<1> DEFINE f == FillRing
           g == Gone
<1>1. /\ ring \in RingObject /\ Settled(ring) = ring
      /\ Intact(ring, pucBuf, fifo, g) /\ g + USBRingBufUsed(ring) + Len(fifo) = sent
  BY SettledIsRing DEF Inv, IndexOK, RingOK, Held
<1>2. /\ Intact(f.ring, f.buf, f.fifo, g)
      /\ USBRingBufUsed(f.ring) + Len(f.fifo) = USBRingBufUsed(ring) + Len(fifo)
      /\ USBRingBufUsed(f.ring) >= USBRingBufUsed(ring)
  BY <1>1, FillRingKeeps
<1>3. /\ fifo' = f.fifo /\ rxrdy' = (f.fifo # << >>) /\ pucBuf' = f.buf
      /\ doPacketRx' = (f.fifo # << >>)
      /\ \E n \in TakenInPlace(f.ring) :
             /\ consumed' = consumed \o Oldest(f.ring, f.buf, n)
             /\ ring' = USBRingBufAdvanceRead(f.ring, n)
  BY DEF SignalRxAvailable
<1>4. PICK n \in TakenInPlace(f.ring) :
          /\ consumed' = consumed \o Oldest(f.ring, f.buf, n)
          /\ ring' = USBRingBufAdvanceRead(f.ring, n)
  BY <1>3
<1> HIDE DEF f, g
<1>5. /\ f.ring \in RingObject /\ USBRingBufUsed(f.ring) \in Nat
      /\ USBRingBufUsed(ring) \in Nat /\ g \in Nat
      /\ f.fifo \in Seq(Nat) /\ Len(f.fifo) \in Nat /\ Len(fifo) \in Nat
  BY <1>1, <1>2, UsedAndFree DEF Intact, Follows
<1>6. n \in 0 .. USBRingBufUsed(f.ring) /\ (pc # "idle" => n = 0)
  BY <1>5 DEF TakenInPlace
<1>7. /\ Follows(Oldest(f.ring, f.buf, n), g) /\ Len(Oldest(f.ring, f.buf, n)) = n
      /\ Intact(ring', pucBuf', fifo', g + n)
      /\ USBRingBufUsed(ring') = USBRingBufUsed(f.ring) - n
  BY <1>2, <1>3, <1>4, <1>6, OldestFollow
<1>8. ring' \in RingObject /\ Settled(ring') = ring'
  BY <1>7, SettledIsRing DEF Intact
<1>9. /\ Follows(consumed', 0) /\ Len(consumed') = Len(consumed) + n
  <2>1. Follows(consumed, 0) /\ consumed \in Seq(Nat) /\ Len(consumed) \in Nat
    BY DEF Inv, Follows
  <2>2. CASE pc = "idle"
    <3>1. g = 0 + Len(consumed)
      BY <2>1, <2>2 DEF g, Gone
    <3> QED BY <1>4, <1>7, <2>1, <3>1, ConcatFollows
  <2>3. CASE pc # "idle"
    <3>1. n = 0
      BY <1>6, <2>3
    <3>2. Oldest(f.ring, f.buf, n) = << >>
      BY <1>7, <3>1 DEF Follows
    <3>3. consumed' = consumed
      BY <1>4, <2>1, <3>2
    <3> QED BY <2>1, <3>1, <3>3
  <2> QED BY <2>2, <2>3
<1>10. Gone' = g + n
  <2>1. consumed \in Seq(Nat) /\ Len(consumed) \in Nat
    BY DEF Inv, Follows
  <2> QED BY <1>6, <1>9, <2>1 DEF g, Gone
<1>11. Held' = USBRingBufUsed(f.ring) - n
  BY <1>7, <1>8 DEF Held
<1>12. RingOK'
  <2>1. Gone' + Held' + Len(fifo') = sent'
    <3>1. n \in Int /\ Gone' + Held' = g + USBRingBufUsed(f.ring)
      BY <1>5, <1>6, <1>10, <1>11
    <3>2. g + USBRingBufUsed(f.ring) + Len(f.fifo) = sent
      <4>1. USBRingBufUsed(f.ring) + Len(f.fifo) = USBRingBufUsed(ring) + Len(fifo)
        BY <1>2
      <4>2. g + USBRingBufUsed(ring) + Len(fifo) = sent
        BY <1>1
      <4> DEFINE a == USBRingBufUsed(f.ring)
                 b == Len(f.fifo)
                 c == USBRingBufUsed(ring)
                 d == Len(fifo)
      <4>3. a \in Nat /\ b \in Nat /\ c \in Nat /\ d \in Nat /\ g \in Nat
        BY <1>5
      <4>4. a + b = c + d /\ g + c + d = sent
        BY <4>1, <4>2
      <4> HIDE DEF a, b, c, d
      <4>5. g + a + b = sent
        BY <4>3, <4>4
      <4> QED BY <4>5 DEF a, b
    <3> QED BY <1>3, <3>1, <3>2
  <2> QED BY <1>7, <1>8, <1>10, <2>1 DEF RingOK
<1>13. CallOK'
  <2>1. pc \in {"load", "add"} => ulLength \in 1 .. USBRingBufUsed(ring)
    BY <1>1 DEF Inv, CallOK, Held
  <2> QED BY <1>2, <1>5, <1>6, <1>11, <2>1 DEF CallOK
<1>14. EndpointOK'
  BY <1>3 DEF EndpointOK
<1>15. TypeOK'
  <2>1. consumed' \in Seq(Nat) /\ pucBuf' \in [Index -> Nat]
    BY <1>7, <1>9 DEF Follows, Intact
  <2> QED BY <1>3, <1>5, <1>8, <2>1, RingObjectType DEF TypeOK, Inv
<1> QED BY <1>8, <1>9, <1>12, <1>13, <1>14, <1>15 DEF Inv, IndexOK

\* An acknowledged packet makes room for the next one, whose bytes come after all
\* that were sent before.
LEMMA HostKeepsInv ==
    ASSUME Inv, HostSends
    PROVE  Inv'
<1>1. PICK n \in 0 .. MaxPacket :
          /\ sent + n <= MaxBytes
          /\ fifo' = [k \in 1 .. n |-> sent + k]
          /\ sent' = sent + n
  BY DEF HostSends
<1>2. /\ n \in Nat /\ sent \in Nat /\ sent' \in 0 .. MaxBytes
  BY <1>1, PacketAssumption, BoundsAssumption DEF Inv, TypeOK
<1>3. Follows(fifo', sent) /\ Len(fifo') = n
  <2>1. fifo' \in [1 .. n -> Nat]
    BY <1>1, <1>2
  <2>2. fifo' \in Seq(Nat) /\ Len(fifo') = n
    BY <1>2, <2>1
  <2> QED BY <1>1, <2>2 DEF Follows
<1>4. Gone + Held = sent /\ Gone \in Nat /\ Held \in Nat
  <2>1. Gone \in Nat /\ Held \in Nat
    BY UsedAndFree DEF Inv, RingOK, Intact, Held
  <2> QED BY <2>1 DEF Inv, RingOK, EndpointOK, HostSends
<1>5. Gone' = Gone /\ Held' = Held /\ Settled(ring)' = Settled(ring)
  BY DEF HostSends, Gone, Held, Settled
<1>6. RingOK'
  <2>1. Intact(Settled(ring)', pucBuf', fifo', Gone')
    BY <1>3, <1>4, <1>5 DEF HostSends, Inv, RingOK, Intact, Held
  <2> QED BY <1>1, <1>2, <1>3, <1>4, <1>5, <2>1 DEF RingOK
<1>7. TypeOK' /\ IndexOK' /\ CallOK' /\ EndpointOK' /\ Follows(consumed, 0)'
  <2>1. fifo' \in Seq(Nat)
    BY <1>3 DEF Follows
  <2> QED
    BY <1>2, <1>5, <2>1 DEF HostSends, Inv, TypeOK, IndexOK, CallOK, EndpointOK
<1> QED BY <1>6, <1>7 DEF Inv

\* A byte is loaded from the slot that holds the oldest one.
LEMMA LoadKeepsInv ==
    ASSUME Inv, LoadByte
    PROVE  Inv'
<1> DEFINE c == consumed
           v == pucBuf[ring.ulReadIndex]
<1>1. /\ ring \in RingObject /\ Settled(ring) = ring /\ Held = USBRingBufUsed(ring)
      /\ Gone = Len(c) /\ c \in Seq(Nat) /\ Len(c) \in Nat
      /\ \A k \in 1 .. Len(c) : c[k] = k
      /\ ulLength \in 1 .. Held /\ Held \in Nat
  <2>1. ring \in RingObject /\ Settled(ring) = ring
    BY SettledIsRing DEF LoadByte, Inv, IndexOK
  <2>2. Held \in Nat /\ Held = USBRingBufUsed(ring)
    BY <2>1, UsedAndFree DEF Held
  <2> QED BY <2>1, <2>2 DEF LoadByte, Inv, CallOK, Gone, Follows
<1>2. v = Len(c) + 1
  <2>1. Wrap(ring.ulReadIndex + 1 - 1) = ring.ulReadIndex
    BY <1>1, SizeAssumption DEF RingObject, Index, Wrap
  <2>2. 1 \in 1 .. USBRingBufUsed(ring)
    BY <1>1
  <2>3. pucBuf[Wrap(ring.ulReadIndex + 1 - 1)] = Len(c) + 1
    BY <1>1, <2>2 DEF Inv, RingOK, Intact
  <2> QED BY <2>1, <2>3
<1> HIDE DEF v
<1>3. Follows(consumed', 0) /\ Len(consumed') = Len(c) + 1
  <2>1. consumed' = Append(c, v)
    BY DEF LoadByte, v
  <2>2. /\ consumed' \in Seq(Nat) /\ Len(consumed') = Len(c) + 1
        /\ \A i \in 1 .. Len(c) : consumed'[i] = c[i]
        /\ consumed'[Len(c) + 1] = v
    BY <1>1, <1>2, <2>1, AppendProperties
  <2> HIDE DEF c
  <2>3. ASSUME NEW k \in 1 .. Len(c) + 1 PROVE consumed'[k] = 0 + k
    <3>1. CASE k \in 1 .. Len(c)
      BY <1>1, <2>2, <3>1
    <3>2. CASE k = Len(c) + 1
      BY <1>1, <1>2, <2>2, <3>2
    <3> QED BY <1>1, <3>1, <3>2
  <2> QED BY <2>2, <2>3 DEF Follows
<1>4. Gone' = Gone /\ Held' = Held /\ Settled(ring)' = Settled(ring)
  BY <1>1, <1>3 DEF LoadByte, Gone, Held, Settled
<1>5. RingOK' /\ IndexOK' /\ CallOK' /\ EndpointOK'
  BY <1>4 DEF LoadByte, Inv, RingOK, IndexOK, CallOK, EndpointOK, hwVars
<1>6. TypeOK'
  BY <1>3 DEF LoadByte, Inv, TypeOK, hwVars, Follows, ClientSteps
<1> QED BY <1>3, <1>5, <1>6 DEF Inv

\* With the index moved on, the ring has lost the byte the client has.
LEMMA AddKeepsInv ==
    ASSUME Inv, AddToIndex
    PROVE  Inv'
<1> DEFINE i == ring.ulReadIndex
<1>1. /\ ring \in RingObject /\ Settled(ring) = ring /\ Held = USBRingBufUsed(ring)
      /\ Intact(ring, pucBuf, fifo, Gone)
      /\ Gone = Len(consumed) - 1 /\ Len(consumed) \in Nat
      /\ ulLength \in 1 .. Held /\ Held \in Nat
  <2>1. ring \in RingObject /\ Settled(ring) = ring
    BY SettledIsRing DEF AddToIndex, Inv, IndexOK
  <2>2. Held \in Nat /\ Held = USBRingBufUsed(ring)
    BY <2>1, UsedAndFree DEF Held
  <2> QED BY <2>1, <2>2 DEF AddToIndex, Inv, CallOK, Gone, Follows, RingOK
<1>2. i \in 0 .. (ulSize - 1) /\ ring.ulWriteIndex \in Index
  BY <1>1 DEF RingObject, Index
<1>3. /\ ring' \in [ulReadIndex : 0 .. (Word - 1), ulWriteIndex : Index]
      /\ ring'.ulReadIndex = i + 1 /\ ring'.ulWriteIndex = ring.ulWriteIndex
  BY <1>1, <1>2, SizeAssumption, WordAssumption DEF AddToIndex, RingObject
<1>4. Settled(ring') = USBRingBufAdvanceRead(ring, 1)
  <2>1. Smaller(USBRingBufUsed(ring), 1) = 1
    BY <1>1 DEF Smaller
  <2>2. USBRingBufAdvanceRead(ring, 1)
          = [ulReadIndex |-> Wrap(i + 1), ulWriteIndex |-> ring.ulWriteIndex]
    BY <1>1, <2>1 DEF USBRingBufAdvanceRead, UpdateIndex, RingObject
  <2> QED BY <1>3, <2>2 DEF Settled
<1>5. Gone' = Gone + 1
  BY <1>1 DEF AddToIndex, Gone
<1>6. /\ Intact(Settled(ring'), pucBuf, fifo, Gone + 1)
      /\ USBRingBufUsed(Settled(ring')) = Held - 1
  <2>1. 1 \in 0 .. USBRingBufUsed(ring)
    BY <1>1
  <2> QED BY <1>1, <1>4, <2>1, OldestFollow
<1>7. Held' = Held - 1
  BY <1>6 DEF Held
<1>8. RingOK'
  <2>1. Gone \in Nat /\ Len(fifo) \in Nat /\ Gone + Held + Len(fifo) = sent
    BY <1>1 DEF Inv, RingOK, Intact, Follows
  <2>2. Gone' + Held' + Len(fifo) = sent
    <3>1. Gone' + Held' = Gone + Held
      <4>1. Held \in Nat
        BY <1>1
      <4> HIDE DEF Held, Gone
      <4> QED BY <1>5, <1>7, <2>1, <4>1
    <3> QED BY <2>1, <3>1
  <2> QED BY <1>5, <1>6, <2>2 DEF AddToIndex, RingOK, hwVars
<1>9. IndexOK' /\ CallOK' /\ EndpointOK'
  <2>1. ring'.ulReadIndex \in 1 .. ulSize
    BY <1>2, <1>3, SizeAssumption
  <2>2. pc' = "test" /\ ulLength' \in 1 .. (Held' + 1)
    BY <1>1, <1>7 DEF AddToIndex
  <2> QED BY <2>1, <2>2 DEF AddToIndex, Inv, IndexOK, CallOK, EndpointOK, hwVars
<1>10. TypeOK' /\ Follows(consumed, 0)'
  BY <1>3 DEF AddToIndex, Inv, TypeOK, hwVars, ClientSteps
<1> QED BY <1>8, <1>9, <1>10 DEF Inv

\* The call goes on to the next byte, or is over, when the index is whole again.
LEMMA DoneKeepsInv ==
    ASSUME Inv, pc \in {"test", "subtract"}, ByteDone,
           ring' \in RingObject, Settled(ring') = Settled(ring),
           UNCHANGED <<hwVars, pucBuf, consumed>>
    PROVE  Inv'
<1>1. /\ ulLength \in 1 .. (Held + 1) /\ Held \in Nat
      /\ ulLength' = ulLength - 1 /\ pc' = IF ulLength' = 0 THEN "idle" ELSE "load"
  BY UsedAndFree DEF Inv, CallOK, ByteDone, RingOK, Intact, Held
<1>2. Gone' = Gone /\ Held' = Held
  BY <1>1 DEF Gone, Held
<1>3. RingOK' /\ IndexOK' /\ EndpointOK'
  BY <1>1, <1>2 DEF Inv, RingOK, IndexOK, EndpointOK, hwVars
<1>4. CallOK'
  BY <1>1, <1>2 DEF CallOK
<1>5. TypeOK' /\ Follows(consumed, 0)'
  BY <1>1, RingObjectType DEF Inv, TypeOK, hwVars, ClientSteps
<1> QED BY <1>3, <1>4, <1>5 DEF Inv

\* An index past the storage by at most one slot is put right by one subtraction.
LEMMA WrapKeepsInv ==
    ASSUME Inv, TestForWrap \/ CorrectForWrap
    PROVE  Inv'
<1>1. /\ ring \in [ulReadIndex : 0 .. (Word - 1), ulWriteIndex : Index]
      /\ ulSize \in Nat \ {0}
  BY SizeAssumption DEF Inv, TypeOK
<1>2. CASE TestForWrap /\ ring.ulReadIndex >= ulSize
  <2>1. pc = "test" /\ ring.ulReadIndex = ulSize /\ pc' = "subtract"
    BY <1>1, <1>2 DEF TestForWrap, Inv, IndexOK
  <2>2. UNCHANGED <<hwVars, ring, pucBuf, consumed, ulLength>>
    BY <1>2 DEF TestForWrap
  <2>3. Gone' = Gone /\ Held' = Held
    BY <2>1, <2>2 DEF Gone, Held
  <2> QED
    BY <2>1, <2>2, <2>3
       DEF Inv, TypeOK, RingOK, IndexOK, CallOK, EndpointOK, hwVars, ClientSteps
<1>3. CASE TestForWrap /\ ~(ring.ulReadIndex >= ulSize)
  <2>1. /\ pc = "test" /\ ByteDone /\ ring' = ring
        /\ UNCHANGED <<hwVars, pucBuf, consumed>>
    BY <1>3 DEF TestForWrap
  <2>2. ring' \in RingObject
    <3>1. ring.ulReadIndex \in Index
      BY <1>1, <1>3 DEF Index
    <3> QED BY <1>1, <2>1, <3>1 DEF RingObject
  <2> QED BY <2>1, <2>2, DoneKeepsInv
<1>4. CASE CorrectForWrap
  <2>1. /\ pc = "subtract" /\ ByteDone /\ UNCHANGED <<hwVars, pucBuf, consumed>>
        /\ ring' = [ring EXCEPT !.ulReadIndex = (@ - ulSize) % Word]
    BY <1>4 DEF CorrectForWrap
  <2>2. ring.ulReadIndex = ulSize
    BY <2>1 DEF Inv, IndexOK
  <2>3. (ulSize - ulSize) % Word = 0
    <3>1. Word \in Nat /\ Word > 0
      BY <1>1, WordAssumption
    <3> QED BY <1>1, <3>1
  <2>4. ring' = [ulReadIndex |-> 0, ulWriteIndex |-> ring.ulWriteIndex]
    BY <1>1, <2>1, <2>2, <2>3
  <2>5. ring' \in RingObject /\ Settled(ring') = Settled(ring)
    BY <1>1, <2>2, <2>4 DEF RingObject, Index, Settled, Wrap
  <2> QED BY <2>1, <2>5, DoneKeepsInv
<1> QED BY <1>2, <1>3, <1>4

\* No step breaks the invariant if an interrupt finds the read index whole.
LEMMA NextInv ==
    ASSUME "test" \notin PreemptAt, "subtract" \notin PreemptAt
    PROVE  Inv /\ [Next]_vars => Inv'
<1> SUFFICES ASSUME Inv, [Next]_vars PROVE Inv'
  OBVIOUS
<1>0. Interruptible => pc \in {"idle", "load", "add"}
  BY DEF Interruptible, Inv, TypeOK, ClientSteps
<1>1. CASE HostSends
  BY <1>1, HostKeepsInv
<1>2. CASE ProcessDataFromHost
  <2>1. CASE rxrdy
    BY <1>0, <1>2, <2>1, SignalKeepsInv DEF ProcessDataFromHost
  <2>2. CASE ~rxrdy
    <3>1. Gone' = Gone /\ Held' = Held
      BY <1>2, <2>2 DEF ProcessDataFromHost, Gone, Held
    <3> QED
      BY <1>2, <2>2, <3>1
         DEF ProcessDataFromHost, Inv, TypeOK, RingOK, IndexOK, CallOK, EndpointOK
  <2> QED BY <2>1, <2>2
<1>3. CASE Tick
  BY <1>0, <1>3, SignalKeepsInv DEF Tick, Inv, TypeOK
<1>4. CASE ClientRead
  <2>1. PICK n \in 1 .. MaxRead : USBBufferRead(n)
    BY <1>4 DEF ClientRead
  <2>2. Gone' = Gone /\ Held' = Held
    BY <2>1 DEF USBBufferRead, Gone, Held
  <2>3. ulLength' \in 1 .. Held
    <3>1. ring \in RingObject /\ Settled(ring) = ring /\ Held \in Nat
      BY <2>1, SettledIsRing, UsedAndFree DEF USBBufferRead, Inv, IndexOK, Held
    <3>2. n \in Nat /\ n > 0
      BY BoundsAssumption
    <3> QED BY <2>1, <3>1, <3>2 DEF USBBufferRead, Held, Smaller
  <2>4. RingOK' /\ IndexOK' /\ CallOK' /\ EndpointOK'
    BY <2>1, <2>2, <2>3
       DEF USBBufferRead, Inv, RingOK, IndexOK, CallOK, EndpointOK, hwVars
  <2>5. TypeOK' /\ Follows(consumed, 0)'
    <3>1. Held \in Nat
      BY UsedAndFree DEF Inv, RingOK, Intact, Held
    <3> QED BY <2>1, <2>3, <3>1 DEF USBBufferRead, Inv, TypeOK, hwVars, ClientSteps
  <2> QED BY <2>4, <2>5 DEF Inv
<1>5. CASE ClientStep
  BY <1>5, LoadKeepsInv, AddKeepsInv, WrapKeepsInv DEF ClientStep
<1>6. CASE UNCHANGED vars
  BY <1>6
     DEF vars, Inv, TypeOK, RingOK, IndexOK, CallOK, EndpointOK, Gone, Held, Settled
<1> QED BY <1>1, <1>2, <1>3, <1>4, <1>5, <1>6 DEF Next

\* The invariant holds of every client whose index updates are not cut in two.
THEOREM InvariantHolds ==
    ASSUME "test" \notin PreemptAt, "subtract" \notin PreemptAt
    PROVE  Spec => []Inv
<1>1. Init => Inv
  BY InitInv
<1>2. Inv /\ [Next]_vars => Inv'
  BY NextInv
<1> QED BY <1>1, <1>2, PTL DEF Spec

\* Type correctness: the write index stays inside the storage, and the read index keeps
\* its width even while it is past the end and waits for its correction, whatever packet
\* arrives at whatever step.
THEOREM TypeCorrect ==
    ASSUME "test" \notin PreemptAt, "subtract" \notin PreemptAt
    PROVE  Spec => []TypeOK
<1>1. Inv => TypeOK
  BY DEF Inv
<1> QED BY <1>1, InvariantHolds, PTL

\* The client gets the host's bytes, each once and in order, and none is missing
\* between two calls: for every ring and packet size, whichever blocks of the ring a
\* packet is split over and at whichever step of the client it arrives.
THEOREM StreamCorrect ==
    ASSUME "test" \notin PreemptAt, "subtract" \notin PreemptAt
    PROVE  Spec => []StreamIntact
<1>1. Inv => StreamIntact
  <2> SUFFICES ASSUME Inv PROVE StreamIntact
    OBVIOUS
  <2>1. \A i \in 1 .. Len(consumed) : consumed[i] = i
    BY DEF Inv, Follows
  <2>2. pc = "idle" => Len(consumed) + USBRingBufUsed(ring) + Len(fifo) = sent
    BY SettledIsRing DEF Inv, IndexOK, RingOK, Held, Gone
  <2> QED BY <2>1, <2>2 DEF StreamIntact
<1> QED BY <1>1, InvariantHolds, PTL

-----------------------------------------------------------------------------
(* The deferred flag needs no assumption about the client: reading and     *)
(* flagging are one handler.                                               *)

\* A packet that could not be read whole is flagged, however the client's calls
\* and the interrupt interleave, in the middle of an index update too.
THEOREM UnreadIsFlagged == Spec => []UnreadPacketIsFlagged
<1>1. Init => UnreadPacketIsFlagged
  BY DEF Init, UnreadPacketIsFlagged
<1>2. UnreadPacketIsFlagged /\ [Next]_vars => UnreadPacketIsFlagged'
  <2> SUFFICES ASSUME UnreadPacketIsFlagged, [Next]_vars PROVE UnreadPacketIsFlagged'
    OBVIOUS
  <2> USE DEF UnreadPacketIsFlagged
  <2>1. SignalRxAvailable => (rxrdy' => doPacketRx')
    BY DEF SignalRxAvailable
  <2>2. CASE HostSends
    BY <2>2 DEF HostSends
  <2>3. CASE ProcessDataFromHost
    BY <2>1, <2>3 DEF ProcessDataFromHost
  <2>4. CASE Tick
    BY <2>1, <2>4 DEF Tick
  <2>5. CASE ClientRead
    BY <2>5 DEF ClientRead, USBBufferRead, hwVars
  <2>6. CASE ClientStep
    BY <2>6
       DEF ClientStep, LoadByte, AddToIndex, TestForWrap, CorrectForWrap, hwVars
  <2>7. CASE UNCHANGED vars
    BY <2>7 DEF vars
  <2> QED BY <2>2, <2>3, <2>4, <2>5, <2>6, <2>7 DEF Next
<1> QED BY <1>1, <1>2, PTL DEF Spec
=============================================================================
