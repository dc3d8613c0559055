-------------------------- MODULE USBRingBufProofs --------------------------
(***************************************************************************)
(* Theorems about usblib/usbringbuf.c for every ring size and every set of *)
(* byte values: the type invariant, the two safety invariants and the      *)
(* refinement that MCUSBRingBuf.cfg checks.                                *)
(***************************************************************************)
EXTENDS USBRingBuf, USBRingBufOpsProofs, SequenceTheorems, TLAPS

-----------------------------------------------------------------------------
\* The storage keeps its type whatever is stored.
LEMMA StoredKeepsType ==
    ASSUME pucBuf \in [Index -> Bytes], NEW n \in Nat, NEW s \in [1 .. n -> Bytes],
           NEW i \in Index
    PROVE  Stored(i, s) \in [Index -> Bytes]
BY SizeAssumption DEF Stored, Distance, Index

\* Type correctness: both indices stay inside the storage, in every state the
\* calls of usbringbuf.c can reach.
THEOREM TypeCorrect == Spec => []TypeOK
<1>1. Init => TypeOK
  BY SizeAssumption DEF Init, TypeOK, USBRingBufInit, RingObject, Index
<1>2. TypeOK /\ [Next]_vars => TypeOK'
  <2> SUFFICES ASSUME TypeOK, [Next]_vars PROVE TypeOK'
    OBVIOUS
  <2> USE DEF TypeOK
  <2>1. ASSUME NEW n \in 1 .. ulSize, NEW s \in [1 .. n -> Bytes],
               USBRingBufWrite(s)
        PROVE  TypeOK'
    <3>1. UpdateIndex(ring.ulWriteIndex, Len(s)) \in Index
      BY UpdateIndexIsIndex, SizeAssumption DEF RingObject
    <3> QED BY <2>1, <3>1, StoredKeepsType DEF USBRingBufWrite, RingObject
  <2>2. ASSUME NEW n \in 1 .. ulSize, NEW s \in [1 .. n -> Bytes],
               AdvanceWrite(s)
        PROVE  TypeOK'
    <3>1. Len(s) \in 0 .. ulSize
      BY SizeAssumption
    <3> QED
      BY <2>2, <3>1, StoredKeepsType, AdvanceWriteKeepsRing
      DEF AdvanceWrite, RingObject
  <2>3. ASSUME NEW n \in 1 .. ulSize, USBRingBufRead(n)
        PROVE  TypeOK'
    <3>1. UpdateIndex(ring.ulReadIndex, n) \in Index
      BY UpdateIndexIsIndex, SizeAssumption DEF RingObject
    <3> QED BY <2>3, <3>1 DEF USBRingBufRead, RingObject
  <2>4. ASSUME NEW n \in 1 .. ulSize, AdvanceRead(n)
        PROVE  TypeOK'
    BY <2>4, AdvanceReadKeepsRing, SizeAssumption DEF AdvanceRead
  <2>5. CASE Flush
    BY <2>5 DEF Flush, USBRingBufFlush, RingObject
  <2>6. CASE UNCHANGED vars
    BY <2>6 DEF vars
  <2> QED BY <2>1, <2>2, <2>3, <2>4, <2>5, <2>6 DEF Next
<1> QED BY <1>1, <1>2, PTL DEF Spec

\* The blocks that usbbuffer.c sends from and receives into never cross the end
\* of the storage and never exceed what is used or free, for every ring size.
THEOREM BlocksSafe == Spec => []BlocksAreSafe
<1>1. TypeOK => BlocksAreSafe
  BY SizeAssumption
  DEF TypeOK, BlocksAreSafe, RingObject, Index, USBRingBufUsed, USBRingBufFree,
      USBRingBufContigUsed, USBRingBufContigFree
<1> QED BY <1>1, TypeCorrect, PTL

\* The two tests for a full and an empty ring agree with the byte counts.
THEOREM FullAndEmpty == Spec => []FullAndEmptyAgree
<1>1. ASSUME TypeOK
      PROVE  USBRingBufFull(ring) <=> USBRingBufFree(ring) = 0
  <2> DEFINE w == ring.ulWriteIndex
             r == ring.ulReadIndex
  <2>1. w \in Index /\ r \in Index
    BY <1>1 DEF TypeOK, RingObject
  <2>2. (w + 1) % ulSize = IF w + 1 = ulSize THEN 0 ELSE w + 1
    BY <2>1, NextSlot
  <2> HIDE DEF w, r
  <2>3. (w + 1) % ulSize = r
          <=> (ulSize - 1) - (IF w >= r THEN w - r ELSE ulSize - (r - w)) = 0
    BY <2>1, <2>2, SizeAssumption DEF Index
  <2> QED BY <2>3 DEF w, r, USBRingBufFull, USBRingBufFree, USBRingBufUsed
<1>2. TypeOK => (USBRingBufEmpty(ring) <=> USBRingBufUsed(ring) = 0)
  BY SizeAssumption
  DEF TypeOK, RingObject, Index, USBRingBufUsed, USBRingBufEmpty
<1>3. TypeOK => FullAndEmptyAgree
  BY <1>1, <1>2 DEF FullAndEmptyAgree
<1> QED BY <1>3, TypeCorrect, PTL

-----------------------------------------------------------------------------
(* The indices and the storage implement the bounded stream.               *)

\* What the ring holds, slot by slot.
LEMMA ContentsElements ==
    ASSUME TypeOK
    PROVE  /\ Contents \in Seq(Bytes)
           /\ Len(Contents) = USBRingBufUsed(ring)
           /\ \A k \in 1 .. USBRingBufUsed(ring) :
                  Contents[k] = pucBuf[Wrap(ring.ulReadIndex + k - 1)]
<1>1. USBRingBufUsed(ring) \in 0 .. (ulSize - 1) /\ ring.ulReadIndex \in Index
  BY UsedAndFree DEF TypeOK, RingObject
<1>2. \A k \in 1 .. USBRingBufUsed(ring) : Wrap(ring.ulReadIndex + k - 1) \in Index
  BY <1>1, SizeAssumption DEF Wrap, Index
<1> QED BY <1>1, <1>2 DEF TypeOK, Contents, Slots

\* Bytes stored behind the write index, with room for them, are appended.
LEMMA StoringAppends ==
    ASSUME TypeOK, NEW n \in 1 .. ulSize, NEW s \in [1 .. n -> Bytes],
           USBRingBufUsed(ring) + n <= ulSize - 1,
           pucBuf' = Stored(ring.ulWriteIndex, s),
           ring'.ulReadIndex = ring.ulReadIndex,
           ring'.ulWriteIndex = Wrap(ring.ulWriteIndex + n)
    PROVE  Contents' = Stream!Newest(Contents \o s)
<1> DEFINE r == ring.ulReadIndex
           w == ring.ulWriteIndex
           u == USBRingBufUsed(ring)
<1>1. /\ r \in Index /\ w \in Index /\ u \in 0 .. (ulSize - 1)
      /\ u = Distance(r, w)
  BY UsedAndFree DEF TypeOK, RingObject, USBRingBufUsed, Distance
<1>2. Len(s) = n /\ s \in Seq(Bytes)
  OBVIOUS
<1>3. USBRingBufUsed(ring)' = u + n
  <2>1. USBRingBufUsed(ring)' = Distance(r, Wrap(w + n))
    BY DEF USBRingBufUsed, Distance
  <2> HIDE DEF r, w
  <2>2. Distance(r, Wrap(w + n)) = Distance(r, w) + n
    BY <1>1, SizeAssumption DEF Wrap, Distance, Index
  <2> QED BY <2>1, <2>2, <1>1
<1>4. ASSUME NEW k \in 1 .. (u + n)
      PROVE  pucBuf'[Wrap(r + k - 1)] = (Contents \o s)[k]
  <2> DEFINE j == Wrap(r + k - 1)
  <2>1. /\ j \in Index
        /\ k <= u => Distance(w, j) >= n
        /\ k > u => Distance(w, j) = k - u - 1
    BY <1>1, SlotOfByte
  <2>2. pucBuf'[j] = IF Distance(w, j) < n THEN s[Distance(w, j) + 1]
                     ELSE pucBuf[j]
    BY <2>1, <1>2 DEF Stored
  <2>3. Distance(w, j) \in Int
    BY <2>1, <1>1, SizeAssumption DEF Distance, Index
  <2>4. Contents \in Seq(Bytes) /\ Len(Contents) = u
    BY ContentsElements
  <2>0. k \in Int /\ u \in Int /\ n \in Int /\ 1 <= k /\ k <= u + n
    BY <1>1, SizeAssumption
  <2> HIDE DEF j, u, r, w
  <2>5. CASE k <= u
    <3>1. pucBuf'[j] = pucBuf[j]
      BY <2>1, <2>2, <2>3, <2>5
    <3>2. Contents[k] = pucBuf[j]
      BY <2>0, <2>5, ContentsElements DEF j, u, r
    <3> QED BY <3>1, <3>2, <2>4, <2>5, <1>2, <1>1 DEF j
  <2>6. CASE k > u
    <3>1. pucBuf'[j] = s[k - u]
      BY <2>1, <2>2, <2>3, <2>6, <1>1
    <3>2. (Contents \o s)[k] = s[k - u]
      <4>1. s \in Seq(Bytes) /\ Len(s) = n
        BY <1>2, <2>0
      <4>2. \A i \in 1 .. Len(Contents) + Len(s) :
               (Contents \o s)[i] = IF i <= Len(Contents) THEN Contents[i]
                                    ELSE s[i - Len(Contents)]
        BY <2>4, <4>1, ConcatProperties
      <4> QED BY <2>0, <2>4, <2>6, <4>1, <4>2, SMTT(30)
    <3> QED BY <3>1, <3>2 DEF j
  <2>7. k <= u \/ k > u
    BY <2>0
  <2> QED BY <2>5, <2>6, <2>7
<1>5. Contents' = [k \in 1 .. (u + n) |-> pucBuf'[Wrap(r + k - 1)]]
  BY <1>3 DEF Contents, Slots
<1>6. Contents \in Seq(Bytes) /\ Len(Contents) = u
  BY ContentsElements
<1>7. Contents' = Contents \o s
  <2> HIDE DEF u, r
  <2>1. Contents \o s \in [1 .. (u + n) -> Bytes]
    <3>1. /\ Contents \o s \in Seq(Bytes)
          /\ Len(Contents \o s) = u + n
      BY <1>6, <1>2, ConcatProperties
    <3> QED BY <3>1, LenProperties
  <2> QED BY <2>1, <1>4, <1>5
<1>8. Len(Contents \o s) <= ulSize - 1
  BY <1>6, <1>2
<1> QED BY <1>7, <1>8 DEF Stream!Newest

\* Where the k-th byte of an overrun ring lies: among the n bytes just stored,
\* or where an older byte lay before.
LEMMA SlotAfterOverrun ==
    ASSUME NEW r \in Index, NEW w \in Index, NEW n \in 1 .. ulSize,
           Distance(r, w) + n > ulSize - 1,
           NEW k \in 1 .. (ulSize - 1)
    PROVE  LET w2 == Wrap(w + n)
               j  == Wrap(Wrap(w2 + 1) + k - 1)
           IN  /\ j \in Index
               /\ n + k >= ulSize => Distance(w, j) = n + k - ulSize
               /\ n + k < ulSize =>
                      /\ Distance(w, j) >= n
                      /\ j = Wrap(r + (k + Distance(r, w) + n - (ulSize - 1)) - 1)
<1> DEFINE w2 == Wrap(w + n)
           j  == Wrap(Wrap(w2 + 1) + k - 1)
<1> SUFFICES
      ASSUME ulSize \in Int, r \in Int, w \in Int, k \in Int, n \in Int,
             0 <= r, r < ulSize, 0 <= w, w < ulSize, 1 <= k, k < ulSize,
             1 <= n, n <= ulSize
      PROVE  /\ j \in Index
             /\ n + k >= ulSize => Distance(w, j) = n + k - ulSize
             /\ n + k < ulSize =>
                    /\ Distance(w, j) >= n
                    /\ j = Wrap(r + (k + Distance(r, w) + n - (ulSize - 1)) - 1)
  BY SizeAssumption DEF Index
<1>1. j = IF w + n + k >= 2 * ulSize THEN w + n + k - 2 * ulSize
          ELSE IF w + n + k >= ulSize THEN w + n + k - ulSize ELSE w + n + k
  BY DEF Wrap
<1>2. j \in Index
  BY <1>1 DEF Index
<1>3. n + k >= ulSize => Distance(w, j) = n + k - ulSize
  BY <1>1 DEF Distance
<1>4. n + k < ulSize => Distance(w, j) >= n
  BY <1>1 DEF Distance
<1>5. n + k < ulSize
        => j = Wrap(r + (k + Distance(r, w) + n - (ulSize - 1)) - 1)
  <2> HIDE DEF j
  <2> QED BY <1>1 DEF Distance, Wrap
<1> QED BY <1>2, <1>3, <1>4, <1>5

\* Bytes stored without room for them push the oldest ones out.
LEMMA StoringOverruns ==
    ASSUME TypeOK, NEW n \in 1 .. ulSize, NEW s \in [1 .. n -> Bytes],
           USBRingBufUsed(ring) + n > ulSize - 1,
           pucBuf' = Stored(ring.ulWriteIndex, s),
           ring'.ulWriteIndex = Wrap(ring.ulWriteIndex + n),
           ring'.ulReadIndex = Wrap(Wrap(ring.ulWriteIndex + n) + 1)
    PROVE  Contents' = Stream!Newest(Contents \o s)
<1> DEFINE r == ring.ulReadIndex
           w == ring.ulWriteIndex
           u == USBRingBufUsed(ring)
           r2 == Wrap(Wrap(w + n) + 1)
<1>1. /\ r \in Index /\ w \in Index /\ u \in 0 .. (ulSize - 1)
      /\ u = Distance(r, w)
  BY UsedAndFree DEF TypeOK, RingObject, USBRingBufUsed, Distance
<1>2. Len(s) = n /\ s \in Seq(Bytes)
  OBVIOUS
<1>3. USBRingBufUsed(ring)' = ulSize - 1
  <2>1. USBRingBufUsed(ring)' = Distance(r2, Wrap(w + n))
    BY DEF USBRingBufUsed, Distance
  <2> HIDE DEF r, w
  <2>2. Distance(r2, Wrap(w + n)) = ulSize - 1
    BY <1>1, SizeAssumption DEF Wrap, Distance, Index
  <2> QED BY <2>1, <2>2
<1>4. Contents \in Seq(Bytes) /\ Len(Contents) = u
  BY ContentsElements
<1>5. /\ Contents \o s \in Seq(Bytes)
      /\ Len(Contents \o s) = u + n
  BY <1>2, <1>4, ConcatProperties
<1>6. ASSUME NEW k \in 1 .. (ulSize - 1)
      PROVE  pucBuf'[Wrap(r2 + k - 1)]
               = (Contents \o s)[k + u + n - (ulSize - 1)]
  <2> DEFINE j == Wrap(r2 + k - 1)
             m == k + u + n - (ulSize - 1)
  <2>0. /\ k \in Int /\ u \in Int /\ n \in Int /\ ulSize \in Int
        /\ 1 <= k /\ k < ulSize /\ 1 <= n /\ u + n >= ulSize
    BY <1>1, SizeAssumption
  <2>1. /\ j \in Index
        /\ n + k >= ulSize => Distance(w, j) = n + k - ulSize
        /\ n + k < ulSize => Distance(w, j) >= n /\ j = Wrap(r + m - 1)
    BY <1>1, SlotAfterOverrun
  <2>2. pucBuf'[j] = IF Distance(w, j) < n THEN s[Distance(w, j) + 1]
                     ELSE pucBuf[j]
    BY <2>1, <1>2 DEF Stored
  <2>3. Distance(w, j) \in Int
    BY <2>1, <1>1, SizeAssumption DEF Distance, Index
  <2> HIDE DEF j, u, r, w, r2
  <2>4. CASE n + k < ulSize
    <3>1. pucBuf'[j] = pucBuf[j]
      BY <2>0, <2>1, <2>2, <2>3, <2>4
    <3>2. m \in 1 .. u
      BY <2>0, <2>4
    <3> HIDE DEF m
    <3>3. Contents[m] = pucBuf[j]
      BY <3>2, <2>1, <2>4, ContentsElements DEF u, r
    <3>4. (Contents \o s)[m] = Contents[m]
      BY <2>0, <3>2, <1>2, <1>4, ConcatProperties
    <3> QED BY <3>1, <3>3, <3>4 DEF j, m
  <2>5. CASE n + k >= ulSize
    <3>1. pucBuf'[j] = s[m - u]
      BY <2>0, <2>1, <2>2, <2>3, <2>5
    <3>2. m \in 1 .. (u + n) /\ m > u
      BY <2>0, <1>1, <2>5
    <3> HIDE DEF m
    <3>3. (Contents \o s)[m] = s[m - u]
      BY <2>0, <3>2, <1>2, <1>4, ConcatProperties
    <3> QED BY <3>1, <3>3 DEF j, m
  <2>6. n + k < ulSize \/ n + k >= ulSize
    BY <2>0
  <2> QED BY <2>4, <2>5, <2>6
<1>7. Contents' = [k \in 1 .. (ulSize - 1) |-> pucBuf'[Wrap(r2 + k - 1)]]
  BY <1>3 DEF Contents, Slots
<1> DEFINE c == Contents \o s
<1>8. Stream!Newest(c) = [k \in 1 .. (ulSize - 1) |-> c[k + u + n - (ulSize - 1)]]
  <2>1. u \in Int /\ n \in Int /\ u + n > ulSize - 1 /\ Len(c) = u + n
    BY <1>1, <1>5, SizeAssumption
  <2> HIDE DEF u, c
  <2>2. Stream!Newest(c) = SubSeq(c, u + n - (ulSize - 1) + 1, u + n)
    BY <2>1, SizeAssumption DEF Stream!Newest
  <2>3. SubSeq(c, u + n - (ulSize - 1) + 1, u + n)
          = [k \in 1 .. (ulSize - 1) |-> c[k + u + n - (ulSize - 1)]]
    BY <2>1, SizeAssumption
  <2> QED BY <2>2, <2>3
<1> HIDE DEF u, r2, c
<1> QED BY <1>6, <1>7, <1>8 DEF c

\* Moving the read index over n used bytes removes the n oldest ones.
LEMMA ReadingRemoves ==
    ASSUME TypeOK, NEW n \in 1 .. USBRingBufUsed(ring),
           pucBuf' = pucBuf,
           ring'.ulWriteIndex = ring.ulWriteIndex,
           ring'.ulReadIndex = Wrap(ring.ulReadIndex + n)
    PROVE  Contents' = SubSeq(Contents, n + 1, Len(Contents))
<1> DEFINE r == ring.ulReadIndex
           w == ring.ulWriteIndex
           u == USBRingBufUsed(ring)
<1>1. /\ r \in Index /\ w \in Index /\ u \in 0 .. (ulSize - 1)
      /\ u = Distance(r, w)
  BY UsedAndFree DEF TypeOK, RingObject, USBRingBufUsed, Distance
<1>2. u \in Int /\ n \in Int /\ 1 <= n /\ n <= u
  BY <1>1, SizeAssumption
<1>3. USBRingBufUsed(ring)' = u - n
  <2>1. USBRingBufUsed(ring)' = Distance(Wrap(r + n), w)
    BY DEF USBRingBufUsed, Distance
  <2> HIDE DEF r, w, u
  <2>2. Distance(Wrap(r + n), w) = Distance(r, w) - n
    BY <1>1, <1>2, SizeAssumption DEF Wrap, Distance, Index
  <2> QED BY <2>1, <2>2, <1>1
<1>4. ASSUME NEW k \in 1 .. (u - n)
      PROVE  pucBuf[Wrap(Wrap(r + n) + k - 1)] = Contents[k + n]
  <2>1. k \in Int /\ 1 <= k /\ k + n \in 1 .. u
    BY <1>2
  <2>2. Contents[k + n] = pucBuf[Wrap(r + (k + n) - 1)]
    BY <2>1, ContentsElements
  <2> HIDE DEF r, w, u
  <2>3. Wrap(Wrap(r + n) + k - 1) = Wrap(r + (k + n) - 1)
    BY <1>1, <1>2, <2>1, SizeAssumption DEF Wrap, Index
  <2> QED BY <2>2, <2>3
<1>5. Contents' = [k \in 1 .. (u - n) |-> pucBuf[Wrap(Wrap(r + n) + k - 1)]]
  BY <1>3 DEF Contents, Slots
<1>6. Contents \in Seq(Bytes) /\ Len(Contents) = u
  BY ContentsElements
<1> HIDE DEF u, r
<1>7. SubSeq(Contents, n + 1, u) = [k \in 1 .. (u - n) |-> Contents[k + n]]
  BY <1>2, <1>6
<1> QED BY <1>4, <1>5, <1>6, <1>7

\* Every step of the ring buffer is a step of the bounded stream: the detailed
\* module implements BoundedStream for every ring size and every byte set.
THEOREM RingBufImplementsStream == Spec => ImplementsStream
<1>1. Init => Stream!StreamInit
  BY SizeAssumption
  DEF Init, USBRingBufInit, Stream!StreamInit, Contents, Slots, USBRingBufUsed
<1>2. TypeOK /\ [Next]_vars => [Stream!StreamNext]_Contents
  <2> SUFFICES ASSUME TypeOK, [Next]_vars
               PROVE  Stream!Put \/ Stream!Get \/ UNCHANGED Contents
    BY DEF Stream!StreamNext
  <2>0. /\ ring.ulReadIndex \in Index /\ ring.ulWriteIndex \in Index
        /\ USBRingBufUsed(ring) \in 0 .. (ulSize - 1)
        /\ Contents \in Seq(Bytes) /\ Len(Contents) = USBRingBufUsed(ring)
    BY UsedAndFree, ContentsElements DEF TypeOK, RingObject
  <2>1. ASSUME NEW n \in 1 .. ulSize, NEW s \in [1 .. n -> Bytes],
               Contents' = Stream!Newest(Contents \o s)
        PROVE  Stream!Put
    <3>1. (ulSize - 1) + 1 = ulSize
      BY SizeAssumption
    <3> QED BY <2>1, <3>1 DEF Stream!Put
  <2>2. ASSUME NEW n \in 1 .. USBRingBufUsed(ring),
               Contents' = SubSeq(Contents, n + 1, Len(Contents))
        PROVE  Stream!Get
    BY <2>0, <2>2 DEF Stream!Get
  <2>3. ASSUME NEW n \in 1 .. ulSize, NEW s \in [1 .. n -> Bytes],
               USBRingBufWrite(s)
        PROVE  Stream!Put
    <3>1. Len(s) = n
      BY SizeAssumption
    <3>2. USBRingBufUsed(ring) + n <= ulSize - 1
      BY <2>3, <3>1, <2>0, SizeAssumption DEF USBRingBufWrite, USBRingBufFree
    <3>3. /\ ring'.ulReadIndex = ring.ulReadIndex
          /\ ring'.ulWriteIndex = Wrap(ring.ulWriteIndex + n)
      BY <2>3, <3>1 DEF USBRingBufWrite, UpdateIndex, TypeOK, RingObject
    <3>4. pucBuf' = Stored(ring.ulWriteIndex, s)
      BY <2>3 DEF USBRingBufWrite
    <3> QED BY <2>1, <3>2, <3>3, <3>4, StoringAppends
  <2>4. ASSUME NEW n \in 1 .. ulSize, NEW s \in [1 .. n -> Bytes],
               AdvanceWrite(s)
        PROVE  Stream!Put
    <3>1. Len(s) = n
      BY SizeAssumption
    <3>2. /\ pucBuf' = Stored(ring.ulWriteIndex, s)
          /\ ring'.ulWriteIndex = Wrap(ring.ulWriteIndex + n)
          /\ ring'.ulReadIndex =
                IF USBRingBufFree(ring) < n
                THEN Wrap(Wrap(ring.ulWriteIndex + n) + 1)
                ELSE ring.ulReadIndex
      BY <2>4, <3>1 DEF AdvanceWrite, USBRingBufAdvanceWrite
    <3>3. CASE USBRingBufFree(ring) < n
      <4>1. USBRingBufUsed(ring) + n > ulSize - 1
        BY <3>3, <2>0, SizeAssumption DEF USBRingBufFree
      <4> QED BY <2>1, <3>2, <3>3, <4>1, StoringOverruns
    <3>4. CASE ~(USBRingBufFree(ring) < n)
      <4>1. USBRingBufUsed(ring) + n <= ulSize - 1
        BY <3>4, <2>0, SizeAssumption DEF USBRingBufFree
      <4> QED BY <2>1, <3>2, <3>4, <4>1, StoringAppends
    <3> QED BY <3>3, <3>4
  <2>5. ASSUME NEW n \in 1 .. ulSize, USBRingBufRead(n)
        PROVE  Stream!Get
    <3>1. n \in 1 .. USBRingBufUsed(ring)
      BY <2>5, <2>0, SizeAssumption DEF USBRingBufRead
    <3>2. /\ pucBuf' = pucBuf
          /\ ring'.ulWriteIndex = ring.ulWriteIndex
          /\ ring'.ulReadIndex = Wrap(ring.ulReadIndex + n)
      BY <2>5 DEF USBRingBufRead, UpdateIndex, TypeOK, RingObject
    <3> QED BY <2>2, <3>1, <3>2, ReadingRemoves
  <2>6. ASSUME NEW n \in 1 .. ulSize, AdvanceRead(n)
        PROVE  Stream!Get \/ UNCHANGED Contents
    <3> DEFINE m == Smaller(USBRingBufUsed(ring), n)
    <3>1. /\ pucBuf' = pucBuf
          /\ ring' = [ring EXCEPT !.ulReadIndex = Wrap(@ + m)]
      BY <2>6 DEF AdvanceRead, USBRingBufAdvanceRead, UpdateIndex
    <3>2. /\ ring'.ulWriteIndex = ring.ulWriteIndex
          /\ ring'.ulReadIndex = Wrap(ring.ulReadIndex + m)
      BY <3>1 DEF TypeOK, RingObject
    <3>3. m \in 0 .. USBRingBufUsed(ring)
      BY <2>0, SizeAssumption DEF Smaller
    <3> HIDE DEF m
    <3>4. CASE m = 0
      <4>1. Wrap(ring.ulReadIndex + m) = ring.ulReadIndex
        BY <3>4, <2>0, SizeAssumption DEF Wrap, Index
      <4>2. ring' = ring
        BY <3>1, <4>1 DEF TypeOK, RingObject
      <4> QED BY <4>2, <3>1 DEF Contents, Slots
    <3>5. CASE m # 0
      <4>1. m \in 1 .. USBRingBufUsed(ring)
        BY <3>3, <3>5, <2>0
      <4> QED BY <2>2, <3>1, <3>2, <4>1, ReadingRemoves
    <3> QED BY <3>4, <3>5
  <2>7. CASE Flush
    <3> DEFINE m == USBRingBufUsed(ring)
    <3>1. /\ pucBuf' = pucBuf
          /\ ring' = [ring EXCEPT !.ulReadIndex = ring.ulWriteIndex]
      BY <2>7 DEF Flush, USBRingBufFlush
    <3>2. /\ ring'.ulWriteIndex = ring.ulWriteIndex
          /\ ring'.ulReadIndex = ring.ulWriteIndex
      BY <3>1 DEF TypeOK, RingObject
    <3>3. ring.ulWriteIndex = Wrap(ring.ulReadIndex + m)
      BY <2>0, SizeAssumption DEF Wrap, Index, USBRingBufUsed
    <3>4. CASE m = 0
      <4>1. ring.ulReadIndex = ring.ulWriteIndex
        BY <3>4, <2>0, SizeAssumption DEF Index, USBRingBufUsed
      <4>2. ring' = ring
        BY <3>1, <4>1 DEF TypeOK, RingObject
      <4> QED BY <4>2, <3>1 DEF Contents, Slots
    <3>5. CASE m # 0
      <4>1. m \in 1 .. USBRingBufUsed(ring)
        BY <3>5, <2>0
      <4> QED BY <2>2, <3>1, <3>2, <3>3, <4>1, ReadingRemoves
    <3> QED BY <3>4, <3>5
  <2>8. CASE UNCHANGED vars
    BY <2>8 DEF vars, Contents, Slots
  <2> QED BY <2>3, <2>4, <2>5, <2>6, <2>7, <2>8 DEF Next
<1> QED
  BY <1>1, <1>2, TypeCorrect, PTL DEF Spec, ImplementsStream, Stream!StreamSpec
=============================================================================
