------------------------- MODULE USBRingBufOpsProofs -------------------------
(***************************************************************************)
(* Lemmas about the index arithmetic of usblib/usbringbuf.c, for every     *)
(* ring size.                                                              *)
(***************************************************************************)
EXTENDS USBRingBufOps, TLAPS

\* usbringbuf.c moves an index by at most the ring's size, and the one
\* conditional subtraction that follows is then enough to stay in the storage.
LEMMA UpdateIndexIsIndex ==
    ASSUME NEW i \in Index, NEW d \in 0 .. ulSize
    PROVE  UpdateIndex(i, d) \in Index
BY SizeAssumption DEF UpdateIndex, Wrap, Index

\* A well-formed ring object counts at most ulSize - 1 used bytes, and its
\* used and free bytes are natural numbers that add up to ulSize - 1.
LEMMA UsedAndFree ==
    ASSUME NEW r \in RingObject
    PROVE  /\ USBRingBufUsed(r) \in 0 .. (ulSize - 1)
           /\ USBRingBufFree(r) \in 0 .. (ulSize - 1)
           /\ USBRingBufUsed(r) + USBRingBufFree(r) = ulSize - 1
BY SizeAssumption DEF RingObject, Index, USBRingBufUsed, USBRingBufFree

\* The remainder in USBRingBufFull's test, as the wrap it computes.
LEMMA NextSlot ==
    ASSUME NEW i \in Index
    PROVE  (i + 1) % ulSize = IF i + 1 = ulSize THEN 0 ELSE i + 1
BY SizeAssumption DEF Index

\* Every call that moves an index leaves a well-formed ring object behind.
LEMMA AdvanceReadKeepsRing ==
    ASSUME NEW r \in RingObject, NEW n \in Nat
    PROVE  USBRingBufAdvanceRead(r, n) \in RingObject
<1>1. Smaller(USBRingBufUsed(r), n) \in 0 .. ulSize
  BY UsedAndFree, SizeAssumption DEF Smaller
<1>2. UpdateIndex(r.ulReadIndex, Smaller(USBRingBufUsed(r), n)) \in Index
  BY <1>1, UpdateIndexIsIndex DEF RingObject
<1> QED BY <1>2 DEF USBRingBufAdvanceRead, RingObject

\* ... also when more is stored than was free.
LEMMA AdvanceWriteKeepsRing ==
    ASSUME NEW r \in RingObject, NEW n \in 0 .. ulSize
    PROVE  USBRingBufAdvanceWrite(r, n) \in RingObject
<1>1. UpdateIndex(r.ulWriteIndex, n) \in Index
  BY UpdateIndexIsIndex DEF RingObject
<1>2. UpdateIndex(UpdateIndex(r.ulWriteIndex, n), 1) \in Index
  BY <1>1, UpdateIndexIsIndex, SizeAssumption
<1> QED
  BY <1>1, <1>2 DEF USBRingBufAdvanceWrite, UpdateIndex, RingObject

\* Where the k-th byte of the ring lies, seen from the write index, before and
\* after n more bytes are stored behind it.
LEMMA SlotOfByte ==
    ASSUME NEW r \in Index, NEW w \in Index, NEW n \in Nat,
           NEW k \in 1 .. (Distance(r, w) + n), Distance(r, w) + n <= ulSize - 1
    PROVE  /\ Wrap(r + k - 1) \in Index
           /\ k <= Distance(r, w) => Distance(w, Wrap(r + k - 1)) >= n
           /\ k > Distance(r, w)
                => Distance(w, Wrap(r + k - 1)) = k - Distance(r, w) - 1
<1> SUFFICES
      ASSUME ulSize \in Int, r \in Int, w \in Int, k \in Int, n \in Int,
             0 <= r, r < ulSize, 0 <= w, w < ulSize, 1 <= k, 0 <= n
      PROVE  /\ Wrap(r + k - 1) \in Index
             /\ k <= Distance(r, w) => Distance(w, Wrap(r + k - 1)) >= n
             /\ k > Distance(r, w)
                  => Distance(w, Wrap(r + k - 1)) = k - Distance(r, w) - 1
  BY SizeAssumption DEF Index, Distance
<1>1. CASE w >= r
  BY <1>1 DEF Wrap, Distance, Index
<1>2. CASE w < r
  BY <1>2 DEF Wrap, Distance, Index
<1> QED BY <1>1, <1>2

\* What is used is the distance from the read to the write index.
LEMMA UsedIsDistance ==
    ASSUME NEW r \in RingObject
    PROVE  USBRingBufUsed(r) = Distance(r.ulReadIndex, r.ulWriteIndex)
BY DEF USBRingBufUsed, Distance

\* A write index that moves by at most the free space adds what it moved by,
\* and the k-th new byte lies where the k-th slot from the old index was.
LEMMA WritingGrows ==
    ASSUME NEW r \in Index, NEW w \in Index, NEW n \in Nat,
           Distance(r, w) + n <= ulSize - 1
    PROVE  /\ Wrap(w + n) \in Index
           /\ Distance(r, Wrap(w + n)) = Distance(r, w) + n
           /\ \A k \in 1 .. n :
                  Wrap(r + (Distance(r, w) + k) - 1) = Wrap(w + k - 1)
<1>1. CASE w >= r
  BY <1>1, SizeAssumption DEF Wrap, Distance, Index
<1>2. CASE w < r
  BY <1>2, SizeAssumption DEF Wrap, Distance, Index
<1> QED BY <1>1, <1>2 DEF Index

\* A read index that moves by at most what is used takes away what it moved by,
\* and the k-th byte left is the one that was n places further on.
LEMMA ReadingShrinks ==
    ASSUME NEW r \in Index, NEW w \in Index, NEW n \in 0 .. Distance(r, w)
    PROVE  /\ Wrap(r + n) \in Index
           /\ Distance(Wrap(r + n), w) = Distance(r, w) - n
           /\ \A k \in 1 .. (Distance(r, w) - n) :
                  Wrap(Wrap(r + n) + k - 1) = Wrap(r + (n + k) - 1)
<1>1. CASE w >= r
  BY <1>1, SizeAssumption DEF Wrap, Distance, Index
<1>2. CASE w < r
  BY <1>2, SizeAssumption DEF Wrap, Distance, Index
<1> QED BY <1>1, <1>2 DEF Index

\* The used bytes lie in the contiguous block, and the rest of them in a second
\* one at the start of the storage.
LEMMA TwoBlocks ==
    ASSUME NEW r \in RingObject
    PROVE  /\ USBRingBufContigUsed(r) \in 0 .. USBRingBufUsed(r)
           /\ USBRingBufUsed(r) > 0 => USBRingBufContigUsed(r) > 0
           /\ r.ulReadIndex + USBRingBufContigUsed(r) <= ulSize
           /\ \A k \in 1 .. USBRingBufContigUsed(r) :
                  Wrap(r.ulReadIndex + k - 1) = r.ulReadIndex + k - 1
           /\ \A k \in 1 .. (USBRingBufUsed(r) - USBRingBufContigUsed(r)) :
                  Wrap(r.ulReadIndex + (USBRingBufContigUsed(r) + k) - 1) = k - 1
<1>1. CASE r.ulWriteIndex >= r.ulReadIndex
  BY <1>1, SizeAssumption
     DEF RingObject, Index, USBRingBufUsed, USBRingBufContigUsed, Wrap
<1>2. CASE r.ulWriteIndex < r.ulReadIndex
  BY <1>2, SizeAssumption
     DEF RingObject, Index, USBRingBufUsed, USBRingBufContigUsed, Wrap
<1> QED BY <1>1, <1>2 DEF RingObject, Index
=============================================================================
