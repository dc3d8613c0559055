---------------------------- MODULE USBRingBufOps ----------------------------
(***************************************************************************)
(* The index arithmetic of usblib/usbringbuf.c.  A ring buffer object is   *)
(* the record [ulReadIndex, ulWriteIndex]; its size is the constant ulSize *)
(* and its storage (pucBuf) is kept by the modules that use it.  One slot  *)
(* is always left free, so that equal indices mean "empty".                *)
(***************************************************************************)
EXTENDS Integers

CONSTANT ulSize                \* tUSBRingBufObject.ulSize

\* USBRingBufInit asserts ulSize != 0.
ASSUME SizeAssumption == ulSize \in Nat \ {0}

Index == 0 .. (ulSize - 1)

RingObject == [ulReadIndex : Index, ulWriteIndex : Index]

USBRingBufInit == [ulReadIndex |-> 0, ulWriteIndex |-> 0]

\* Faulty variant of Wrap: corrects one slot too early.
WrapTooEarly(i) == IF i >= ulSize - 1 THEN i - ulSize ELSE i

\* The correction for wrap: one conditional subtraction, not a modulus.
Wrap(i) == IF i >= ulSize THEN i - ulSize ELSE i

\* The value UpdateIndexAtomic leaves in an index it has moved by d.
UpdateIndex(i, d) == Wrap(i + d)

\* How many slots j lies behind i, going round the storage.
Distance(i, j) == IF j >= i THEN j - i ELSE ulSize - (i - j)

USBRingBufEmpty(r) == r.ulWriteIndex = r.ulReadIndex

USBRingBufFull(r) == (r.ulWriteIndex + 1) % ulSize = r.ulReadIndex

USBRingBufUsed(r) ==
    IF r.ulWriteIndex >= r.ulReadIndex
    THEN r.ulWriteIndex - r.ulReadIndex
    ELSE ulSize - (r.ulReadIndex - r.ulWriteIndex)

USBRingBufFree(r) == (ulSize - 1) - USBRingBufUsed(r)

USBRingBufContigUsed(r) ==
    IF r.ulWriteIndex >= r.ulReadIndex
    THEN r.ulWriteIndex - r.ulReadIndex
    ELSE ulSize - r.ulReadIndex

\* Faulty variant of USBRingBufContigFree: offers the slot that must stay free.
ContigFreeFillsRing(r) ==
    IF r.ulReadIndex > r.ulWriteIndex
    THEN (r.ulReadIndex - r.ulWriteIndex) - 1
    ELSE ulSize - r.ulWriteIndex

USBRingBufContigFree(r) ==
    IF r.ulReadIndex > r.ulWriteIndex
    THEN (r.ulReadIndex - r.ulWriteIndex) - 1
    ELSE ulSize - r.ulWriteIndex - (IF r.ulReadIndex = 0 THEN 1 ELSE 0)

Smaller(m, n) == IF m < n THEN m ELSE n

\* Advancing the read index is clamped to what the ring holds.
USBRingBufAdvanceRead(r, n) ==
    [r EXCEPT !.ulReadIndex = UpdateIndex(@, Smaller(USBRingBufUsed(r), n))]

\* Faulty variant of USBRingBufAdvanceWrite: leaves the read index alone.
AdvanceWriteNoFixup(r, n) == [r EXCEPT !.ulWriteIndex = Wrap(@ + n)]

\* Advancing the write index is not clamped: a writer that stores more than
\* the free space pushes the read index in front of it and so drops the
\* oldest bytes (the release build, where the ASSERT is compiled out).
USBRingBufAdvanceWrite(r, n) ==
    LET w == Wrap(r.ulWriteIndex + n)
    IN  [ulWriteIndex |-> w,
         ulReadIndex  |-> IF USBRingBufFree(r) < n THEN Wrap(w + 1)
                          ELSE r.ulReadIndex]

USBRingBufFlush(r) == [r EXCEPT !.ulReadIndex = r.ulWriteIndex]
=============================================================================
