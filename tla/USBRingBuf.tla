----------------------------- MODULE USBRingBuf ------------------------------
(***************************************************************************)
(* usblib/usbringbuf.c used from one context: every call runs to its end   *)
(* before the next one starts.  The state is the ring object and its       *)
(* storage; the actions are the calls that change it.                      *)
(***************************************************************************)
EXTENDS USBRingBufOps, Sequences

CONSTANT Bytes                 \* the values a byte can take

VARIABLES ring,                \* the tUSBRingBufObject indices
          pucBuf,              \* its storage
          pucData              \* what the last read handed to its caller

vars == <<ring, pucBuf, pucData>>

Init ==
    /\ ring = USBRingBufInit
    /\ pucBuf \in {[i \in Index |-> b] : b \in Bytes}
    /\ pucData = << >>

\* The n bytes from slot i on, wrapping at the end of the storage.
Slots(i, n) == [k \in 1 .. n |-> pucBuf[Wrap(i + k - 1)]]

\* The storage after s has been stored from slot i on, byte by byte.
Stored(i, s) ==
    [j \in Index |-> IF Distance(i, j) < Len(s) THEN s[Distance(i, j) + 1]
                     ELSE pucBuf[j]]

\* USBRingBufWrite (and USBRingBufWriteOne, for one byte): the caller must
\* have checked the free space.
USBRingBufWrite(s) ==
    /\ s # << >> /\ Len(s) <= USBRingBufFree(ring)
    /\ pucBuf' = Stored(ring.ulWriteIndex, s)
    /\ ring' = [ring EXCEPT !.ulWriteIndex = UpdateIndex(@, Len(s))]
    /\ UNCHANGED pucData

\* The caller stored s in pucBuf itself and then advances the write index:
\* nothing in the release build stops it from overrunning the ring.
AdvanceWrite(s) ==
    /\ Len(s) <= ulSize
    /\ pucBuf' = Stored(ring.ulWriteIndex, s)
    /\ ring' = USBRingBufAdvanceWrite(ring, Len(s))
    /\ UNCHANGED pucData

\* USBRingBufRead (and USBRingBufReadOne): n bytes that are known to be there.
USBRingBufRead(n) ==
    /\ n # 0 /\ n <= USBRingBufUsed(ring)
    /\ pucData' = Slots(ring.ulReadIndex, n)
    /\ ring' = [ring EXCEPT !.ulReadIndex = UpdateIndex(@, n)]
    /\ UNCHANGED pucBuf

\* The caller read n bytes in place, from the contiguous block.
AdvanceRead(n) ==
    /\ pucData' = Slots(ring.ulReadIndex, Smaller(n, USBRingBufContigUsed(ring)))
    /\ ring' = USBRingBufAdvanceRead(ring, n)
    /\ UNCHANGED pucBuf

Flush ==
    /\ ring' = USBRingBufFlush(ring)
    /\ UNCHANGED <<pucBuf, pucData>>

Next ==
    \/ \E n \in 1 .. ulSize : \E s \in [1 .. n -> Bytes] :
           USBRingBufWrite(s) \/ AdvanceWrite(s)
    \/ \E n \in 1 .. ulSize : USBRingBufRead(n) \/ AdvanceRead(n)
    \/ Flush

Spec == Init /\ [][Next]_vars

-----------------------------------------------------------------------------
\* The bytes between the read and the write index, oldest first.
Contents == Slots(ring.ulReadIndex, USBRingBufUsed(ring))

TypeOK ==
    /\ ring \in RingObject
    /\ pucBuf \in [Index -> Bytes]

\* Each of the two halves that usbbuffer.c hands out as one block of memory
\* (the first for sending, the second for receiving) stays inside the storage
\* and inside what is really used or free: USBRingBufContigUsed and
\* USBRingBufContigFree never offer a block that crosses the end of the
\* storage, and a writer that fills the offered block does not turn a full
\* ring into one that looks empty.
BlocksAreSafe ==
    /\ ring.ulReadIndex + USBRingBufContigUsed(ring) <= ulSize
    /\ USBRingBufContigUsed(ring) <= USBRingBufUsed(ring)
    /\ ring.ulWriteIndex + USBRingBufContigFree(ring) <= ulSize
    /\ USBRingBufContigFree(ring) <= USBRingBufFree(ring)
    /\ USBRingBufUsed(ring) > 0 => USBRingBufContigUsed(ring) > 0
    /\ USBRingBufFree(ring) > 0 => USBRingBufContigFree(ring) > 0

\* A full ring and an empty ring are told apart, and both tests agree with the
\* byte counts the writers and readers use.
FullAndEmptyAgree ==
    /\ USBRingBufFull(ring) <=> USBRingBufFree(ring) = 0
    /\ USBRingBufEmpty(ring) <=> USBRingBufUsed(ring) = 0

Stream == INSTANCE BoundedStream
              WITH Capacity <- ulSize - 1, stream <- Contents

\* The indices and the storage implement the bounded stream: bytes come out in
\* the order they went in whatever block sizes the two users mix, and an
\* overrunning AdvanceWrite drops the oldest bytes only.
ImplementsStream == Stream!StreamSpec
=============================================================================
