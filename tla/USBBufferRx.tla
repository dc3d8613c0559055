----------------------------- MODULE USBBufferRx -----------------------------
(***************************************************************************)
(* The receive path: one OUT endpoint, the class driver that reads packets *)
(* out of it (usblib/device/usbdbulk.c and usbdcdc.c share this code), and *)
(* the receive buffer of usblib/usbbuffer.c that its client drains.        *)
(*                                                                         *)
(* Actors: the host, the USB interrupt (handlers run to their end), the    *)
(* start-of-frame tick (same interrupt), and a client.  The client may     *)
(* take data in place inside its USB_EVENT_RX_AVAILABLE callback, or call  *)
(* USBBufferRead, where it can be interrupted before each step.  Bytes are *)
(* numbered in the order the host sends them.                              *)
(***************************************************************************)
EXTENDS USBRingBufOps, Sequences

CONSTANTS
    MaxPacket,      \* DATA_OUT_EP_MAX_SIZE
    MaxRead,        \* the longest read the client asks for
    MaxBytes,       \* bound: bytes the host sends in a behaviour
    PreemptAt,      \* the client steps before which an interrupt can be taken
    TickRetries,    \* CDC: the tick signals an unread packet again; bulk: no
    Word            \* 2^(width of unsigned int), in which an index underflows

ClientSteps == {"idle", "load", "add", "test", "subtract"}

ASSUME PacketAssumption == MaxPacket \in Nat \ {0}
ASSUME BoundsAssumption == MaxRead \in Nat /\ MaxBytes \in Nat
ASSUME ClientAssumption == PreemptAt \subseteq ClientSteps /\ "idle" \in PreemptAt
ASSUME TickAssumption == TickRetries \in BOOLEAN
ASSUME WordAssumption == Word \in Nat /\ 2 * ulSize < Word

VARIABLES
    ring, pucBuf,   \* the ring buffer and its storage (0: never written)
    fifo,           \* bytes of the current packet not yet read, in the FIFO
    rxrdy,          \* USB_DEV_RX_PKT_RDY: the endpoint holds a packet
    rxIntr,         \* its interrupt is pending
    doPacketRx,     \* CDC_DO_PACKET_RX / BULK_DO_PACKET_RX in the deferred flags
    sent,           \* number of the newest byte the host has sent
    consumed,       \* the bytes the client has got, in order
    pc, ulLength    \* the client's next step and the bytes it has yet to read

vars == <<ring, pucBuf, fifo, rxrdy, rxIntr, doPacketRx, sent, consumed, pc,
          ulLength>>

Init ==
    /\ ring = USBRingBufInit
    /\ pucBuf = [i \in Index |-> 0]
    /\ fifo = << >> /\ rxrdy = FALSE /\ rxIntr = FALSE /\ doPacketRx = FALSE
    /\ sent = 0 /\ consumed = << >>
    /\ pc = "idle" /\ ulLength = 0

-----------------------------------------------------------------------------
(* The interrupt.                                                          *)

Interruptible == pc \in PreemptAt

\* One pfnTransfer call of a receive buffer: USBDCDCPacketRead (or
\* USBDBulkPacketRead) copies what fits into the contiguous free block, and the
\* buffer moves its write index over it.
ReadIntoRing(s) ==
    LET n == Smaller(USBRingBufContigFree(s.ring), Len(s.fifo))
        w == s.ring.ulWriteIndex
    IN  [ring |-> IF n = 0 THEN s.ring ELSE USBRingBufAdvanceWrite(s.ring, n),
         buf  |-> [j \in Index |-> IF j \in w .. (w + n - 1)
                                   THEN s.fifo[j - w + 1] ELSE s.buf[j]],
         fifo |-> SubSeq(s.fifo, n + 1, Len(s.fifo))]

\* Faulty variant: the packet is taken for read after the first block.
FillRingOnce ==
    [ReadIntoRing([ring |-> ring, buf |-> pucBuf, fifo |-> fifo])
        EXCEPT !.fifo = << >>]

\* HandleRxAvailable for a packet still in the FIFO: a second block is tried
\* when the first did not take the whole packet.
FillRing ==
    LET s1 == ReadIntoRing([ring |-> ring, buf |-> pucBuf, fifo |-> fifo])
    IN  IF s1.fifo # << >> THEN ReadIntoRing(s1) ELSE s1

\* The n oldest bytes of a ring, which a client may take from the storage.
Oldest(r, buf, n) == [k \in 1 .. n |-> buf[Wrap(r.ulReadIndex + k - 1)]]

\* How many bytes the client's callback may take itself: any number of what is
\* there, but none while a read of its own is under way.
TakenInPlace(r) == IF pc = "idle" THEN 0 .. USBRingBufUsed(r) ELSE {0}

\* Faulty variant: a packet read in part is not remembered.
SignalRxAvailableNoFlag ==
    \E s \in {FillRing} :
        /\ fifo' = s.fifo
        /\ rxrdy' = (s.fifo # << >>)
        /\ doPacketRx' = FALSE
        /\ pucBuf' = s.buf
        /\ \E n \in TakenInPlace(s.ring) :
               /\ consumed' = consumed \o Oldest(s.ring, s.buf, n)
               /\ ring' = USBRingBufAdvanceRead(s.ring, n)

\* The whole of USB_EVENT_RX_AVAILABLE: the packet is read and, when all of it
\* was, acknowledged; the client's callback may take data in place; the read
\* index moves by what the callback returned.
SignalRxAvailable ==
    \E s \in {FillRing} :
        /\ fifo' = s.fifo
        /\ rxrdy' = (s.fifo # << >>)
        /\ doPacketRx' = (s.fifo # << >>)
        /\ pucBuf' = s.buf
        /\ \E n \in TakenInPlace(s.ring) :
               /\ consumed' = consumed \o Oldest(s.ring, s.buf, n)
               /\ ring' = USBRingBufAdvanceRead(s.ring, n)

\* ProcessDataFromHost.
ProcessDataFromHost ==
    /\ Interruptible /\ rxIntr
    /\ rxIntr' = FALSE
    /\ IF rxrdy THEN SignalRxAvailable
       ELSE UNCHANGED <<ring, pucBuf, fifo, rxrdy, doPacketRx, consumed>>
    /\ UNCHANGED <<sent, pc, ulLength>>

\* Faulty variant: the tick acts only on a packet that is still to be signalled.
TickNeedsInterrupt ==
    /\ Interruptible /\ TickRetries /\ doPacketRx /\ rxIntr
    /\ SignalRxAvailable
    /\ UNCHANGED <<rxIntr, sent, pc, ulLength>>

\* The start-of-frame tick: CDCTickHandler signals the packet again while the
\* deferred flag is set; the bulk driver registers no tick handler.
Tick ==
    /\ Interruptible /\ TickRetries /\ doPacketRx
    /\ SignalRxAvailable
    /\ UNCHANGED <<rxIntr, sent, pc, ulLength>>

\* The host sends the next packet (an empty one, too) once the last one has
\* been acknowledged; until then the endpoint answers NAK.
HostSends ==
    /\ ~rxrdy
    /\ \E n \in 0 .. MaxPacket :
           /\ sent + n <= MaxBytes
           /\ fifo' = [k \in 1 .. n |-> sent + k]
           /\ sent' = sent + n
    /\ rxrdy' = TRUE /\ rxIntr' = TRUE
    /\ UNCHANGED <<ring, pucBuf, doPacketRx, consumed, pc, ulLength>>

-----------------------------------------------------------------------------
(* The client calls USBBufferRead.                                         *)

hwVars == <<fifo, rxrdy, rxIntr, doPacketRx, sent>>

USBBufferRead(n) ==
    /\ pc = "idle"
    /\ ulLength' = Smaller(USBRingBufUsed(ring), n)
    /\ ulLength' # 0
    /\ pc' = "load"
    /\ UNCHANGED <<hwVars, ring, pucBuf, consumed>>

\* USBRingBufReadOne: the byte ...
LoadByte ==
    /\ pc = "load"
    /\ consumed' = Append(consumed, pucBuf[ring.ulReadIndex])
    /\ pc' = "add"
    /\ UNCHANGED <<hwVars, ring, pucBuf, ulLength>>

\* ... and UpdateIndexAtomic on the read index: *pulVal += 1 ...
AddToIndex ==
    /\ pc = "add"
    /\ ring' = [ring EXCEPT !.ulReadIndex = @ + 1]
    /\ pc' = "test"
    /\ UNCHANGED <<hwVars, pucBuf, consumed, ulLength>>

ByteDone ==
    /\ ulLength' = ulLength - 1
    /\ pc' = IF ulLength' = 0 THEN "idle" ELSE "load"

\* ... if(*pulVal >= ulSize) ...
TestForWrap ==
    /\ pc = "test"
    /\ IF ring.ulReadIndex >= ulSize
       THEN pc' = "subtract" /\ UNCHANGED ulLength
       ELSE ByteDone
    /\ UNCHANGED <<hwVars, ring, pucBuf, consumed>>

\* ... *pulVal -= ulSize, in unsigned arithmetic.
CorrectForWrap ==
    /\ pc = "subtract"
    /\ ring' = [ring EXCEPT !.ulReadIndex = (@ - ulSize) % Word]
    /\ ByteDone
    /\ UNCHANGED <<hwVars, pucBuf, consumed>>

ClientStep == LoadByte \/ AddToIndex \/ TestForWrap \/ CorrectForWrap

ClientRead == \E n \in 1 .. MaxRead : USBBufferRead(n)

Next ==
    \/ HostSends \/ ProcessDataFromHost \/ Tick
    \/ ClientRead \/ ClientStep

Spec == Init /\ [][Next]_vars

\* A pending interrupt and the tick are taken once the client reaches a step
\* that admits them; a client that polls goes on polling and finishes its calls.
FairSpec ==
    /\ Spec
    /\ SF_vars(ProcessDataFromHost) /\ SF_vars(Tick)
    /\ WF_vars(ClientRead) /\ WF_vars(ClientStep)

-----------------------------------------------------------------------------
TypeOK ==
    /\ ring \in [ulReadIndex : 0 .. (Word - 1), ulWriteIndex : Index]
    /\ pucBuf \in [Index -> Nat]
    /\ fifo \in Seq(Nat) /\ consumed \in Seq(Nat)
    /\ rxrdy \in BOOLEAN /\ rxIntr \in BOOLEAN /\ doPacketRx \in BOOLEAN
    /\ sent \in 0 .. MaxBytes /\ ulLength \in Nat
    /\ pc \in ClientSteps

\* The client gets the host's bytes, each once, in order and none missing: whichever
\* block of the ring a packet was read into and wherever an interrupt came, between
\* two calls every byte sent is with the client, in the ring or still in the FIFO.
StreamIntact ==
    /\ \A i \in 1 .. Len(consumed) : consumed[i] = i
    /\ pc = "idle" => Len(consumed) + USBRingBufUsed(ring) + Len(fifo) = sent

\* A packet that could not be read whole is remembered: with no interrupt
\* pending, an endpoint that answers NAK has its deferred flag set.
UnreadPacketIsFlagged == rxrdy /\ ~rxIntr => doPacketRx

\* A packet does not stay in the FIFO for ever: if it is not read in the
\* context of the event, the event is signalled again.
PacketIsRead == rxrdy ~> ~rxrdy
=============================================================================
