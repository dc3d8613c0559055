------------------------------ MODULE USBBulkTx ------------------------------
(***************************************************************************)
(* The transmit path of a usblib device class driver with a USB buffer on  *)
(* top: usblib/usbbuffer.c (transmit buffer) over usblib/device/usbdbulk.c *)
(* over one IN endpoint.  Three actors share the state:                    *)
(*                                                                         *)
(*   - the client, which writes a stream of bytes.  One step is the code   *)
(*     between two points at which an interrupt can be noticed, and pc     *)
(*     names the next step;                                                *)
(*   - the USB interrupt, whose handlers run to their end;                 *)
(*   - the host, which takes a packet out of the endpoint.                 *)
(*                                                                         *)
(* Bytes are numbered in the order the client hands them over, so that the *)
(* numbers the host sees tell a loss, a repetition and a reordering apart. *)
(***************************************************************************)
EXTENDS USBRingBufOps, Sequences, FiniteSets

CONSTANTS
    MaxPacket,      \* DATA_IN_EP_MAX_SIZE
    MaxWrite,       \* the longest write the client asks for
    MaxBytes,       \* bound: bytes the client writes in a behaviour
    MaxConfigs,     \* bound: SET_CONFIGURATION requests in a behaviour
    PreemptAt       \* the client steps before which an interrupt can be taken

\* The steps that add to the write index, and those that correct it for wrap, in
\* UpdateIndexAtomic and in USBRingBufAdvanceWrite.
Adding == {"add", "advance"}
Wrapping == {"wrap", "correct"}

ClientSteps == {"idle", "store", "avail", "contig", "total", "transfer1", "transfer2"}
               \cup Adding \cup Wrapping

\* The largest unsigned short.
USHRT_MAX == 65535

ASSUME PacketAssumption == MaxPacket \in 1 .. USHRT_MAX
ASSUME BoundsAssumption ==
    MaxWrite \in Nat /\ MaxBytes \in Nat /\ MaxConfigs \in Nat
\* {"idle"} is a client that runs in interrupt context, as in the examples;
\* a larger set is a client in the main loop.
ASSUME PreemptAssumption == PreemptAt \subseteq ClientSteps /\ "idle" \in PreemptAt

VARIABLES
    ring, pucBuf,   \* the ring buffer and its storage (0: never written)
    ep,             \* tBulkInstance and the IN endpoint it drives
    txIntr,         \* the endpoint's transmit interrupt is pending
    configured,     \* the host has configured the device
    configs,        \* SET_CONFIGURATION requests so far
    pc,             \* the client's next step
    ulLength,       \* bytes of the call not yet in the ring
    ulDelta,        \* bytes the next index update adds
    ulPacket, ulSpace, ulTotal,  \* locals of ScheduleNextTransmission
    accepted,       \* number of the newest byte in the ring
    received,       \* what the host got since the last configuration
    base,           \* the newest byte when the ring was last flushed
    acked           \* bytes acknowledged since the last TX_COMPLETE

bufVars == <<ring, pucBuf>>
busVars == <<configured, configs>>
callVars == <<ulLength, ulDelta>>
schedVars == <<ulPacket, ulSpace, ulTotal>>
ghostVars == <<received, base, acked>>
vars == <<bufVars, ep, txIntr, busVars, pc, callVars, schedVars, accepted,
          ghostVars>>

Endpoint == [eBulkTxState : {"UNCONFIGURED", "IDLE", "WAIT_DATA"},
             usLastTxSize : 0 .. USHRT_MAX,
             fifo         : Seq(Nat),
             txrdy        : BOOLEAN]

Init ==
    /\ ring = USBRingBufInit
    /\ pucBuf = [i \in Index |-> 0]
    /\ ep = [eBulkTxState |-> "UNCONFIGURED", usLastTxSize |-> 0,
             fifo |-> << >>, txrdy |-> FALSE]
    /\ txIntr = FALSE
    /\ configured = FALSE /\ configs = 0
    /\ pc = "idle"
    /\ ulLength = 0 /\ ulDelta = 0
    /\ ulPacket = 0 /\ ulSpace = 0 /\ ulTotal = 0
    /\ accepted = 0
    /\ received = << >> /\ base = 0 /\ acked = 0

-----------------------------------------------------------------------------
(* usbdbulk.c: the class driver's half of the transfer.                    *)

USBDBulkTxPacketAvailable(e) == IF e.eBulkTxState = "IDLE" THEN MaxPacket ELSE 0

\* Faulty variant: a second part replaces the count of the first.
PacketWriteForgetsFirstPart(e, bytes, bLast) ==
    IF Len(bytes) > MaxPacket \/ e.eBulkTxState # "IDLE" \/ e.txrdy
    THEN e
    ELSE [eBulkTxState |-> IF bLast THEN "WAIT_DATA" ELSE "IDLE",
          usLastTxSize |-> Len(bytes),
          fifo         |-> e.fifo \o bytes,
          txrdy        |-> bLast]

\* Faulty variant: the sense of bLast that the driver's own comment gives.
PacketWriteLastReversed(e, bytes, bLast) ==
    IF Len(bytes) > MaxPacket \/ e.eBulkTxState # "IDLE" \/ e.txrdy
    THEN e
    ELSE [eBulkTxState |-> IF bLast THEN "IDLE" ELSE "WAIT_DATA",
          usLastTxSize |-> e.usLastTxSize + Len(bytes),
          fifo         |-> e.fifo \o bytes,
          txrdy        |-> ~bLast]

\* USBDBulkPacketWrite: bytes go into the FIFO, and the last part commits the
\* packet.  A packet that is still waiting for the host refuses the data, which
\* the caller does not look at.
USBDBulkPacketWrite(e, bytes, bLast) ==
    IF Len(bytes) > MaxPacket \/ e.eBulkTxState # "IDLE" \/ e.txrdy
    THEN e
    ELSE [eBulkTxState |-> IF bLast THEN "WAIT_DATA" ELSE "IDLE",
          usLastTxSize |-> (e.usLastTxSize + Len(bytes)) % (USHRT_MAX + 1),
          fifo         |-> e.fifo \o bytes,
          txrdy        |-> bLast]

\* n bytes of storage from slot i on; the caller stays inside the storage.
Block(i, n) == [k \in 1 .. n |-> pucBuf[i + k - 1]]

\* The first and the second part ScheduleNextTransmission hands over, when
\* packet bytes can be sent, space of them lie before the end of the storage
\* and total in all.
FirstPart(space, packet) == Smaller(space, packet)
IsSplit(space, packet, total) ==
    FirstPart(space, packet) < packet /\ FirstPart(space, packet) < total
SecondPart(space, packet, total) ==
    Smaller(total - FirstPart(space, packet), packet - FirstPart(space, packet))

\* ScheduleNextTransmission run to its end, as an interrupt handler runs it.
ScheduleNextTransmission(r, e) ==
    LET packet == USBDBulkTxPacketAvailable(e)
        space  == USBRingBufContigUsed(r)
        total  == USBRingBufUsed(r)
        split  == IsSplit(space, packet, total)
        e1     == USBDBulkPacketWrite(
                      e, Block(r.ulReadIndex, FirstPart(space, packet)), ~split)
    IN  IF packet = 0 \/ space = 0 THEN e
        ELSE IF split
             THEN USBDBulkPacketWrite(
                      e1, Block(0, SecondPart(space, packet, total)), TRUE)
             ELSE e1

-----------------------------------------------------------------------------
(* The client.                                                             *)

\* USBBufferWrite: as much as fits is taken.
USBBufferWrite(n) ==
    /\ pc = "idle" /\ accepted + n <= MaxBytes
    /\ ulLength' = Smaller(n, USBRingBufFree(ring))
    /\ ulDelta' = 1
    /\ pc' = IF ulLength' = 0 THEN "avail" ELSE "store"
    /\ UNCHANGED <<bufVars, ep, txIntr, busVars, schedVars, accepted, ghostVars>>

\* The client asks for the free space, stores n bytes in the storage itself and
\* reports them with USBBufferDataWritten; what it stores is not visible before
\* the write index moves.
USBBufferDataWritten(n) ==
    /\ pc = "idle" /\ accepted + n <= MaxBytes /\ n <= USBRingBufFree(ring)
    /\ pucBuf' = [j \in Index |->
                     LET k == Distance(ring.ulWriteIndex, j)
                     IN  IF k < n THEN accepted + k + 1 ELSE pucBuf[j]]
    /\ ulLength' = n /\ ulDelta' = n
    /\ pc' = IF n = 0 THEN "avail" ELSE "advance"
    /\ UNCHANGED <<ring, ep, txIntr, busVars, schedVars, accepted, ghostVars>>

\* USBRingBufWriteOne stores the byte ...
StoreByte ==
    /\ pc = "store"
    /\ pucBuf' = [pucBuf EXCEPT ![ring.ulWriteIndex] = accepted + 1]
    /\ pc' = "add"
    /\ UNCHANGED <<ring, ep, txIntr, busVars, callVars, schedVars, accepted,
                   ghostVars>>

\* ... and UpdateIndexAtomic moves the write index, in two accesses: *pulVal += ulDelta ...
AddToIndex ==
    /\ pc = "add" /\ pc' = "wrap"
    /\ ring' = [ring EXCEPT !.ulWriteIndex = @ + ulDelta]
    /\ accepted' = accepted + ulDelta
    /\ UNCHANGED <<pucBuf, ep, txIntr, busVars, callVars, schedVars, ghostVars>>

\* ... and the correction for wrap.
CorrectForWrap ==
    /\ pc = "wrap"
    /\ ring' = [ring EXCEPT !.ulWriteIndex = Wrap(@)]
    /\ ulLength' = ulLength - ulDelta
    /\ pc' = IF ulLength' = 0 THEN "avail" ELSE "store"
    /\ UNCHANGED <<pucBuf, ep, txIntr, busVars, ulDelta, schedVars, accepted,
                   ghostVars>>

\* USBRingBufAdvanceWrite does the same to the index in accesses of its own.  What
\* follows there, for more bytes than were free, is not reached: n were free, and
\* nothing but the client fills the ring.
AdvanceWrite ==
    /\ pc = "advance" /\ pc' = "correct"
    /\ ring' = [ring EXCEPT !.ulWriteIndex = @ + ulDelta]
    /\ accepted' = accepted + ulDelta
    /\ UNCHANGED <<pucBuf, ep, txIntr, busVars, callVars, schedVars, ghostVars>>

AdvanceWriteWraps ==
    /\ pc = "correct"
    /\ ring' = [ring EXCEPT !.ulWriteIndex = Wrap(@)]
    /\ ulLength' = ulLength - ulDelta
    /\ pc' = "avail"
    /\ UNCHANGED <<pucBuf, ep, txIntr, busVars, ulDelta, schedVars, accepted,
                   ghostVars>>

\* ScheduleNextTransmission, step by step.
AskPacketAvailable ==
    /\ pc = "avail"
    /\ ulPacket' = USBDBulkTxPacketAvailable(ep)
    /\ pc' = IF ulPacket' = 0 THEN "idle" ELSE "contig"
    /\ UNCHANGED <<bufVars, ep, txIntr, busVars, callVars, ulSpace, ulTotal,
                   accepted, ghostVars>>

AskContigUsed ==
    /\ pc = "contig"
    /\ ulSpace' = USBRingBufContigUsed(ring)
    /\ pc' = "total"
    /\ UNCHANGED <<bufVars, ep, txIntr, busVars, callVars, ulPacket, ulTotal,
                   accepted, ghostVars>>

AskUsed ==
    /\ pc = "total"
    /\ ulTotal' = USBRingBufUsed(ring)
    /\ pc' = IF ulSpace = 0 THEN "idle" ELSE "transfer1"
    /\ UNCHANGED <<bufVars, ep, txIntr, busVars, callVars, ulPacket, ulSpace,
                   accepted, ghostVars>>

TransferFirst ==
    /\ pc = "transfer1"
    /\ LET split == IsSplit(ulSpace, ulPacket, ulTotal)
       IN  /\ ep' = USBDBulkPacketWrite(
                        ep, Block(ring.ulReadIndex, FirstPart(ulSpace, ulPacket)),
                        ~split)
           /\ pc' = IF split THEN "transfer2" ELSE "idle"
    /\ UNCHANGED <<bufVars, txIntr, busVars, callVars, schedVars, accepted,
                   ghostVars>>

TransferSecond ==
    /\ pc = "transfer2"
    /\ ep' = USBDBulkPacketWrite(
                 ep, Block(0, SecondPart(ulSpace, ulPacket, ulTotal)), TRUE)
    /\ pc' = "idle"
    /\ UNCHANGED <<bufVars, txIntr, busVars, callVars, schedVars, accepted,
                   ghostVars>>

ClientStep ==
    \/ StoreByte \/ AddToIndex \/ CorrectForWrap \/ AdvanceWrite \/ AdvanceWriteWraps
    \/ AskPacketAvailable \/ AskContigUsed \/ AskUsed
    \/ TransferFirst \/ TransferSecond

Client ==
    \/ \E n \in 1 .. MaxWrite : USBBufferWrite(n) \/ USBBufferDataWritten(n)
    \/ ClientStep

-----------------------------------------------------------------------------
(* The interrupt.                                                          *)

Interruptible == pc \in PreemptAt

\* Faulty variant: the next packet is built before the read index moves.
ProcessDataToHostSendsFirst ==
    /\ Interruptible /\ txIntr
    /\ txIntr' = FALSE
    /\ LET e == [ep EXCEPT !.eBulkTxState = "IDLE", !.usLastTxSize = 0]
       IN  ep' = ScheduleNextTransmission(ring, e)
    /\ ring' = USBRingBufAdvanceRead(ring, ep.usLastTxSize)
    /\ acked' = 0
    /\ UNCHANGED <<pucBuf, busVars, pc, callVars, schedVars, accepted, received,
                   base>>

\* Faulty variant: a completion does not start the next packet.
ProcessDataToHostNoNext ==
    /\ Interruptible /\ txIntr
    /\ txIntr' = FALSE
    /\ ring' = USBRingBufAdvanceRead(ring, ep.usLastTxSize)
    /\ ep' = [ep EXCEPT !.eBulkTxState = "IDLE", !.usLastTxSize = 0]
    /\ acked' = 0
    /\ UNCHANGED <<pucBuf, busVars, pc, callVars, schedVars, accepted, received,
                   base>>

\* ProcessDataToHost, with the transmit buffer's HandleTxComplete.
ProcessDataToHost ==
    /\ Interruptible /\ txIntr
    /\ txIntr' = FALSE
    /\ LET r == USBRingBufAdvanceRead(ring, ep.usLastTxSize)
           e == [ep EXCEPT !.eBulkTxState = "IDLE", !.usLastTxSize = 0]
       IN  /\ ring' = r
           /\ ep' = ScheduleNextTransmission(r, e)
    /\ acked' = 0
    /\ UNCHANGED <<pucBuf, busVars, pc, callVars, schedVars, accepted, received,
                   base>>

\* Faulty variant: the transmit state survives a new configuration.
HandleConfigChangeKeepsState ==
    /\ Interruptible /\ configs < MaxConfigs
    /\ configs' = configs + 1 /\ configured' = TRUE
    /\ ep' = [ep EXCEPT !.eBulkTxState = IF @ = "UNCONFIGURED" THEN "IDLE" ELSE @]
    /\ ring' = USBRingBufFlush(ring)
    /\ base' = accepted /\ received' = << >>
    /\ UNCHANGED <<pucBuf, txIntr, pc, callVars, schedVars, accepted, acked>>

\* HandleConfigChange on SET_CONFIGURATION.  The client's USB_EVENT_CONNECTED
\* handler flushes the buffer.
HandleConfigChange ==
    /\ Interruptible /\ configs < MaxConfigs
    /\ configs' = configs + 1 /\ configured' = TRUE
    /\ ep' = [ep EXCEPT !.eBulkTxState = "IDLE"]
    /\ ring' = USBRingBufFlush(ring)
    /\ base' = accepted /\ received' = << >>
    /\ UNCHANGED <<pucBuf, txIntr, pc, callVars, schedVars, accepted, acked>>

\* A bus reset: the controller empties its endpoints, the enumeration code has
\* no reset handler to call in the class driver.
BusReset ==
    /\ configured /\ configs < MaxConfigs
    /\ configured' = FALSE
    /\ ep' = [ep EXCEPT !.fifo = << >>, !.txrdy = FALSE]
    /\ UNCHANGED <<bufVars, txIntr, configs, pc, callVars, schedVars, accepted,
                   ghostVars>>

\* The host takes the committed packet and acknowledges it.
HostTakesPacket ==
    /\ configured /\ ep.txrdy
    /\ received' = received \o ep.fifo
    /\ acked' = acked + Len(ep.fifo)
    /\ ep' = [ep EXCEPT !.fifo = << >>, !.txrdy = FALSE]
    /\ txIntr' = TRUE
    /\ UNCHANGED <<bufVars, busVars, pc, callVars, schedVars, accepted, base>>

Next ==
    \/ Client
    \/ ProcessDataToHost \/ HandleConfigChange
    \/ BusReset \/ HostTakesPacket

Spec == Init /\ [][Next]_vars

\* A client call is always finished, a pending interrupt is taken once the
\* client reaches a step that admits it, the host polls the IN endpoint and
\* configures the device.
FairSpec ==
    /\ Spec
    /\ WF_vars(ClientStep)
    /\ SF_vars(ProcessDataToHost)
    /\ SF_vars(HandleConfigChange)
    /\ WF_vars(HostTakesPacket)

-----------------------------------------------------------------------------
TypeOK ==
    /\ ring \in [ulReadIndex : Nat, ulWriteIndex : Nat]
    /\ pucBuf \in [Index -> Nat]
    /\ ep \in Endpoint
    /\ txIntr \in BOOLEAN
    /\ configured \in BOOLEAN /\ configs \in 0 .. MaxConfigs
    /\ pc \in ClientSteps
    /\ ulLength \in Nat /\ ulDelta \in Nat
    /\ ulPacket \in {0, MaxPacket} /\ ulSpace \in Nat /\ ulTotal \in Nat
    /\ accepted \in 0 .. MaxBytes
    /\ received \in Seq(Nat) /\ base \in Nat /\ acked \in Nat

\* The host gets the bytes the client handed over since the configuration, each
\* once, in order, none missing: what the two index updates, the split at the
\* end of the storage and the two callers of ScheduleNextTransmission must not
\* break between them.
StreamIntact == \A i \in 1 .. Len(received) : received[i] = base + i

\* Between two calls of the client the ring never holds bytes that nothing is
\* going to send: either a packet waits for the host or its completion waits to
\* be handled.  The client and the interrupt both test the transmit state and
\* the ring, in opposite orders, and one of the two must see the other's work.
NoStrandedData ==
    configured /\ pc = "idle" /\ USBRingBufUsed(ring) > 0 => ep.txrdy \/ txIntr

\* The transmitter is never left waiting for a completion that cannot come,
\* whatever resets and configurations cut its packets short.
NoDeadWait ==
    configured /\ ep.eBulkTxState = "WAIT_DATA" => ep.txrdy \/ txIntr

\* A packet put together from the two ends of the storage is still a packet.
PacketFits == Len(ep.fifo) <= MaxPacket

\* The count a TX_COMPLETE event carries is the count the host acknowledged,
\* as usblib.h says of USB_EVENT_TX_COMPLETE.
CompletionCountsAcked == txIntr => ep.usLastTxSize = acked

\* Every byte the client handed over reaches the host, or was flushed when the
\* host configured the device: no interleaving of the client's own attempt to
\* send with the interrupt's leaves data in the ring with nobody to send it.
EveryByteDelivered ==
    \A n \in 1 .. MaxBytes : (accepted >= n) ~> (base + Len(received) >= n)
=============================================================================
