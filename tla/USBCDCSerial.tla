---------------------------- MODULE USBCDCSerial -----------------------------
(***************************************************************************)
(* Control requests against received data in usblib/device/usbdcdc.c.      *)
(*                                                                         *)
(* The host sends data on the bulk OUT endpoint and line-state,            *)
(* line-coding and break requests on endpoint 0; both kinds are numbered   *)
(* together, in the order in which the controller accepts them.  A control *)
(* change must wait until the client has consumed the data before it, and  *)
(* reception is blocked in the meantime; the start-of-frame tick retries   *)
(* what was deferred.                                                      *)
(*                                                                         *)
(* Everything here runs in interrupt context: a handler is one step.  The  *)
(* receive buffer is the bounded queue that USBBufferRx implements, and    *)
(* the client is the UART bridge of examples/beaglebone/usb_dev_serial.    *)
(***************************************************************************)
EXTENDS Integers, Sequences

CONSTANTS
    RxCapacity,     \* bytes the receive buffer holds
    MaxPacket,      \* DATA_OUT_EP_MAX_SIZE
    MaxSent,        \* bound: bytes and requests of the host in a behaviour
    MaxResets,      \* bound: bus resets and disconnections in a behaviour
    Durations       \* break durations the host asks for, in ticks

\* The values of an unsigned short.
WordMax == 65535
Word16 == 0 .. WordMax

ASSUME CapacityAssumption ==
    RxCapacity \in Nat \ {0} /\ MaxPacket \in Nat \ {0}
ASSUME BoundsAssumption ==
    MaxSent \in Nat /\ MaxResets \in Nat /\ Durations \subseteq Word16

Kinds == {"break", "lineState", "lineCoding"}

\* The flag that defers a control change of each kind; together RX_BLOCK_OPS.
DeferFlag ==
    [break |-> "SEND_BREAK", lineState |-> "LINE_STATE_CHANGE",
     lineCoding |-> "LINE_CODING_CHANGE"]
RX_BLOCK_OPS == {DeferFlag[k] : k \in Kinds}
Flags == RX_BLOCK_OPS \cup {"CLEAR_BREAK", "PACKET_RX"}

VARIABLES
    cdc,        \* tCDCSerInstance, the fields that matter here
    rx,         \* the receive buffer
    fifo,       \* what is still in the FIFO of the current packet
    rxrdy,      \* the OUT endpoint holds a packet
    rxIntr,     \* its interrupt is pending
    ep0,        \* the request or data stage waiting on endpoint 0, if any
    client,     \* the UART bridge: sending a break, last byte it has consumed
    frames,     \* the host sends frames: the bus is up and not suspended
    want,       \* by kind, the number of the last request the device took
    done,       \* by kind, the number of the last change the client was told
    sent, resets

vars == <<cdc, rx, fifo, rxrdy, rxIntr, ep0, client, frames, want, done, sent, resets>>
epVars == <<fifo, rxrdy, rxIntr>>

Instance == [usDeferredOpFlags : SUBSET Flags,
             bRxBlocked        : BOOLEAN,
             usBreakDuration   : Word16,
             eCDCRequestState  : {"IDLE", "WAIT_DATA"},
             bConnected        : BOOLEAN]
Requests == [kind : Kinds \cup {"setLineCoding"}, duration : Word16, id : 1 .. MaxSent]

Init ==
    /\ cdc = [usDeferredOpFlags |-> {}, bRxBlocked |-> FALSE,
              usBreakDuration |-> 0, eCDCRequestState |-> "IDLE",
              bConnected |-> FALSE]
    /\ rx = << >> /\ fifo = << >> /\ rxrdy = FALSE /\ rxIntr = FALSE
    /\ ep0 = << >>
    /\ client = [breaking |-> FALSE, last |-> 0] /\ frames = FALSE
    /\ want = [k \in Kinds |-> 0] /\ done = [k \in Kinds |-> 0]
    /\ sent = 0 /\ resets = 0

-----------------------------------------------------------------------------
(* The helpers of the class driver.  d collects what a handler does to the *)
(* instance, the client and the record of what the client was told.        *)

Now == [cdc |-> cdc, breaking |-> client.breaking, done |-> done]

SetFlag(d, f) == [d EXCEPT !.cdc.usDeferredOpFlags = @ \cup {f}]
ClearFlag(d, f) == [d EXCEPT !.cdc.usDeferredOpFlags = @ \ {f}]
IsSet(d, f) == f \in d.cdc.usDeferredOpFlags

\* DeviceConsumedAllData: the client keeps no data back, so what it is asked
\* for is what the receive buffer still holds.
DeviceConsumedAllData == rx = << >>

SendBreak(d, bSend) ==
    LET c == ClearFlag(ClearFlag(d, "SEND_BREAK"), "CLEAR_BREAK")
    IN  [(IF bSend THEN SetFlag(c, "CLEAR_BREAK") ELSE c)
            EXCEPT !.breaking = bSend]

\* The client is told of a line-state or line-coding change.
SendChange(d, k) == [ClearFlag(d, DeferFlag[k]) EXCEPT !.done[k] = want[k]]

\* The client is told of the break request it was asked for.
SendBreakRequest(d, bSend) == [SendBreak(d, bSend) EXCEPT !.done["break"] = want["break"]]

\* What the handlers collected becomes the next state, while the client takes
\* n bytes of q (USBUARTPrimeTransmit: none while it sends a break).
Apply(d, q, n) ==
    /\ cdc' = d.cdc /\ done' = d.done
    /\ rx' = SubSeq(q, n + 1, Len(q))
    /\ client' = [breaking |-> d.breaking,
                  last |-> IF n = 0 THEN client.last ELSE q[n]]

\* The number of bytes the client may take in one go.
Takes(d, q) == IF d.breaking THEN {0} ELSE 0 .. Len(q)

\* Faulty variant: the packet is read without asking how much room there is.
SignalRxAvailableWhole(d) ==
    LET q == rx \o fifo
    IN  /\ fifo' = << >> /\ rxrdy' = FALSE
        /\ \E taken \in Takes(d, q) : Apply(ClearFlag(d, "PACKET_RX"), q, taken)

\* USB_EVENT_RX_AVAILABLE: the receive buffer reads what it has room for
\* (USBDCDCPacketRead), a packet that is read whole is acknowledged, and the
\* client starts to send.
SignalRxAvailable(d) ==
    LET n == IF RxCapacity - Len(rx) < Len(fifo) THEN RxCapacity - Len(rx)
             ELSE Len(fifo)
        q == rx \o SubSeq(fifo, 1, n)
        e == IF rxrdy /\ n = Len(fifo) THEN ClearFlag(d, "PACKET_RX") ELSE d
    IN  /\ fifo' = SubSeq(fifo, n + 1, Len(fifo))
        /\ rxrdy' = (rxrdy /\ n < Len(fifo))
        /\ \E taken \in Takes(e, q) : Apply(e, q, taken)

-----------------------------------------------------------------------------
(* The interrupt.                                                          *)

\* One pass of USBDeviceIntHandlerInternal reads the interrupt status once and
\* serves endpoint 0 before the others: a packet is served first only when it
\* was there before the request.
EndpointTurn == ep0 # << >> /\ fifo # << >> => fifo[1] < ep0[1].id

\* Faulty variant: a packet that arrives while reception is blocked is not flagged.
ProcessDataFromHostNoFlag ==
    /\ rxIntr /\ EndpointTurn
    /\ rxIntr' = FALSE
    /\ IF ~rxrdy \/ cdc.bRxBlocked
       THEN UNCHANGED <<cdc, rx, fifo, rxrdy, client, done>>
       ELSE SignalRxAvailable(SetFlag(Now, "PACKET_RX"))
    /\ UNCHANGED <<ep0, frames, want, sent, resets>>

\* ProcessDataFromHost: the packet is flagged, and signalled unless reception
\* is blocked.
ProcessDataFromHost ==
    /\ rxIntr /\ EndpointTurn
    /\ rxIntr' = FALSE
    /\ IF ~rxrdy
       THEN UNCHANGED <<cdc, rx, fifo, rxrdy, client, done>>
       ELSE LET d == SetFlag(Now, "PACKET_RX")
            IN  IF cdc.bRxBlocked
                THEN Apply(d, rx, 0) /\ UNCHANGED <<fifo, rxrdy>>
                ELSE SignalRxAvailable(d)
    /\ UNCHANGED <<ep0, frames, want, sent, resets>>

\* Faulty variant: a request that waits does not block reception.
CheckAndSendNoBlock(d, k, bSend) ==
    IF ~DeviceConsumedAllData THEN SetFlag(d, DeferFlag[k])
    ELSE [(IF k = "break" THEN SendBreak(d, bSend) ELSE ClearFlag(d, DeferFlag[k]))
             EXCEPT !.done[k] = ep0[1].id]

\* A request of kind k is flagged and, if the client has consumed all data,
\* passed on at once; otherwise it waits and blocks reception.
CheckAndSend(d, k, bSend) ==
    IF ~DeviceConsumedAllData THEN [SetFlag(d, DeferFlag[k]) EXCEPT !.cdc.bRxBlocked = TRUE]
    ELSE [(IF k = "break" THEN SendBreak(d, bSend) ELSE ClearFlag(d, DeferFlag[k]))
             EXCEPT !.done[k] = ep0[1].id]

\* HandleRequests for SET_CONTROL_LINE_STATE and SEND_BREAK.
HandleChange(k) ==
    /\ ep0 # << >> /\ ep0[1].kind = k
    /\ want' = [want EXCEPT ![k] = ep0[1].id]
    /\ LET d == IF k = "break" THEN [Now EXCEPT !.cdc.usBreakDuration = ep0[1].duration]
                ELSE Now
       IN  Apply(CheckAndSend(d, k, ep0[1].duration # 0), rx, 0)
    /\ ep0' = << >>
    /\ UNCHANGED <<epVars, frames, sent, resets>>

\* HandleEP0Data for the data stage of SET_LINE_CODING.  The stack hands over the
\* size that was asked for, however much arrived, and that is the size of a line
\* coding: the return for no data and the stall for another size are never taken.
HandleEP0Data ==
    /\ ep0 # << >> /\ ep0[1].kind = "lineCoding"
    /\ cdc.eCDCRequestState = "WAIT_DATA"
    /\ want' = [want EXCEPT !["lineCoding"] = ep0[1].id]
    /\ LET d == [Now EXCEPT !.cdc.eCDCRequestState = "IDLE"]
       IN  Apply(CheckAndSend(d, "lineCoding", FALSE), rx, 0)
    /\ ep0' = << >>
    /\ UNCHANGED <<epVars, frames, sent, resets>>

\* HandleRequests for SET_LINE_CODING: the data stage is asked for.
HandleSetLineCoding ==
    /\ ep0 # << >> /\ ep0[1].kind = "setLineCoding"
    /\ cdc' = [cdc EXCEPT !.eCDCRequestState = "WAIT_DATA"]
    /\ ep0' = << >>
    /\ UNCHANGED <<rx, epVars, client, frames, want, done, sent, resets>>

\* Faulty variant: the tick ends a break only when it counts down to zero exactly.
TickBreakExact(d) ==
    IF ~IsSet(d, "CLEAR_BREAK") THEN d
    ELSE IF d.cdc.usBreakDuration = 1 THEN SendBreak(d, FALSE)
    ELSE IF d.cdc.usBreakDuration = 0 THEN d
    ELSE [d EXCEPT !.cdc.usBreakDuration = @ - 1]

\* Faulty variant: one deferred change at a time, after which reception resumes.
TickDeferredOnce(d) ==
    [(IF IsSet(d, "SEND_BREAK") THEN SendBreakRequest(d, TRUE)
      ELSE IF IsSet(d, "LINE_STATE_CHANGE") THEN SendChange(d, "lineState")
      ELSE d) EXCEPT !.cdc.bRxBlocked = FALSE]

\* CDCTickHandler: a break that has lasted long enough is ended.
TickBreak(d) ==
    IF ~IsSet(d, "CLEAR_BREAK") THEN d
    ELSE IF d.cdc.usBreakDuration <= 1 THEN SendBreak(d, FALSE)
    ELSE [d EXCEPT !.cdc.usBreakDuration = @ - 1]

\* CDCTickHandler: what was deferred is passed on, and reception resumes.
TickDeferred(d) ==
    LET d1 == IF IsSet(d, "SEND_BREAK") THEN SendBreakRequest(d, TRUE) ELSE d
        d2 == IF IsSet(d1, "LINE_STATE_CHANGE") THEN SendChange(d1, "lineState") ELSE d1
        d3 == IF IsSet(d2, "LINE_CODING_CHANGE") THEN SendChange(d2, "lineCoding") ELSE d2
    IN  IF d3.cdc.usDeferredOpFlags \cap RX_BLOCK_OPS = {}
        THEN [d3 EXCEPT !.cdc.bRxBlocked = FALSE] ELSE d3

\* CDCTickHandler, from the start-of-frame interrupt: a bus without frames has no
\* ticks.
CDCTickHandler ==
    /\ frames
    /\ cdc.usDeferredOpFlags # {}
    /\ LET d1 == TickBreak(Now)
           d2 == IF DeviceConsumedAllData THEN TickDeferred(d1) ELSE d1
       IN  IF ~d2.cdc.bRxBlocked /\ IsSet(d2, "PACKET_RX")
           THEN SignalRxAvailable(d2)
           ELSE Apply(d2, rx, 0) /\ UNCHANGED <<fifo, rxrdy>>
    /\ UNCHANGED <<rxIntr, ep0, frames, want, sent, resets>>

\* HandleConfigChange: the client is told, and flushes its buffers, only when it
\* was not connected.
HandleConfigChange ==
    /\ frames /\ ~cdc.bConnected
    /\ cdc' = [cdc EXCEPT !.bConnected = TRUE, !.eCDCRequestState = "IDLE"]
    /\ rx' = << >>
    /\ UNCHANGED <<epVars, ep0, client, frames, want, done, sent, resets>>

\* HandleDisconnect: what was deferred stays deferred, and no frame reaches the
\* device until it is attached again.  The controller's endpoints are empty by
\* the time the device is configured again.
HandleDisconnect ==
    /\ cdc.bConnected /\ resets < MaxResets
    /\ cdc' = [cdc EXCEPT !.bConnected = FALSE]
    /\ fifo' = << >> /\ rxrdy' = FALSE /\ rxIntr' = FALSE /\ ep0' = << >>
    /\ frames' = FALSE
    /\ resets' = resets + 1
    /\ UNCHANGED <<rx, client, want, done, sent>>

\* A bus reset that the host follows with SET_CONFIGURATION, with no disconnect
\* event in between.
ResetAndReconfigure ==
    /\ cdc.bConnected /\ resets < MaxResets
    /\ cdc' = [cdc EXCEPT !.eCDCRequestState = "IDLE"]
    /\ fifo' = << >> /\ rxrdy' = FALSE /\ rxIntr' = FALSE /\ ep0' = << >>
    /\ frames' = TRUE
    /\ resets' = resets + 1
    /\ UNCHANGED <<rx, client, want, done, sent>>

-----------------------------------------------------------------------------
(* The host and the client.                                                *)

\* The device is attached, the host suspends the bus or resumes it.
FramesComeOrGo ==
    /\ frames' = ~frames
    /\ UNCHANGED <<cdc, rx, epVars, ep0, client, want, done, sent, resets>>

\* The endpoint accepts a packet when the last one has been acknowledged.
HostSendsPacket ==
    /\ frames /\ cdc.bConnected /\ ~rxrdy
    /\ \E n \in 1 .. MaxPacket :
           /\ sent + n <= MaxSent
           /\ fifo' = [i \in 1 .. n |-> sent + i]
           /\ sent' = sent + n
    /\ rxrdy' = TRUE /\ rxIntr' = TRUE
    /\ UNCHANGED <<cdc, rx, ep0, client, frames, want, done, resets>>

Request(k, dur) == [kind |-> k, duration |-> dur, id |-> sent + 1]

\* One control transfer at a time; SET_LINE_CODING has a data stage.
HostSendsRequest ==
    /\ frames /\ cdc.bConnected /\ ep0 = << >> /\ sent < MaxSent
    /\ \/ /\ cdc.eCDCRequestState = "IDLE"
          /\ \/ ep0' = <<Request("lineState", 0)>>
             \/ ep0' = <<Request("setLineCoding", 0)>>
             \/ \E dur \in Durations : ep0' = <<Request("break", dur)>>
       \/ /\ cdc.eCDCRequestState = "WAIT_DATA"
          /\ ep0' = <<Request("lineCoding", 0)>>
    /\ sent' = sent + 1
    /\ UNCHANGED <<cdc, rx, epVars, client, frames, want, done, resets>>

\* The UART's transmit interrupt: USBUARTPrimeTransmit.
ClientReads ==
    /\ ~client.breaking
    /\ \E n \in 1 .. Len(rx) : Apply(Now, rx, n)
    /\ UNCHANGED <<epVars, ep0, frames, want, sent, resets>>

HandleRequest ==
    \/ HandleSetLineCoding \/ HandleEP0Data
    \/ HandleChange("break") \/ HandleChange("lineState")

Next ==
    \/ HostSendsPacket \/ HostSendsRequest \/ FramesComeOrGo \/ ClientReads
    \/ ProcessDataFromHost \/ HandleRequest \/ CDCTickHandler
    \/ HandleConfigChange \/ HandleDisconnect \/ ResetAndReconfigure

Spec == Init /\ [][Next]_vars

\* Pending interrupts are taken, the tick runs while frames come, and the UART
\* drains the receive buffer.  Nothing is asked of the host: it may never attach
\* or resume a device again.
FairSpec ==
    /\ Spec
    /\ WF_vars(ProcessDataFromHost) /\ WF_vars(HandleRequest)
    /\ WF_vars(CDCTickHandler) /\ WF_vars(ClientReads)

-----------------------------------------------------------------------------
TypeOK ==
    /\ cdc \in Instance
    /\ rx \in Seq(1 .. MaxSent) /\ Len(rx) <= RxCapacity
    /\ fifo \in Seq(1 .. MaxSent) /\ Len(fifo) <= MaxPacket
    /\ rxrdy \in BOOLEAN /\ rxIntr \in BOOLEAN
    /\ ep0 \in Seq(Requests) /\ Len(ep0) <= 1
    /\ client \in [breaking : BOOLEAN, last : 0 .. MaxSent]
    /\ frames \in BOOLEAN
    /\ want \in [Kinds -> 0 .. MaxSent] /\ done \in [Kinds -> 0 .. MaxSent]
    /\ sent \in 0 .. MaxSent /\ resets \in 0 .. MaxResets

\* Data that follows a line-state or line-coding change on the wire does not
\* reach the client before the change does: deferring it blocks reception, and
\* neither a second request, nor a tick, nor an expiring break unblocks it early.
\* (After a bus reset the flag of a lost packet may let a tick read a new one
\* before an older request is served.)
DataWaitsForControl ==
    resets = 0 => \A k \in {"lineState", "lineCoding"} :
        want[k] > done[k] => client.last < want[k] /\ \A i \in 1 .. Len(rx) : rx[i] < want[k]

\* Reception that is blocked with a packet waiting has a flag set that makes the
\* tick act: CDCTickHandler looks at bRxBlocked only when some flag is set.
BlockedIsFlagged ==
    cdc.bRxBlocked /\ rxrdy /\ ~rxIntr => cdc.usDeferredOpFlags # {}

\* While frames come: every packet is read in the end, however control changes
\* and breaks block reception; every line change reaches the client; every break
\* ends.  When the frames stop the tick stops, and what waits for it is taken up
\* by the ticks when they come again.
PacketIsRead == rxrdy ~> ~rxrdy \/ ~frames
ChangeIsDelivered ==
    \A k \in {"lineState", "lineCoding"} :
        want[k] > done[k] ~> want[k] = done[k] \/ ~frames
BreakEnds == client.breaking ~> ~client.breaking \/ ~frames
=============================================================================
