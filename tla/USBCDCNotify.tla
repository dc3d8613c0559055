----------------------------- MODULE USBCDCNotify ------------------------------
(***************************************************************************)
(* Serial-state notifications of usblib/device/usbdcdc.c: the application  *)
(* reports a change (USBDCDCSerialStateChange), the driver sends it on the *)
(* interrupt IN endpoint, one notification at a time, and defers it with a *)
(* flag while one is in flight.                                            *)
(*                                                                         *)
(* Every |= and &= of the driver reads a word and writes it back in two    *)
(* steps (usbdcdc.c defines DISABLE_BIT_BAND); the interrupt may change    *)
(* the word, or send a notification of its own, in between.  When the      *)
(* application reports from an interrupt handler no step of its call is    *)
(* interrupted; when it reports from the main loop every step is.          *)
(***************************************************************************)
EXTENDS Integers, Sequences

CONSTANTS
    Errors,         \* bits of USB_CDC_SERIAL_ERRORS the application reports
    Lines,          \* the other bits of the serial state
    FromMainLoop,   \* is the application's call made from the main loop?
    MaxReports,     \* bound: reports in a behaviour
    MaxConfigs      \* bound: SET_CONFIGURATION requests in a behaviour

ASSUME BitsAssumption == Errors \cap Lines = {}
ASSUME ContextAssumption == FromMainLoop \in BOOLEAN
ASSUME BoundsAssumption ==
    MaxReports \in Nat /\ MaxConfigs \in Nat

SerialState == SUBSET (Errors \cup Lines)
Flags == {"SERIAL_STATE_CHANGE"}
States == {"UNCONFIGURED", "IDLE", "WAIT_DATA"}

\* The statements of a report in which a word is read and written back, in three
\* groups: usSerialState in USBDCDCSerialStateChange, usDeferredOpFlags in
\* SetDeferredOpFlag, usSerialState at the end of SendSerialState.
Collecting == {"orErrors", "clearErrors", "orLines"}
Flagging == {"setFlag", "clearFlag"}
Updates == Collecting \cup Flagging \cup {"clearSent"}
\* The steps of a call that has found the channel idle, before it has sent.
Sending == {"mark", "markAgain", "clearFlag", "snapshot", "putRequest", "putState", "send",
            "markIdle"}
Steps == {"return", "test"} \cup Updates \cup Sending

\* What is written into the FIFO: a notification is a request structure and the
\* serial state.
Pieces == [isRequest : BOOLEAN, state : SerialState]
RequestPiece == [isRequest |-> TRUE, state |-> {}]
StatePiece(state) == [isRequest |-> FALSE, state |-> state]
Notification(state) == <<RequestPiece, StatePiece(state)>>

VARIABLES
    usSerialState,
    usDeferredOpFlags,
    eCDCInterruptState,
    pc,             \* the application's next step
    call,           \* ... and its registers: the state it reports, the word it has
                    \* read (is it read?), the snapshot it sends
    txrdy, fifo,    \* the interrupt IN endpoint and what is in its FIFO
    txIntr,         \* its interrupt is pending
    configured,
    host,           \* the lines in the last notification the host took
    counts

driver == <<usSerialState, usDeferredOpFlags, eCDCInterruptState>>
app == <<pc, call>>
inEp == <<txrdy, fifo, txIntr>>
ghosts == <<host, counts>>
vars == <<driver, app, inEp, configured, ghosts>>

Init ==
    /\ usSerialState = {} /\ usDeferredOpFlags = {}
    /\ eCDCInterruptState = "UNCONFIGURED"
    /\ pc = "return"
    /\ call = [usState |-> {}, isRead |-> FALSE, word |-> {}, snapshot |-> {}]
    /\ txrdy = FALSE /\ fifo = << >> /\ txIntr = FALSE
    /\ configured = FALSE
    /\ host = {}
    /\ counts = [reports |-> 0, configs |-> 0]

\* An interrupt handler runs between two steps of the application's call only
\* when that call is made from the main loop.
Interruptible == FromMainLoop \/ pc = "return"

\* Main-loop code does not go on while an interrupt is pending.
AppRuns == FromMainLoop => ~txIntr

-----------------------------------------------------------------------------
(* USBDCDCSerialStateChange, step by step.                                 *)

USBDCDCSerialStateChange ==
    /\ AppRuns /\ pc = "return" /\ counts.reports < MaxReports
    /\ \E usState \in SerialState : call' = [call EXCEPT !.usState = usState]
    /\ counts' = [counts EXCEPT !.reports = @ + 1]
    /\ pc' = "orErrors"
    /\ UNCHANGED <<driver, inEp, configured, host>>

\* The step after each update ...
After ==
    [orErrors |-> "clearErrors", clearErrors |-> "orLines", orLines |-> "setFlag",
     setFlag |-> "test", clearFlag |-> "snapshot", clearSent |-> "return"]

\* ... and what it makes of usSerialState: errors are ORed in and cleared again,
\* the other bits are ORed in, and the errors that were sent are cleared.
Collect(statement, old) ==
    CASE statement = "orErrors" -> old \cup (call.usState \cap Errors)
      [] statement = "clearErrors" -> old \ Errors
      [] statement = "orLines" -> old \cup (call.usState \ Errors)
      [] statement = "clearSent" -> old \ (call.snapshot \cap Errors)

\* An update reads its word ...
ReadWord ==
    /\ AppRuns /\ pc \in Updates /\ ~call.isRead
    /\ call' = [call EXCEPT !.isRead = TRUE,
                            !.word = IF pc \in Flagging THEN usDeferredOpFlags
                                     ELSE usSerialState]
    /\ UNCHANGED <<driver, pc, inEp, configured, ghosts>>

\* ... and writes it back changed: the serial state ...
WriteState ==
    /\ AppRuns /\ pc \in Updates \ Flagging /\ call.isRead
    /\ usSerialState' = Collect(pc, call.word)
    /\ call' = [call EXCEPT !.isRead = FALSE] /\ pc' = After[pc]
    /\ UNCHANGED <<usDeferredOpFlags, eCDCInterruptState, inEp, configured, ghosts>>

\* ... or the flags (SetDeferredOpFlag).
WriteFlags ==
    /\ AppRuns /\ pc \in Flagging /\ call.isRead
    /\ usDeferredOpFlags' = IF pc = "setFlag" THEN call.word \cup {"SERIAL_STATE_CHANGE"}
                            ELSE call.word \ {"SERIAL_STATE_CHANGE"}
    /\ call' = [call EXCEPT !.isRead = FALSE] /\ pc' = After[pc]
    /\ UNCHANGED <<usSerialState, eCDCInterruptState, inEp, configured, ghosts>>

\* Faulty variant: the notification is sent whether or not the channel is free.
TestStateNever ==
    /\ AppRuns /\ pc = "test" /\ pc' = "mark"
    /\ UNCHANGED <<driver, call, inEp, configured, ghosts>>

\* The notification is sent at once when the interrupt channel is free.
TestState ==
    /\ AppRuns /\ pc = "test"
    /\ pc' = IF eCDCInterruptState = "IDLE" THEN "mark" ELSE "return"
    /\ UNCHANGED <<driver, call, inEp, configured, ghosts>>

\* The channel is marked by USBDCDCSerialStateChange and again by SendSerialState.
MarkWaiting ==
    /\ AppRuns
    /\ \/ pc = "mark" /\ pc' = "markAgain"
       \/ pc = "markAgain" /\ pc' = "clearFlag"
    /\ eCDCInterruptState' = "WAIT_DATA"
    /\ UNCHANGED <<usSerialState, usDeferredOpFlags, call, inEp, configured, ghosts>>

TakeSnapshot ==
    /\ AppRuns /\ pc = "snapshot" /\ pc' = "putRequest"
    /\ call' = [call EXCEPT !.snapshot = usSerialState]
    /\ UNCHANGED <<driver, inEp, configured, ghosts>>

\* The endpoint refuses data while it holds a packet.  Only the second refusal is
\* looked at.
PutNotification ==
    /\ AppRuns
    /\ \/ /\ pc = "putRequest" /\ pc' = "putState"
          /\ fifo' = IF txrdy THEN fifo ELSE Append(fifo, RequestPiece)
       \/ /\ pc = "putState" /\ pc' = IF txrdy THEN "markIdle" ELSE "send"
          /\ fifo' = IF txrdy THEN fifo ELSE Append(fifo, StatePiece(call.snapshot))
    /\ UNCHANGED <<driver, call, txrdy, txIntr, configured, ghosts>>

SendSerialState ==
    /\ AppRuns /\ pc = "send"
    /\ pc' = IF txrdy THEN "markIdle" ELSE "clearSent"
    /\ txrdy' = TRUE
    /\ UNCHANGED <<driver, call, fifo, txIntr, configured, ghosts>>

\* After a refusal the channel is idle "to prevent possible lockup".
MarkIdle ==
    /\ AppRuns /\ pc = "markIdle" /\ pc' = "return"
    /\ eCDCInterruptState' = "IDLE"
    /\ UNCHANGED <<usSerialState, usDeferredOpFlags, call, inEp, configured, ghosts>>

-----------------------------------------------------------------------------
(* Interrupts.                                                             *)

\* Faulty variant: the wrong waiting state.
SendFromInterruptWaitsForClient ==
    IF txrdy
    THEN eCDCInterruptState' = "IDLE" /\ UNCHANGED <<txrdy, fifo, usSerialState>>
    ELSE /\ eCDCInterruptState' = "WAIT_CLIENT"
         /\ txrdy' = TRUE /\ fifo' = fifo \o Notification(usSerialState)
         /\ usSerialState' = usSerialState \ Errors

\* SendSerialState called by the interrupt, which nothing interrupts.
SendFromInterrupt ==
    IF txrdy
    THEN eCDCInterruptState' = "IDLE" /\ UNCHANGED <<txrdy, fifo, usSerialState>>
    ELSE /\ eCDCInterruptState' = "WAIT_DATA"
         /\ txrdy' = TRUE /\ fifo' = fifo \o Notification(usSerialState)
         /\ usSerialState' = usSerialState \ Errors

\* Faulty variant: the channel is idle again without a look at the flag.
ProcessNotificationToHostNoCheck ==
    /\ txIntr /\ Interruptible
    /\ txIntr' = FALSE /\ eCDCInterruptState' = "IDLE"
    /\ UNCHANGED <<usSerialState, usDeferredOpFlags, txrdy, fifo, app,
                   configured, ghosts>>

\* The notification was taken: the next one is sent if the flag asks for it.
ProcessNotificationToHost ==
    /\ txIntr /\ Interruptible
    /\ txIntr' = FALSE
    /\ IF "SERIAL_STATE_CHANGE" \in usDeferredOpFlags
       THEN /\ usDeferredOpFlags' = usDeferredOpFlags \ {"SERIAL_STATE_CHANGE"}
            /\ SendFromInterrupt
       ELSE /\ eCDCInterruptState' = "IDLE"
            /\ UNCHANGED <<usSerialState, usDeferredOpFlags, txrdy, fifo>>
    /\ UNCHANGED <<app, configured, ghosts>>

\* Faulty variant: a channel that waits goes on waiting.
HandleConfigChangeKeepsState ==
    /\ ~configured => ~txIntr
    /\ Interruptible /\ counts.configs < MaxConfigs
    /\ eCDCInterruptState' = IF eCDCInterruptState = "UNCONFIGURED" THEN "IDLE"
                             ELSE eCDCInterruptState
    /\ configured' = TRUE
    /\ counts' = [counts EXCEPT !.configs = @ + 1]
    /\ UNCHANGED <<usSerialState, usDeferredOpFlags, app, inEp, host>>

\* The pass that sees a reset also serves the endpoints' older interrupts.
HandleConfigChange ==
    /\ ~configured => ~txIntr
    /\ Interruptible /\ counts.configs < MaxConfigs
    /\ eCDCInterruptState' = "IDLE" /\ configured' = TRUE
    /\ counts' = [counts EXCEPT !.configs = @ + 1]
    /\ UNCHANGED <<usSerialState, usDeferredOpFlags, app, inEp, host>>

\* A bus reset empties the endpoints; the class driver is not told.
BusReset ==
    /\ configured /\ counts.configs < MaxConfigs
    /\ configured' = FALSE
    /\ txrdy' = FALSE /\ fifo' = << >>
    /\ UNCHANGED <<driver, app, txIntr, ghosts>>

-----------------------------------------------------------------------------
(* The host.                                                               *)

\* A packet that is not one request structure and one state tells the host nothing.
HostTakesNotification ==
    /\ configured /\ txrdy
    /\ host' = IF Len(fifo) = 2 /\ fifo = Notification(fifo[2].state)
               THEN fifo[2].state \cap Lines ELSE host
    /\ txrdy' = FALSE /\ fifo' = << >> /\ txIntr' = TRUE
    /\ UNCHANGED <<driver, app, configured, counts>>

AppStep ==
    \/ ReadWord \/ WriteState \/ WriteFlags \/ TestState \/ MarkWaiting
    \/ TakeSnapshot \/ PutNotification \/ SendSerialState \/ MarkIdle

Next ==
    \/ USBDCDCSerialStateChange \/ AppStep
    \/ ProcessNotificationToHost
    \/ HandleConfigChange \/ BusReset \/ HostTakesNotification

Spec == Init /\ [][Next]_vars

\* A call returns, pending interrupts are taken, and the host polls
\* the interrupt endpoint.
FairSpec ==
    /\ Spec
    /\ WF_vars(AppStep)
    /\ SF_vars(ProcessNotificationToHost) /\ WF_vars(HostTakesNotification)

-----------------------------------------------------------------------------
TypeOK ==
    /\ usSerialState \in SerialState /\ usDeferredOpFlags \in SUBSET Flags
    /\ eCDCInterruptState \in States
    /\ pc \in Steps
    /\ call \in [usState : SerialState, isRead : BOOLEAN,
                 word : SUBSET (Flags \cup Errors \cup Lines), snapshot : SerialState]
    /\ call.isRead => /\ pc \in Updates
                      /\ pc \in Flagging => call.word \subseteq Flags
                      /\ pc \notin Flagging => call.word \in SerialState
    /\ txrdy \in BOOLEAN /\ fifo \in Seq(Pieces) /\ txIntr \in BOOLEAN
    /\ configured \in BOOLEAN
    /\ host \in SUBSET Lines
    /\ counts \in [reports : 0 .. MaxReports, configs : 0 .. MaxConfigs]

\* The driver waits for a notification to be taken only while one is on its way,
\* its interrupt is pending, or the application is about to send it: no refused
\* write and no SET_CONFIGURATION leaves the interrupt channel waiting for ever.
NoDeadWait ==
    configured /\ eCDCInterruptState = "WAIT_DATA" => txrdy \/ txIntr \/ pc \in Sending

\* Until the first reset or the second SET_CONFIGURATION the endpoint is only ever
\* handed one whole notification: the application and the interrupt never write into
\* one packet, and no part of a notification is refused.
PacketIsNotification ==
    configured /\ counts.configs = 1 /\ txrdy =>
        Len(fifo) = 2 /\ fifo = Notification(fifo[2].state)

\* A change reported while a notification is in flight reaches the host once
\* that one is taken, unless the bus is reset or the device reconfigured.
PendingChangeIsSent ==
    \A n \in 1 .. MaxConfigs :
        (/\ configured /\ counts.configs = n /\ txrdy /\ pc = "return"
         /\ eCDCInterruptState = "WAIT_DATA"
         /\ "SERIAL_STATE_CHANGE" \in usDeferredOpFlags)
        ~> (\/ host = usSerialState \cap Lines
            \/ ~configured \/ counts.configs # n)

\* What the comment on USBDCDCSerialStateChange says of errors: those just reported
\* are sent on the next notification, here the one that the same call sends.  Violated
\* (MCUSBCDCNotify_errors.cfg): the bits are gone before anything is sent.
ErrorsAreSent == pc = "putRequest" => call.usState \cap Errors \subseteq call.snapshot
=============================================================================
