-------------------------- MODULE USBCDCNotifyProofs --------------------------
(***************************************************************************)
(* Proofs about the serial-state notifications: the variables keep their   *)
(* types, the interrupt channel never waits for a completion that cannot   *)
(* come, and the endpoint is handed whole notifications, for every set of  *)
(* error and line bits, for reports from the main loop or from an          *)
(* interrupt, and for any number of reports, resets and configurations.    *)
(***************************************************************************)
EXTENDS USBCDCNotify, SequenceTheorems, TLAPS

-----------------------------------------------------------------------------
(* Every value the driver keeps is a set of the bits it knows.             *)

Calls == [usState : SerialState, isRead : BOOLEAN,
          word : SUBSET (Flags \cup Errors \cup Lines), snapshot : SerialState]

\* What an update leaves in usSerialState is a serial state.
LEMMA CollectIsState ==
    ASSUME call \in Calls, NEW statement \in Updates \ Flagging, NEW old \in SerialState
    PROVE  Collect(statement, old) \in SerialState
BY DEF Calls, Collect, SerialState, Updates, Collecting, Flagging

\* A part of a notification that is added to the FIFO leaves it a sequence of parts.
LEMMA PiecesGrow ==
    ASSUME NEW s \in Seq(Pieces), NEW state \in SerialState
    PROVE  /\ Append(s, RequestPiece) \in Seq(Pieces)
           /\ Append(s, StatePiece(state)) \in Seq(Pieces)
           /\ s \o Notification(state) \in Seq(Pieces)
<1>1. RequestPiece \in Pieces /\ StatePiece(state) \in Pieces
  BY DEF RequestPiece, StatePiece, Pieces, SerialState
<1>2. Notification(state) \in Seq(Pieces)
  BY <1>1 DEF Notification
<1>3. QED
  BY <1>1, <1>2, AppendProperties, ConcatProperties

\* SendSerialState, called by the interrupt, keeps the types of what it changes.
LEMMA SendKeepsType ==
    ASSUME TypeOK, SendFromInterrupt
    PROVE  /\ usSerialState' \in SerialState
           /\ eCDCInterruptState' \in States
           /\ txrdy' \in BOOLEAN /\ fifo' \in Seq(Pieces)
<1>1. CASE txrdy
  BY <1>1 DEF TypeOK, SendFromInterrupt, States
<1>2. CASE ~txrdy
  <2>1. usSerialState \ Errors \in SerialState
    BY DEF TypeOK, SerialState
  <2>2. fifo' \in Seq(Pieces)
    BY <1>2, PiecesGrow DEF TypeOK, SendFromInterrupt
  <2>3. QED
    BY <1>2, <2>1, <2>2 DEF TypeOK, SendFromInterrupt, States
<1>3. QED
  BY <1>1, <1>2

\* ... and waits only for a notification it has put into the endpoint.
LEMMA SendWaitsForPacket ==
    ASSUME SendFromInterrupt, eCDCInterruptState' = "WAIT_DATA"
    PROVE  txrdy'
BY DEF SendFromInterrupt

\* The counts that bound a behaviour are natural numbers below their bounds.
LEMMA CountsGrow ==
    ASSUME TypeOK
    PROVE  /\ counts.reports < MaxReports =>
                [counts EXCEPT !.reports = @ + 1]
                  \in [reports : 0 .. MaxReports, configs : 0 .. MaxConfigs]
           /\ counts.configs < MaxConfigs =>
                [counts EXCEPT !.configs = @ + 1]
                  \in [reports : 0 .. MaxReports, configs : 0 .. MaxConfigs]
BY BoundsAssumption DEF TypeOK

-----------------------------------------------------------------------------

\* The driver starts with every variable in its type ...
LEMMA InitTypeOK == Init => TypeOK
<1> SUFFICES ASSUME Init PROVE TypeOK
  OBVIOUS
<1>1. counts \in [reports : 0 .. MaxReports, configs : 0 .. MaxConfigs]
  BY BoundsAssumption DEF Init
<1>2. usSerialState \in SerialState /\ fifo \in Seq(Pieces) /\ call \in Calls /\ ~call.isRead
  BY EmptySeq DEF Init, SerialState, Calls
<1>3. QED
  BY <1>1, <1>2 DEF Init, TypeOK, Calls, Flags, States, Steps

\* ... and no step of the application, the driver or the host leaves it.
LEMMA NextTypeOK == TypeOK /\ [Next]_vars => TypeOK'
<1> SUFFICES ASSUME TypeOK, [Next]_vars PROVE TypeOK'
  OBVIOUS
<1> USE DEF Updates, Collecting, Flagging, Sending
<1>1. CASE USBDCDCSerialStateChange
  <2>1. PICK usState \in SerialState : call' = [call EXCEPT !.usState = usState]
    BY <1>1 DEF USBDCDCSerialStateChange
  <2>2. call' \in Calls /\ ~call'.isRead
    BY <1>1, <2>1 DEF USBDCDCSerialStateChange, TypeOK, Calls
  <2>3. counts' \in [reports : 0 .. MaxReports, configs : 0 .. MaxConfigs]
    BY <1>1, CountsGrow DEF USBDCDCSerialStateChange
  <2>4. QED
    BY <1>1, <2>2, <2>3 DEF USBDCDCSerialStateChange, TypeOK, Calls, Steps, driver, inEp
<1>2. CASE ReadWord
  <2>1. /\ call' \in Calls
        /\ pc \in Flagging => call'.word \subseteq Flags
        /\ pc \notin Flagging => call'.word \in SerialState
    BY <1>2 DEF ReadWord, TypeOK, Calls, SerialState
  <2>2. QED
    BY <1>2, <2>1 DEF ReadWord, TypeOK, Calls, driver, inEp, ghosts
<1>3. CASE WriteState
  <2>1. usSerialState' \in SerialState
    BY <1>3, CollectIsState DEF WriteState, TypeOK, Calls
  <2>2. call' \in Calls /\ ~call'.isRead
    BY <1>3 DEF WriteState, TypeOK, Calls
  <2>3. pc' \in Steps
    BY <1>3 DEF WriteState, After, Steps
  <2>4. QED
    BY <1>3, <2>1, <2>2, <2>3 DEF WriteState, TypeOK, Calls, inEp, ghosts
<1>4. CASE WriteFlags
  <2>1. usDeferredOpFlags' \in SUBSET Flags
    BY <1>4 DEF WriteFlags, TypeOK, Flags
  <2>2. call' \in Calls /\ ~call'.isRead
    BY <1>4 DEF WriteFlags, TypeOK, Calls
  <2>3. pc' \in Steps
    BY <1>4 DEF WriteFlags, After, Steps
  <2>4. QED
    BY <1>4, <2>1, <2>2, <2>3 DEF WriteFlags, TypeOK, Calls, inEp, ghosts
<1>5. CASE TestState
  BY <1>5 DEF TestState, TypeOK, Steps, driver, inEp, ghosts
<1>6. CASE MarkWaiting \/ MarkIdle
  BY <1>6 DEF MarkWaiting, MarkIdle, TypeOK, Steps, States, inEp, ghosts
<1>7. CASE TakeSnapshot
  <2>1. call' \in Calls /\ ~call'.isRead
    BY <1>7 DEF TakeSnapshot, TypeOK, Calls
  <2>2. QED
    BY <1>7, <2>1 DEF TakeSnapshot, TypeOK, Calls, Steps, driver, inEp, ghosts
<1>8. CASE PutNotification
  <2>1. fifo' \in Seq(Pieces)
    BY <1>8, PiecesGrow DEF PutNotification, TypeOK
  <2>2. pc' \in Steps /\ ~call.isRead
    BY <1>8 DEF PutNotification, TypeOK, Steps
  <2>3. QED
    BY <1>8, <2>1, <2>2 DEF PutNotification, TypeOK, driver, ghosts
<1>9. CASE SendSerialState
  BY <1>9 DEF SendSerialState, TypeOK, Steps, driver, ghosts
<1>10. CASE ProcessNotificationToHost
  <2>1. CASE "SERIAL_STATE_CHANGE" \in usDeferredOpFlags
    BY <1>10, <2>1, SendKeepsType DEF ProcessNotificationToHost, TypeOK, app, ghosts
  <2>2. CASE "SERIAL_STATE_CHANGE" \notin usDeferredOpFlags
    BY <1>10, <2>2 DEF ProcessNotificationToHost, TypeOK, States, app, ghosts
  <2>3. QED
    BY <2>1, <2>2
<1>11. CASE HandleConfigChange
  BY <1>11, CountsGrow DEF HandleConfigChange, TypeOK, States, app, inEp
<1>12. CASE BusReset
  BY <1>12, EmptySeq DEF BusReset, TypeOK, driver, app, ghosts
<1>13. CASE HostTakesNotification
  BY <1>13, EmptySeq DEF HostTakesNotification, TypeOK, driver, app
<1>14. CASE UNCHANGED vars
  BY <1>14 DEF vars, TypeOK, driver, app, inEp, ghosts
<1>15. QED
  BY <1>1, <1>2, <1>3, <1>4, <1>5, <1>6, <1>7, <1>8, <1>9, <1>10, <1>11, <1>12, <1>13, <1>14
     DEF Next, AppStep

\* The driver's variables keep their types: the flag word, the state of the
\* interrupt channel and the collected bits are always values the code knows, and a
\* word that is written back was read from where it is written to.
THEOREM TypeCorrect == Spec => []TypeOK
<1>1. Init => TypeOK
  BY InitTypeOK
<1>2. TypeOK /\ [Next]_vars => TypeOK'
  BY NextTypeOK
<1>3. QED
  BY <1>1, <1>2, PTL DEF Spec

-----------------------------------------------------------------------------
(* NoDeadWait is inductive as it stands: the steps between marking the     *)
(* channel as waiting and handing over the notification are its third      *)
(* disjunct.                                                               *)

\* A step that marks the channel as waiting has written, or goes on to write.
LEMMA NextNoDeadWait == NoDeadWait /\ [Next]_vars => NoDeadWait'
<1> SUFFICES ASSUME NoDeadWait, [Next]_vars,
                    configured', eCDCInterruptState' = "WAIT_DATA"
             PROVE  txrdy' \/ txIntr' \/ pc' \in Sending
  BY DEF NoDeadWait
<1> USE DEF Updates, Collecting, Flagging, Sending
<1>1. CASE USBDCDCSerialStateChange
  BY <1>1 DEF USBDCDCSerialStateChange, NoDeadWait, driver, inEp
<1>2. CASE ReadWord
  BY <1>2 DEF ReadWord, NoDeadWait, driver, inEp
<1>3. CASE WriteState \/ WriteFlags
  <2>1. /\ UNCHANGED <<eCDCInterruptState, txrdy, txIntr, configured>>
        /\ pc \in Updates /\ pc' = After[pc]
    BY <1>3 DEF WriteState, WriteFlags, inEp
  <2>2. pc \in Sending => pc' \in Sending
    BY <2>1 DEF After
  <2>3. QED
    BY <2>1, <2>2 DEF NoDeadWait
<1>4. CASE TestState
  BY <1>4 DEF TestState, NoDeadWait, driver, inEp
<1>5. CASE MarkWaiting \/ TakeSnapshot
  BY <1>5 DEF MarkWaiting, TakeSnapshot
\* A refused write leaves the channel to be marked idle, an accepted one goes on.
<1>6. CASE PutNotification \/ SendSerialState
  BY <1>6 DEF PutNotification, SendSerialState
<1>7. CASE MarkIdle
  BY <1>7 DEF MarkIdle
\* The completion goes on waiting only when it has sent the next notification.
<1>8. CASE ProcessNotificationToHost
  BY <1>8, SendWaitsForPacket DEF ProcessNotificationToHost
<1>9. CASE HandleConfigChange
  BY <1>9 DEF HandleConfigChange
<1>10. CASE BusReset
  BY <1>10 DEF BusReset
<1>11. CASE HostTakesNotification
  BY <1>11 DEF HostTakesNotification
<1>12. CASE UNCHANGED vars
  BY <1>12 DEF vars, NoDeadWait, driver, app, inEp, ghosts
<1>13. QED
  BY <1>1, <1>2, <1>3, <1>4, <1>5, <1>6, <1>7, <1>8, <1>9, <1>10, <1>11, <1>12
     DEF Next, AppStep

\* The interrupt channel never waits for a completion that cannot come: neither
\* a write the endpoint refuses nor a reset or a repeated SET_CONFIGURATION
\* between any two steps of a report leaves it so.
THEOREM NeverDeadWaits == Spec => []NoDeadWait
<1>1. Init => NoDeadWait
  BY DEF Init, NoDeadWait
<1>2. NoDeadWait /\ [Next]_vars => NoDeadWait'
  BY NextNoDeadWait
<1>3. QED
  BY <1>1, <1>2, PTL DEF Spec

-----------------------------------------------------------------------------
(* Whole notifications.  The state of the channel says who may write into  *)
(* the endpoint: the application once it has found the channel idle, the   *)
(* completion while it waits.                                              *)

\* The application is about to write: what its call has put into the FIFO so far.
Writing == {"mark", "markAgain", "clearFlag", "snapshot", "putRequest", "putState", "send"}
Written ==
    IF pc = "putState" THEN <<RequestPiece>>
    ELSE IF pc = "send" THEN Notification(call.snapshot) ELSE << >>

IsNotification(f) == Len(f) = 2 /\ f = Notification(f[2].state)

\* One side has the endpoint: the application while it writes; then a whole
\* notification lies in it or its completion is due; and an idle channel has
\* neither.
OneWriter ==
    /\ pc # "markIdle"
    /\ pc \in Writing =>
        /\ ~txrdy /\ ~txIntr /\ fifo = Written
        /\ pc \notin {"mark", "markAgain"} => eCDCInterruptState = "WAIT_DATA"
    /\ pc \notin Writing =>
        \/ txrdy /\ ~txIntr /\ IsNotification(fifo) /\ eCDCInterruptState = "WAIT_DATA"
        \/ ~txrdy /\ txIntr /\ fifo = << >> /\ eCDCInterruptState = "WAIT_DATA"
        \/ ~txrdy /\ ~txIntr /\ fifo = << >> /\ eCDCInterruptState = "IDLE"

\* It holds from the first SET_CONFIGURATION until a reset or the second one.
Untouched ==
    /\ counts.configs \in Nat
    /\ counts.configs = 0 =>
        /\ ~configured /\ ~txrdy /\ ~txIntr /\ fifo = << >>
        /\ eCDCInterruptState = "UNCONFIGURED" /\ pc \notin Writing /\ pc # "markIdle"
    /\ counts.configs = 1 /\ configured => OneWriter

\* A request structure and a state are a notification.
LEMMA NotificationIs ==
    ASSUME NEW state
    PROVE  /\ IsNotification(Notification(state))
           /\ Append(<<RequestPiece>>, StatePiece(state)) = Notification(state)
           /\ Append(<< >>, RequestPiece) = <<RequestPiece>>
           /\ << >> \o Notification(state) = Notification(state)
<1>1. Notification(state) = <<RequestPiece, StatePiece(state)>>
  BY DEF Notification
<1>2. StatePiece(state).state = state
  BY DEF StatePiece
<1>3. PICK a, b : a = RequestPiece /\ b = StatePiece(state)
  OBVIOUS
<1>4. /\ Len(<<a, b>>) = 2 /\ <<a, b>>[2] = b
      /\ Append(<<a>>, b) = <<a, b>> /\ Append(<< >>, a) = <<a>>
      /\ << >> \o <<a, b>> = <<a, b>>
  <2>1. <<a, b>> \in Seq({a, b})
    OBVIOUS
  <2>2. << >> \o <<a, b>> = <<a, b>>
    BY <2>1, ConcatEmptySeq
  <2>3. Len(<<a, b>>) = 2 /\ <<a, b>>[2] = b
    OBVIOUS
  <2>4. Append(<<a>>, b) = <<a, b>> /\ Append(<< >>, a) = <<a>>
    <3>1. <<a>> \in Seq({a, b}) /\ << >> \in Seq({a, b}) /\ b \in {a, b} /\ a \in {a, b}
      OBVIOUS
    <3>2. Append(<<a>>, b) = <<a>> \o <<b>> /\ Append(<< >>, a) = << >> \o <<a>>
      BY <3>1, AppendIsConcat
    <3>3. << >> \o <<a>> = <<a>>
      BY <3>1, ConcatEmptySeq
    <3>4. <<a>> \o <<b>> = <<a, b>>
      <4>1. <<a>> \in Seq({a, b}) /\ <<b>> \in Seq({a, b}) /\ Len(<<a>>) = 1 /\ Len(<<b>>) = 1
        OBVIOUS
      <4>2. /\ <<a>> \o <<b>> \in Seq({a, b}) /\ Len(<<a>> \o <<b>>) = 2
            /\ (<<a>> \o <<b>>)[1] = a /\ (<<a>> \o <<b>>)[2] = b
        BY <4>1, ConcatProperties
      <4>3. \A i \in 1 .. 2 : (<<a>> \o <<b>>)[i] = <<a, b>>[i]
        BY <4>2
      <4>4. QED
        BY <2>1, <2>3, <4>2, <4>3, SeqEqual
    <3>5. QED
      BY <3>2, <3>3, <3>4
  <2>5. QED
    BY <2>2, <2>3, <2>4
<1>5. QED
  BY <1>1, <1>2, <1>3, <1>4 DEF IsNotification

\* The completion of one notification sends the next or leaves the channel idle.
LEMMA CompletionIsOneWriter ==
    ASSUME OneWriter, ProcessNotificationToHost
    PROVE  OneWriter'
<1>1. /\ txIntr /\ ~txIntr' /\ pc' = pc /\ call' = call /\ pc \notin Writing /\ ~txrdy
      /\ fifo = << >> /\ pc # "markIdle"
  BY DEF OneWriter, ProcessNotificationToHost, app
<1>2. CASE "SERIAL_STATE_CHANGE" \in usDeferredOpFlags
  <2>1. txrdy' /\ fifo' = Notification(usSerialState) /\ eCDCInterruptState' = "WAIT_DATA"
    BY <1>1, <1>2, NotificationIs DEF ProcessNotificationToHost, SendFromInterrupt
  <2>2. IsNotification(fifo')
    BY <2>1, NotificationIs
  <2>3. QED
    BY <1>1, <2>1, <2>2 DEF OneWriter
<1>3. CASE "SERIAL_STATE_CHANGE" \notin usDeferredOpFlags
  BY <1>1, <1>3 DEF ProcessNotificationToHost, OneWriter
<1>4. QED
  BY <1>2, <1>3

\* The application writes into an endpoint that nobody else writes into.
LEMMA WriterKeepsEndpoint ==
    ASSUME OneWriter, AppStep
    PROVE  OneWriter'
<1> USE DEF Writing, Updates, Collecting, Flagging
<1>1. CASE ReadWord
  BY <1>1 DEF ReadWord, OneWriter, Written, driver, inEp
<1>2. CASE WriteState \/ WriteFlags
  BY <1>2 DEF WriteState, WriteFlags, After, OneWriter, Written, inEp
<1>3. CASE TestState
  BY <1>3 DEF TestState, OneWriter, Written, driver, inEp
<1>4. CASE MarkWaiting \/ TakeSnapshot
  BY <1>4 DEF MarkWaiting, TakeSnapshot, OneWriter, Written, driver, inEp
<1>5. CASE PutNotification
  <2>1. ~txrdy /\ ~txIntr /\ fifo = Written
    BY <1>5 DEF PutNotification, OneWriter
  <2>2. fifo' = IF pc = "putRequest" THEN <<RequestPiece>> ELSE Notification(call.snapshot)
    BY <1>5, <2>1, NotificationIs DEF PutNotification, Written
  <2>3. QED
    BY <1>5, <2>1, <2>2 DEF PutNotification, OneWriter, Written, driver
<1>6. CASE SendSerialState
  <2>1. ~txrdy /\ ~txIntr /\ fifo = Notification(call.snapshot)
    BY <1>6 DEF SendSerialState, OneWriter, Written
  <2>2. IsNotification(fifo)
    BY <2>1, NotificationIs
  <2>3. eCDCInterruptState = "WAIT_DATA"
    BY <1>6 DEF SendSerialState, OneWriter
  <2>4. QED
    BY <1>6, <2>1, <2>2, <2>3 DEF SendSerialState, OneWriter, driver
<1>7. CASE MarkIdle
  BY <1>7 DEF MarkIdle, OneWriter
<1>8. QED
  BY <1>1, <1>2, <1>3, <1>4, <1>5, <1>6, <1>7 DEF AppStep

\* Only the first configuration starts it, and a reset or a second one ends it.
LEMMA NextUntouched == TypeOK /\ Untouched /\ [Next]_vars => Untouched'
<1> SUFFICES ASSUME TypeOK, Untouched, [Next]_vars PROVE Untouched'
  OBVIOUS
<1>1. CASE USBDCDCSerialStateChange
  <2>1. /\ UNCHANGED <<eCDCInterruptState, inEp, configured>>
        /\ counts'.configs = counts.configs /\ pc = "return" /\ pc' = "orErrors"
    BY <1>1 DEF USBDCDCSerialStateChange, TypeOK, driver
  <2>2. QED
    BY <2>1 DEF Untouched, OneWriter, Writing, inEp
<1>2. CASE AppStep
  <2>1. UNCHANGED <<configured, counts>>
    BY <1>2 DEF AppStep, ReadWord, WriteState, WriteFlags, TestState, MarkWaiting,
                TakeSnapshot, PutNotification, SendSerialState, MarkIdle, ghosts
  <2>2. CASE counts.configs = 0
    <3>1. eCDCInterruptState # "IDLE" /\ pc \notin Writing /\ pc # "markIdle"
      BY <2>2 DEF Untouched
    <3>2. /\ UNCHANGED <<eCDCInterruptState, inEp>> /\ pc' \notin Writing
          /\ pc' # "markIdle"
      BY <1>2, <3>1 DEF AppStep, ReadWord, WriteState, WriteFlags, TestState, MarkWaiting,
         TakeSnapshot, PutNotification, SendSerialState, MarkIdle, After, Writing,
         Updates, Collecting, Flagging, driver
    <3>3. QED
      BY <2>1, <2>2, <3>2 DEF Untouched, inEp
  <2>3. CASE counts.configs # 0
    BY <1>2, <2>1, <2>3, WriterKeepsEndpoint DEF Untouched
  <2>4. QED
    BY <2>2, <2>3
<1>3. CASE ProcessNotificationToHost
  BY <1>3, CompletionIsOneWriter DEF ProcessNotificationToHost, Untouched, ghosts
\* The first configuration finds the endpoint empty and nobody writing.
<1>4. CASE HandleConfigChange
  <2>1. counts'.configs = counts.configs + 1
    BY <1>4 DEF HandleConfigChange, TypeOK
  <2>2. CASE counts.configs = 0
    <3>1. UNCHANGED <<pc, inEp>> /\ eCDCInterruptState' = "IDLE"
      BY <1>4 DEF HandleConfigChange, app
    <3>2. QED
      BY <2>1, <2>2, <3>1 DEF Untouched, OneWriter, inEp
  <2>3. CASE counts.configs # 0
    BY <2>1, <2>3 DEF Untouched
  <2>4. QED
    BY <2>2, <2>3
<1>5. CASE BusReset
  BY <1>5 DEF BusReset, Untouched, ghosts
<1>6. CASE HostTakesNotification
  <2>1. /\ configured /\ txrdy /\ counts'.configs = counts.configs
        /\ UNCHANGED <<configured, eCDCInterruptState, pc, call>>
        /\ ~txrdy' /\ fifo' = << >> /\ txIntr'
    BY <1>6 DEF HostTakesNotification, driver, app
  <2>2. QED
    BY <2>1 DEF Untouched, OneWriter
<1>7. CASE UNCHANGED vars
  BY <1>7 DEF vars, driver, app, inEp, ghosts, Untouched, OneWriter, Written
<1>8. QED
  BY <1>1, <1>2, <1>3, <1>4, <1>5, <1>6, <1>7 DEF Next

\* Until the first reset or the second SET_CONFIGURATION every packet the endpoint is
\* handed is one whole notification, however the report and the completion interleave.
THEOREM PacketsAreNotifications == Spec => []PacketIsNotification
<1>1. Init => TypeOK /\ Untouched
  BY InitTypeOK DEF Init, Untouched, Writing
<1>2. TypeOK /\ Untouched /\ [Next]_vars => (TypeOK /\ Untouched)'
  BY NextTypeOK, NextUntouched
<1>3. Untouched => PacketIsNotification
  BY DEF Untouched, OneWriter, IsNotification, PacketIsNotification
<1>4. QED
  BY <1>1, <1>2, <1>3, PTL DEF Spec
=============================================================================
