------------------------------ MODULE USBDEnum -------------------------------
(***************************************************************************)
(* Endpoint 0 of the device stack, usblib/device/usbdenum.c: the state     *)
(* machine of USBDeviceEnumHandler, the standard requests, and the control *)
(* transfers of a host.                                                    *)
(*                                                                         *)
(* A request moves data in packets of EP0_MAX_PACKET_SIZE.  A byte is      *)
(* named by where it comes from, <<source, value, offset>>, so that a byte *)
(* lost, repeated or taken from the wrong place is seen.  A handler of the *)
(* code is an operator on s, the record of the instance, the controller    *)
(* and the class, as it leaves it.                                         *)
(*                                                                         *)
(* The controller is external: it holds one packet of either direction for *)
(* endpoint 0, answers NAK while a received packet is unread, completes    *)
(* the status stage by itself, and drops what is left to send at a SETUP.  *)
(***************************************************************************)
EXTENDS Integers, Sequences

CONSTANTS
    EP0_MAX_PACKET_SIZE,
    ConfDescSize,       \* sizeof(tConfigDescriptor)
    Configs,            \* by configuration, the sizes of its sections
    DeviceDescSize,     \* bLength of the device descriptor
    Strings,            \* the sizes of the string descriptors in the table
    Languages,          \* the languages of the strings, in the order of the table
    StraySize,          \* the size read where no string descriptor is
    Alternates,         \* alternate settings of the one interface
    USB_MAX_INTERFACES_PER_DEVICE,
    NUM_USB_EP,
    HasDataSent, HasDataReceived,   \* the callbacks that the class has
    Menus,              \* sets of requests: a host makes the requests of one of them
    Abandons,           \* the host may give up a transfer that reads data
    LateSetups,         \* a SETUP may arrive between the two readings of an interrupt
    ResetMidTransfer    \* a bus reset may cut a transfer short

DEFAULT_CONFIG_ID == 1

ASSUME SizesAssumption ==
    /\ EP0_MAX_PACKET_SIZE \in Nat /\ ConfDescSize \in 1 .. EP0_MAX_PACKET_SIZE
    /\ Configs \in Seq(Seq(Nat))
    /\ \A i \in DOMAIN Configs :
           Configs[i] # << >> /\ Configs[i][1] >= ConfDescSize
    /\ DeviceDescSize \in Nat /\ StraySize \in Nat
    /\ Strings \in Seq(Nat) /\ Strings # << >>
    /\ Languages \in Seq(Nat) /\ Languages # << >>
    /\ DEFAULT_CONFIG_ID \in DOMAIN Configs /\ 0 \in Alternates
    /\ NUM_USB_EP \in Nat /\ USB_MAX_INTERFACES_PER_DEVICE \in Nat \ {0}
    /\ {HasDataSent, HasDataReceived, LateSetups} \subseteq BOOLEAN

\* What the standard says of the lengths of requests: those that carry out something
\* have no data, those that read or write have some, and the values that are answered
\* without regard to the length are asked for at theirs.
WellFormed(r) ==
    /\ r = [kind |-> r.kind, value |-> r.value, length |-> r.length] /\ r.length \in Nat
    /\ r.kind \in {"SET_FEATURE", "CLEAR_FEATURE", "SET_HALT", "CLEAR_HALT", "FEATURE_OTHER",
                   "SET_ADDRESS", "SET_CONFIGURATION", "SET_INTERFACE", "CLASS_NONE"} =>
           r.length = 0
    /\ r.kind \in {"GET_DEVICE", "GET_CONFIG", "GET_STRING", "CLASS_IN", "CLASS_OUT"} =>
           r.length > 0
    /\ r.kind \in {"GET_STATUS_DEVICE", "GET_STATUS_INTERFACE", "GET_STATUS_EP"} => r.length = 2
    /\ r.kind \in {"GET_CONFIGURATION", "GET_INTERFACE"} => r.length = 1
    /\ r.kind \in {"SET_FEATURE", "CLEAR_FEATURE", "SET_ADDRESS", "SET_CONFIGURATION",
                   "GET_CONFIG", "GET_INTERFACE"} => r.value \in Nat
    /\ r.kind = "GET_STRING" => r.value \in Nat \X Nat

ASSUME MenusAssumption == \A menu \in Menus : \A r \in menu : WellFormed(r)

VARIABLES
    inst,       \* g_psUSBDevice[0]
    csr,        \* the controller: endpoint 0, address register, endpoint setup
    irq,        \* interrupts raised and not yet read
    seen,       \* interrupts read and cleared, and not yet served
    class,      \* the class driver: its buffer and the data it was last told of
    host

vars == <<inst, csr, irq, seen, class, host>>

\* What the host does not know of the device's settings.
Unknown == -1
NoRequest == [kind |-> "NONE", value |-> 0, length |-> 0]
NoPointer == <<"null", 0, 0>>
Endpoints == {"in", "out"} \X (1 .. NUM_USB_EP - 1)

Init ==
    /\ inst = [eEP0State |-> "IDLE", ulDevAddress |-> 0, pending |-> FALSE,
               ulConfiguration |-> DEFAULT_CONFIG_ID, altSetting |-> 0,
               pEP0Data |-> NoPointer, ulEP0DataRemain |-> 0, ulOUTDataSize |-> 0,
               remoteWake |-> 0, ucHalt |-> [e \in Endpoints |-> 0],
               ucConfigIndex |-> 0, ucConfigSection |-> 0, ucSectionOffset |-> 0]
    /\ csr = [rx |-> << >>, tx |-> << >>, txrdy |-> FALSE, dataend |-> FALSE,
              sendstall |-> FALSE, sentstall |-> FALSE, faddr |-> 0, alternate |-> 0]
    /\ irq = {} /\ seen = {}
    /\ class = [buffer |-> << >>, told |-> << >>]
    /\ \E menu \in Menus :
       host = [menu |-> menu, stage |-> "idle", req |-> NoRequest, got |-> << >>,
               sent |-> 0, retried |-> FALSE, late |-> FALSE, trouble |-> FALSE, addr |-> 0,
               config |-> Unknown, alt |-> Unknown, wake |-> 0,
               halt |-> [e \in Endpoints |-> 0]]

Least(a, b) == IF a <= b THEN a ELSE b

-----------------------------------------------------------------------------
(* The controller's endpoint 0, drivers/usb.c.                             *)

\* USBDevEndpointDataAck: RXRDYC, with DATAEND for the last packet.
DataAck(s, last) == [s EXCEPT !.csr.rx = << >>, !.csr.dataend = @ \/ last]

\* USBEndpointDataPut and USBEndpointDataSend refuse while a packet waits to be sent.
DataPut(s, bytes) == IF s.csr.txrdy THEN s ELSE [s EXCEPT !.csr.tx = @ \o bytes]
DataSend(s, last) ==
    IF s.csr.txrdy THEN s ELSE [s EXCEPT !.csr.txrdy = TRUE, !.csr.dataend = @ \/ last]

\* USBDCDStallEP0.
StallEP0(s) ==
    [s EXCEPT !.csr.sendstall = TRUE, !.csr.rx = << >>, !.inst.eEP0State = "STALL"]

-----------------------------------------------------------------------------
(* Data to the host.                                                       *)

\* n bytes from pointer p on, and the pointer behind them.
Bytes(p, n) == [i \in 1 .. n |-> <<p[1], p[2], p[3] + i>>]
Behind(p, n) == <<p[1], p[2], p[3] + n>>

\* The last packet goes out; pfnDataSent, when there is one to call, takes note.
LastSent(s) ==
    DataSend([s EXCEPT !.inst.eEP0State = "STATUS",
                       !.inst.ulOUTDataSize = IF HasDataSent THEN 0 ELSE @], TRUE)

\* Faulty variant: the transfer never passes on to its status stage.
EP0StateTxStays(s) ==
    LET n == Least(s.inst.ulEP0DataRemain, EP0_MAX_PACKET_SIZE)
        p == s.inst.pEP0Data
    IN  DataSend(DataPut([s EXCEPT !.inst.eEP0State = "TX", !.inst.ulEP0DataRemain = @ - n,
                                   !.inst.pEP0Data = Behind(p, n)], Bytes(p, n)),
                 n # EP0_MAX_PACKET_SIZE)

\* USBDEP0StateTx: a full packet is followed by another, if only an empty one.
EP0StateTx(s) ==
    LET n == Least(s.inst.ulEP0DataRemain, EP0_MAX_PACKET_SIZE)
        p == s.inst.pEP0Data
        a == DataPut([s EXCEPT !.inst.eEP0State = "TX", !.inst.ulEP0DataRemain = @ - n,
                               !.inst.pEP0Data = Behind(p, n)], Bytes(p, n))
    IN  IF n = EP0_MAX_PACKET_SIZE THEN DataSend(a, FALSE) ELSE LastSent(a)

\* Offset o of section k of configuration c, and the bytes of the sections.
SectionAt(c, k, o) == <<"config", <<c, k>>, o>>
ConfigByte == {"config"} \X (Nat \X Nat) \X Nat

\* Faulty variant: a packet does not stop where the section does.
SendSectionOverruns(c) ==
    [x \in (0 .. Len(Configs[c + 1])) \X Nat \X Nat \X Seq(ConfigByte) |->
        LET k == x[1] o == x[2] n == x[3] sent == x[4]
            m == Least(Configs[c + 1][k + 1] - o, n)
            more == sent \o Bytes(SectionAt(c, k, o), n)
        IN  IF n = 0 THEN x
            ELSE IF o + m = Configs[c + 1][k + 1] THEN <<k + 1, 0, 0, more>>
            ELSE <<k, o + m, 0, more>>]

\* One turn of the loop over the sections of configuration c, which has come to
\* offset o of section k, has n bytes left to send, and has sent the bytes in sent.
SendSection(c) ==
    [x \in (0 .. Len(Configs[c + 1])) \X Nat \X Nat \X Seq(ConfigByte) |->
        LET k == x[1] o == x[2] n == x[3] sent == x[4]
            m == Least(Configs[c + 1][k + 1] - o, n)
            more == sent \o Bytes(SectionAt(c, k, o), m)
        IN  IF n = 0 THEN x
            ELSE IF o + m = Configs[c + 1][k + 1] THEN <<k + 1, 0, n - m, more>>
            ELSE <<k, o + m, n - m, more>>]

\* The loop, when n bytes are sent from offset o of section k.  It ends with n = 0
\* after a turn for each section at most.
SectionBytes(c, k, o, n) ==
    LET turns == Len(Configs[c + 1])
        at[i \in 0 .. turns] ==
            IF i = 0 THEN <<k, o, n, << >>>> ELSE SendSection(c)[at[i - 1]]
    IN  at[turns]

\* USBDEP0StateTxConfig: the first packet starts with a copy of the header that
\* has the total length filled in.
EP0StateTxConfig(s) ==
    LET c == s.inst.ucConfigIndex
        n == Least(s.inst.ulEP0DataRemain, EP0_MAX_PACKET_SIZE)
        first == s.inst.ucConfigSection = 0 /\ s.inst.ucSectionOffset = 0
        h == IF first THEN Least(n, ConfDescSize) ELSE 0
        at == IF first /\ Configs[c + 1][1] = h THEN <<1, 0>>
              ELSE IF first THEN <<0, h>>
              ELSE <<s.inst.ucConfigSection, s.inst.ucSectionOffset>>
        body == SectionBytes(c, at[1], at[2], n - h)
        remain == IF Len(Configs[c + 1]) <= body[1] THEN 0 ELSE s.inst.ulEP0DataRemain - n
        a == DataPut(DataPut(s, Bytes(<<"header", c, 0>>, h)), body[4])
        b == [a EXCEPT !.inst.eEP0State = "TX_CONFIG", !.inst.ulEP0DataRemain = remain,
                       !.inst.ucConfigSection = body[1], !.inst.ucSectionOffset = body[2],
                       !.inst.pEP0Data = IF remain # 0 THEN SectionAt(c, body[1], body[2])
                                         ELSE @]
    IN  IF n = EP0_MAX_PACKET_SIZE THEN DataSend(b, FALSE) ELSE LastSent(b)

\* n bytes of the handler's own, sent at once.
SendValue(s, source, value, n) ==
    EP0StateTx([s EXCEPT !.inst.pEP0Data = <<source, value, 0>>, !.inst.ulEP0DataRemain = n])

-----------------------------------------------------------------------------
(* The standard requests.                                                  *)

\* USBDGetStatus, by the recipient.
GetStatus(s, r) ==
    LET a == DataAck(s, FALSE)
    IN  CASE r.kind = "GET_STATUS_DEVICE" -> SendValue(a, "status", s.inst.remoteWake, 2)
          [] r.kind = "GET_STATUS_INTERFACE" -> SendValue(a, "interface_status", 0, 2)
          [] r.kind = "GET_STATUS_EP" /\ r.value \in Endpoints ->
                 SendValue(a, "halt", s.inst.ucHalt[r.value], 2)
          [] OTHER -> StallEP0(a)

\* USBDSetFeature and USBDClearFeature of the device, v = 1 and v = 0.  The test is of
\* one bit, which other features than the remote wakeup have too.
REMOTE_WAKE == 1
DeviceFeature(s, r, v) ==
    LET a == DataAck(s, TRUE)
    IN  IF r.value % 2 = REMOTE_WAKE THEN [a EXCEPT !.inst.remoteWake = v] ELSE StallEP0(a)

\* USBDSetFeature of an endpoint's halt: only the status that is reported changes,
\* no endpoint is stalled.
SetHalt(s, r) ==
    LET a == DataAck(s, TRUE)
    IN  IF r.value \in Endpoints THEN [a EXCEPT !.inst.ucHalt[r.value] = 1] ELSE StallEP0(a)

\* USBDClearFeature of an endpoint's halt.  It lets NUM_USB_EP itself pass, no number
\* of an endpoint, whose place is behind the row: the other row, or the next field.
ClearHalt(s, r) ==
    LET a == DataAck(s, TRUE)
    IN  CASE r.value \in Endpoints -> [a EXCEPT !.inst.ucHalt[r.value] = 0]
          [] r.value = <<"in", NUM_USB_EP>> -> [a EXCEPT !.inst.ucHalt[<<"out", 1>>] = 0]
          [] r.value = <<"out", NUM_USB_EP>> -> [a EXCEPT !.inst.ucConfigSection = 0]
          [] OTHER -> StallEP0(a)

\* Another feature of an endpoint, another recipient, and USBDSyncFrame.
Unsupported(s) == StallEP0(DataAck(s, TRUE))

\* Faulty variant: the address register is written at once.
SetAddressAtOnce(s, r) ==
    [DataAck(s, TRUE) EXCEPT !.inst.ulDevAddress = r.value, !.csr.faddr = r.value,
                             !.inst.eEP0State = "STATUS"]

\* USBDSetAddress: the address register waits for the end of the status stage.
SetAddress(s, r) ==
    [DataAck(s, TRUE) EXCEPT !.inst.ulDevAddress = r.value, !.inst.pending = TRUE,
                             !.inst.eEP0State = "STATUS"]

\* The end of USBDGetDescriptor, with a null pointer when nothing is to be sent.
SendDescriptor(s, r, config) ==
    LET a == [s EXCEPT !.inst.ulEP0DataRemain = Least(@, r.length)]
    IN  IF s.inst.pEP0Data = NoPointer THEN s
        ELSE IF config THEN EP0StateTxConfig(a) ELSE EP0StateTx(a)

\* USBDCDConfigDescGetSize: the sizes of the sections of a configuration, added up.
SectionStart ==
    [c \in 0 .. Len(Configs) - 1 |->
        LET start[k \in 0 .. Len(Configs[c + 1])] ==
                IF k = 0 THEN 0 ELSE start[k - 1] + Configs[c + 1][k]
        IN  start]
TotalLength(c) == SectionStart[c][Len(Configs[c + 1])]

\* USBDStringIndexFromRequest: the place in the table of string "index" of a language,
\* the groups of the languages following descriptor 0.  The index is not compared
\* with the size of a group.
StringsPerLang == (Len(Strings) - 1) \div Len(Languages)
NotFound == -1
StringIndexFromRequest(lang, index) ==
    IF index = 0 THEN 0
    ELSE IF 1 + StringsPerLang * Len(Languages) # Len(Strings)
            \/ \A k \in DOMAIN Languages : Languages[k] # lang THEN NotFound
    ELSE LET k == CHOOSE k \in DOMAIN Languages :
                      /\ Languages[k] = lang
                      /\ \A j \in 1 .. k - 1 : Languages[j] # lang
         IN  StringsPerLang * (k - 1) + index

\* ppStringDescriptors[i][0], of a string of the table or of what lies behind it.
StringSize(i) == IF i < Len(Strings) THEN Strings[i + 1] ELSE StraySize

\* USBDGetDescriptor, by the type of the descriptor.  The pointer and the count
\* of an earlier request survive the stall of a string or of an unknown type.
GetDescriptor(s, r) ==
    LET a == DataAck(s, FALSE)
        point(p, n) == [a EXCEPT !.inst.pEP0Data = p, !.inst.ulEP0DataRemain = n]
        c == r.value
        config == [point(SectionAt(c, 0, 0), TotalLength(c))
                      EXCEPT !.inst.ucConfigSection = 0, !.inst.ucSectionOffset = 0,
                             !.inst.ucConfigIndex = c]
        i == StringIndexFromRequest(r.value[1], r.value[2])
    IN  CASE r.kind = "GET_DEVICE" ->
                 SendDescriptor(point(<<"device", 0, 0>>, DeviceDescSize), r, FALSE)
          [] r.kind = "GET_CONFIG" /\ c + 1 \in DOMAIN Configs ->
                 SendDescriptor(config, r, TRUE)
          [] r.kind = "GET_CONFIG" /\ c + 1 \notin DOMAIN Configs ->
                 StallEP0(point(NoPointer, 0))
          [] r.kind = "GET_STRING" /\ i # NotFound ->
                 SendDescriptor(point(<<"string", i, 0>>, StringSize(i)), r, FALSE)
          [] OTHER -> SendDescriptor(StallEP0(a), r, FALSE)

\* USBDGetConfiguration: 0 while an address is pending.
GetConfiguration(s) ==
    SendValue(DataAck(s, FALSE), "configuration",
              IF s.inst.pending THEN 0 ELSE s.inst.ulConfiguration, 1)

\* USBDGetInterface.  Interfaces but the one with alternate settings keep setting 0.
GetInterface(s, r) ==
    LET a == DataAck(s, FALSE)
    IN  IF s.inst.pending THEN SendValue(a, "interface", 0, 1)
        ELSE IF r.value >= USB_MAX_INTERFACES_PER_DEVICE THEN StallEP0(a)
        ELSE SendValue(a, "interface", IF r.value = 0 THEN s.inst.altSetting ELSE 0, 1)

\* Faulty variant: configurations are counted from 0.
SetConfigurationFromZero(s, r) ==
    LET a == DataAck(s, TRUE)
    IN  IF r.value >= Len(Configs) THEN StallEP0(a)
        ELSE [a EXCEPT !.inst.ulConfiguration = r.value,
                       !.csr.alternate = IF r.value # 0 THEN 0 ELSE @]

\* USBDSetConfiguration: USBDeviceConfig sets the endpoints up for alternate
\* setting 0; the setting on record stays.
SetConfiguration(s, r) ==
    LET a == DataAck(s, TRUE)
    IN  IF r.value > Len(Configs) THEN StallEP0(a)
        ELSE [a EXCEPT !.inst.ulConfiguration = r.value,
                       !.csr.alternate = IF r.value # 0 THEN 0 ELSE @]

\* Faulty variant: the setting is stored before a match is found.
SetInterfaceUnchecked(s, r) ==
    [(IF r.value \in Alternates THEN DataAck(s, TRUE) ELSE StallEP0(DataAck(s, TRUE)))
        EXCEPT !.inst.altSetting = r.value]

\* USBDSetInterface: the endpoints are set up again only when the setting on
\* record changes.
SetInterface(s, r) ==
    LET a == DataAck(s, TRUE)
    IN  IF r.value \notin Alternates THEN StallEP0(a)
        ELSE IF r.value = s.inst.altSetting THEN a
        ELSE [a EXCEPT !.inst.altSetting = r.value, !.csr.alternate = r.value]

\* pfnRequestHandler, as HandleRequests of usbdcdc.c uses endpoint 0:
\* USBDCDRequestDataEP0 before the packet is acknowledged, USBDCDSendDataEP0,
\* a request with neither, and a stall.
ClassRequest(s, r) ==
    CASE r.kind = "CLASS_OUT" ->
             [DataAck(s, FALSE) EXCEPT
                 !.inst.eEP0State = "RX", !.inst.pEP0Data = <<"buffer", 0, 0>>,
                 !.inst.ulOUTDataSize = r.length, !.inst.ulEP0DataRemain = r.length,
                 !.class.buffer = << >>]
      [] r.kind = "CLASS_IN" ->
             LET a == [DataAck(s, FALSE) EXCEPT !.inst.ulOUTDataSize = r.length]
             IN  SendValue(a, "class", 0, r.length)
      [] r.kind = "CLASS_NONE" -> DataAck(s, FALSE)
      [] OTHER -> StallEP0(s)

\* USBDReadAndDispatchRequest.
ReadAndDispatchRequest(s, r) ==
    CASE r.kind \in {"GET_STATUS_DEVICE", "GET_STATUS_INTERFACE", "GET_STATUS_EP",
                     "GET_STATUS_OTHER"} -> GetStatus(s, r)
      [] r.kind = "SET_FEATURE" -> DeviceFeature(s, r, 1)
      [] r.kind = "CLEAR_FEATURE" -> DeviceFeature(s, r, 0)
      [] r.kind = "SET_HALT" -> SetHalt(s, r)
      [] r.kind = "CLEAR_HALT" -> ClearHalt(s, r)
      [] r.kind \in {"FEATURE_OTHER", "SYNC_FRAME"} -> Unsupported(s)
      [] r.kind = "SET_ADDRESS" -> SetAddress(s, r)
      [] r.kind \in {"GET_DEVICE", "GET_CONFIG", "GET_STRING", "GET_OTHER"} ->
             GetDescriptor(s, r)
      [] r.kind = "GET_CONFIGURATION" -> GetConfiguration(s)
      [] r.kind = "SET_CONFIGURATION" -> SetConfiguration(s, r)
      [] r.kind = "GET_INTERFACE" -> GetInterface(s, r)
      [] r.kind = "SET_INTERFACE" -> SetInterface(s, r)
      [] OTHER -> ClassRequest(s, r)

-----------------------------------------------------------------------------
(* The interrupt.                                                          *)

PacketReady(s) == s.csr.rx # << >>

\* The status stage is over: a pending address takes effect.
ApplyAddress(s) ==
    IF ~s.inst.pending THEN s
    ELSE [s EXCEPT !.inst.pending = FALSE, !.csr.faddr = s.inst.ulDevAddress]

\* pfnDataReceived, when there is one to call and something was waited for.
ToldOfData(s) ==
    IF ~HasDataReceived \/ s.inst.ulOUTDataSize = 0 THEN s
    ELSE [s EXCEPT !.inst.ulOUTDataSize = 0,
                   !.class.told = <<s.inst.ulOUTDataSize, s.class.buffer>>]

\* Faulty variant: the count is decremented before it is asked for the last packet.
ReceiveDecrementsFirst(s) ==
    LET n == Least(Least(s.inst.ulEP0DataRemain, EP0_MAX_PACKET_SIZE), Len(s.csr.rx))
        last == s.inst.ulEP0DataRemain - n <= EP0_MAX_PACKET_SIZE
        a == DataAck([s EXCEPT !.class.buffer = @ \o SubSeq(s.csr.rx, 1, n)], last)
        b == [a EXCEPT !.inst.pEP0Data = Behind(@, n), !.inst.ulEP0DataRemain = @ - n]
    IN  IF ~last THEN b
        ELSE ToldOfData([b EXCEPT !.inst.eEP0State = "IDLE"])

\* The receive state: the packet's data, nothing when no packet is there, goes to the
\* class's buffer, and the class is told when no more is expected.
Receive(s) ==
    LET remain == s.inst.ulEP0DataRemain
        n == Least(Least(remain, EP0_MAX_PACKET_SIZE), Len(s.csr.rx))
        last == remain <= EP0_MAX_PACKET_SIZE
        a == DataAck([s EXCEPT !.class.buffer = @ \o SubSeq(s.csr.rx, 1, n)], last)
        b == [a EXCEPT !.inst.pEP0Data = Behind(@, n), !.inst.ulEP0DataRemain = @ - n]
    IN  IF ~last THEN b
        ELSE ToldOfData([b EXCEPT !.inst.eEP0State = "IDLE"])

\* Faulty variant: the end of the status stage does not look for a new packet.
EnumHandlerStatusOnly(s, r) ==
    CASE s.inst.eEP0State = "STATUS" -> ApplyAddress([s EXCEPT !.inst.eEP0State = "IDLE"])
      [] s.inst.eEP0State = "IDLE" ->
             IF PacketReady(s) THEN ReadAndDispatchRequest(s, r) ELSE s
      [] s.inst.eEP0State = "TX" -> EP0StateTx(s)
      [] s.inst.eEP0State = "TX_CONFIG" -> EP0StateTxConfig(s)
      [] s.inst.eEP0State = "RX" -> Receive(s)
      [] OTHER -> IF s.csr.sentstall
                  THEN [s EXCEPT !.csr.sentstall = FALSE, !.inst.eEP0State = "IDLE"] ELSE s

\* USBDeviceEnumHandler.  A SETUP that arrives outside IDLE and STATUS is not seen.
EnumHandler(s, r) ==
    CASE s.inst.eEP0State = "STATUS" ->
             LET a == ApplyAddress([s EXCEPT !.inst.eEP0State = "IDLE"])
             IN  IF PacketReady(s) THEN ReadAndDispatchRequest(a, r) ELSE a
      [] s.inst.eEP0State = "IDLE" ->
             IF PacketReady(s) THEN ReadAndDispatchRequest(s, r) ELSE s
      [] s.inst.eEP0State = "TX" -> EP0StateTx(s)
      [] s.inst.eEP0State = "TX_CONFIG" -> EP0StateTxConfig(s)
      [] s.inst.eEP0State = "RX" -> Receive(s)
      [] s.inst.eEP0State = "STALL" ->
             IF s.csr.sentstall
             THEN [s EXCEPT !.csr.sentstall = FALSE, !.inst.eEP0State = "IDLE"] ELSE s

\* USBDeviceEnumResetHandler: the endpoint's state is left as it was.
EnumResetHandler(s) ==
    [s EXCEPT !.inst.remoteWake = 0, !.inst.ulConfiguration = DEFAULT_CONFIG_ID,
              !.inst.altSetting = 0]

\* USB0DeviceIntHandler reads and clears the interrupt status.
USB0DeviceIntHandler ==
    /\ irq # {} /\ seen = {}
    /\ seen' = irq /\ irq' = {}
    /\ UNCHANGED <<inst, csr, class, host>>

\* USBDeviceIntHandlerInternal, which it calls, serves a reset first, then endpoint 0,
\* whose own status is read only now: it may show what has come since, and whose
\* interrupt is still to be read.
USBDeviceIntHandlerInternal ==
    /\ seen # {} /\ seen' = {}
    /\ LET s == [inst |-> inst, csr |-> csr, class |-> class]
           a == IF "RESET" \in seen THEN EnumResetHandler(s) ELSE s
       IN  \E b \in {IF "EP0" \in seen THEN EnumHandler(a, host.req) ELSE a} :
               inst' = b.inst /\ csr' = b.csr /\ class' = b.class
    /\ UNCHANGED <<irq, host>>

-----------------------------------------------------------------------------
(* The host, and the controller's side of each transaction.                *)

EP0Interrupt == irq' = irq \cup {"EP0"}

\* The data the host sends in an OUT transfer.
OutData(n) == Bytes(<<"out", 0, 0>>, n)

Stage(r) == IF r.length = 0 THEN "statusIn" ELSE IF r.kind = "CLASS_OUT" THEN "out" ELSE "in"

\* What a host that keeps to the standard may ask for now.
Legal(r) ==
    r.kind \in {"SET_INTERFACE", "GET_INTERFACE"} => host.config \in DOMAIN Configs

\* The transfer is over.
Over(h, trouble) ==
    [h EXCEPT !.stage = "idle", !.req = NoRequest, !.got = << >>, !.sent = 0,
              !.retried = FALSE, !.late = FALSE, !.trouble = trouble]

\* The device answers at the address the host uses.
Found == host.addr = csr.faddr

\* No interrupt is raised or being served.
Settled == irq = {} /\ seen = {}

\* A SETUP packet: the controller takes it at any time, in place of what it held.  It
\* is late when endpoint 0's interrupt has been read and its status has not.
Setup(r, again, trouble) ==
    LET late == "EP0" \in seen \/ (again /\ host.late)
    IN  /\ "EP0" \in seen => LateSetups
        /\ csr' = [csr EXCEPT !.rx = <<(<<"setup", 0, 0>>)>>, !.tx = << >>, !.txrdy = FALSE,
                              !.dataend = FALSE]
        /\ host' = [host EXCEPT !.stage = Stage(r), !.req = r, !.got = << >>, !.sent = 0,
                                !.retried = again, !.late = late, !.trouble = trouble \/ late]
        /\ class' = [buffer |-> << >>, told |-> << >>]
        /\ EP0Interrupt
        /\ UNCHANGED <<inst, seen>>

HostRequest ==
    /\ host.stage = "idle" /\ Found
    /\ \E r \in host.menu : Legal(r) /\ Setup(r, FALSE, host.trouble)

\* An IN transaction takes the packet that is ready; an ended transfer gives an
\* empty one.
CanRead ==
    /\ host.stage = "in" /\ Found
    /\ csr.rx = << >> /\ ~csr.sendstall /\ (csr.txrdy \/ csr.dataend)
HostIn ==
    /\ CanRead
    /\ host' = [host EXCEPT !.got = @ \o csr.tx,
                            !.stage = IF Len(csr.tx) < EP0_MAX_PACKET_SIZE
                                         \/ Len(host.got \o csr.tx) >= host.req.length
                                      THEN "statusOut" ELSE @]
    /\ csr' = [csr EXCEPT !.tx = << >>, !.txrdy = FALSE]
    /\ EP0Interrupt
    /\ UNCHANGED <<inst, seen, class>>

CanWrite == host.stage = "out" /\ Found /\ csr.rx = << >> /\ ~csr.sendstall /\ ~csr.dataend
HostOut ==
    /\ CanWrite
    /\ LET n == Least(EP0_MAX_PACKET_SIZE, host.req.length - host.sent)
       IN  /\ csr' = [csr EXCEPT !.rx = SubSeq(OutData(host.sent + n), host.sent + 1,
                                               host.sent + n)]
           /\ host' = [host EXCEPT !.sent = @ + n,
                                   !.stage = IF host.sent + n = host.req.length
                                             THEN "statusIn" ELSE @]
    /\ EP0Interrupt
    /\ UNCHANGED <<inst, seen, class>>

\* The host's own record of what it has set.
Believe(r) ==
    CASE r.kind = "SET_ADDRESS" -> [host EXCEPT !.addr = r.value]
      [] r.kind = "SET_CONFIGURATION" -> [host EXCEPT !.config = r.value, !.alt = Unknown]
      [] r.kind = "SET_INTERFACE" -> [host EXCEPT !.alt = r.value]
      [] r.kind = "SET_FEATURE" -> [host EXCEPT !.wake = 1]
      [] r.kind = "CLEAR_FEATURE" -> [host EXCEPT !.wake = 0]
      [] r.kind = "SET_HALT" -> [host EXCEPT !.halt[r.value] = 1]
      [] r.kind = "CLEAR_HALT" -> [host EXCEPT !.halt[r.value] = 0]
      [] OTHER -> host

\* The host took the last packet full: it leaves the empty packet that the device
\* sends behind it, and the device is still sending.
EndedOnFullPacket ==
    /\ host.stage = "statusOut" /\ host.got # << >>
    /\ Len(host.got) % EP0_MAX_PACKET_SIZE = 0 /\ Len(host.got) >= host.req.length

\* The status stage.
CanFinish ==
    host.stage \in {"statusIn", "statusOut"} /\ Found /\ csr.rx = << >> /\ ~csr.sendstall
HostStatus ==
    /\ CanFinish
    /\ csr' = [csr EXCEPT !.tx = << >>, !.txrdy = FALSE, !.dataend = FALSE]
    /\ host' = Over(Believe(host.req), EndedOnFullPacket \/ host.late)
    /\ EP0Interrupt
    /\ UNCHANGED <<inst, seen, class>>

\* The controller answers STALL.
IsStalled == host.stage # "idle" /\ Found /\ csr.sendstall
HostSeesStall ==
    /\ IsStalled
    /\ csr' = [csr EXCEPT !.sendstall = FALSE, !.sentstall = TRUE]
    /\ host' = Over(host, TRUE)
    /\ EP0Interrupt
    /\ UNCHANGED <<inst, seen, class>>

\* Nothing moves any more: the host times out and makes the request again.
HostRetries ==
    /\ host.stage # "idle" /\ Found /\ Settled
    /\ ~CanRead /\ ~CanWrite /\ ~CanFinish /\ ~IsStalled
    /\ Setup(host.req, TRUE, host.trouble)

\* The host drops a transfer that only reads, long after the device's last answer.
HostAbandons ==
    /\ Abandons /\ host.stage \in {"in", "statusOut"}
    /\ Settled /\ ~IsStalled
    /\ host' = Over(host, TRUE)
    /\ UNCHANGED <<inst, csr, irq, seen, class>>

\* The device no longer answers a host in the middle of a transfer.
Lost == host.stage # "idle" /\ ~Found /\ Settled

\* A bus reset: the controller's endpoint 0 and address register are cleared.
BusReset ==
    /\ ResetMidTransfer \/ (host.stage = "idle" /\ Settled) \/ Lost
    /\ csr' = [csr EXCEPT !.rx = << >>, !.tx = << >>, !.txrdy = FALSE, !.dataend = FALSE,
                          !.sendstall = FALSE, !.sentstall = FALSE, !.faddr = 0]
    /\ irq' = {"RESET"}
    /\ host' = [Over(host, host.trouble \/ host.stage # "idle") EXCEPT
                    !.addr = 0, !.wake = 0, !.config = Unknown, !.alt = Unknown]
    /\ UNCHANGED <<inst, seen, class>>

HostNext ==
    \/ HostRequest \/ HostIn \/ HostOut \/ HostStatus \/ HostSeesStall
    \/ HostRetries \/ HostAbandons \/ BusReset

Next == USB0DeviceIntHandler \/ USBDeviceIntHandlerInternal \/ HostNext

Spec == Init /\ [][Next]_vars

\* Interrupts are served, and a host that has begun a transfer goes on with it, or
\* resets the bus when there is no device any more.
FairSpec ==
    /\ Spec
    /\ WF_vars(USB0DeviceIntHandler) /\ WF_vars(USBDeviceIntHandlerInternal)
    /\ WF_vars(HostIn) /\ WF_vars(HostOut) /\ WF_vars(HostStatus)
    /\ WF_vars(HostSeesStall) /\ WF_vars(HostRetries) /\ WF_vars(Lost /\ BusReset)

-----------------------------------------------------------------------------
TypeOK ==
    /\ inst.eEP0State \in {"IDLE", "TX", "TX_CONFIG", "RX", "STATUS", "STALL"}
    /\ inst.pending \in BOOLEAN /\ inst.ulDevAddress \in Nat
    /\ inst.ulConfiguration \in 0 .. Len(Configs) /\ inst.altSetting \in Alternates
    /\ inst.ulEP0DataRemain \in Nat /\ inst.ulOUTDataSize \in Nat
    /\ inst.remoteWake \in {0, 1} /\ inst.ucHalt \in [Endpoints -> {0, 1}]
    /\ inst.ucConfigIndex \in 0 .. Len(Configs) - 1
    /\ inst.ucConfigSection \in 0 .. Len(Configs[inst.ucConfigIndex + 1])
    /\ csr.faddr \in Nat /\ csr.alternate \in Alternates
    /\ Len(csr.rx) <= EP0_MAX_PACKET_SIZE /\ Len(csr.tx) <= EP0_MAX_PACKET_SIZE
    /\ irq \subseteq {"EP0", "RESET"} /\ seen \subseteq {"EP0", "RESET"}

\* What the device owes the host that asks for r, in the host's view: the
\* descriptors, and what the host itself has set, if it knows.
ConfigBytes ==
    [c \in 0 .. Len(Configs) - 1 |->
        [i \in 1 .. TotalLength(c) |->
            LET k == CHOOSE j \in 0 .. Len(Configs[c + 1]) - 1 :
                         SectionStart[c][j] < i /\ i <= SectionStart[c][j + 1]
            IN  IF i <= ConfDescSize THEN <<"header", c, i>>
                ELSE <<"config", <<c, k>>, i - SectionStart[c][k]>>]]

Known(v, S) == IF v = Unknown THEN S ELSE {v}

\* Where the string of a language is, NotFound when the language has no such string.
StringAt(v) ==
    IF v[2] \in 0 .. StringsPerLang THEN StringIndexFromRequest(v[1], v[2]) ELSE NotFound

Answers(r) ==
    CASE r.kind = "GET_DEVICE" -> {Bytes(<<"device", 0, 0>>, DeviceDescSize)}
      [] r.kind = "GET_CONFIG" /\ r.value + 1 \in DOMAIN Configs -> {ConfigBytes[r.value]}
      [] r.kind = "GET_STRING" /\ StringAt(r.value) # NotFound ->
             {Bytes(<<"string", StringAt(r.value), 0>>, Strings[StringAt(r.value) + 1])}
      [] r.kind = "GET_STATUS_DEVICE" -> {Bytes(<<"status", host.wake, 0>>, 2)}
      [] r.kind = "GET_STATUS_INTERFACE" -> {Bytes(<<"interface_status", 0, 0>>, 2)}
      [] r.kind = "GET_STATUS_EP" /\ r.value \in Endpoints ->
             {Bytes(<<"halt", host.halt[r.value], 0>>, 2)}
      [] r.kind = "GET_CONFIGURATION" ->
             {Bytes(<<"configuration", v, 0>>, 1) : v \in Known(host.config, 0 .. Len(Configs))}
      [] r.kind = "GET_INTERFACE" /\ r.value = 0 ->
             {Bytes(<<"interface", v, 0>>, 1) : v \in Known(host.alt, Alternates)}
      [] r.kind = "GET_INTERFACE" /\ r.value \in 1 .. USB_MAX_INTERFACES_PER_DEVICE - 1 ->
             {Bytes(<<"interface", 0, 0>>, 1)}
      [] r.kind = "CLASS_IN" -> {Bytes(<<"class", 0, 0>>, r.length)}
      [] OTHER -> {}

\* The requests without an answer that the device must carry out.
Commands(r) ==
    \/ r.kind \in {"SET_ADDRESS", "CLASS_OUT", "CLASS_NONE"}
    \/ r.kind \in {"SET_FEATURE", "CLEAR_FEATURE"} /\ r.value = REMOTE_WAKE
    \/ r.kind \in {"SET_HALT", "CLEAR_HALT"} /\ r.value \in Endpoints
    \/ r.kind = "SET_CONFIGURATION" /\ r.value <= Len(Configs)
    \/ r.kind = "SET_INTERFACE" /\ r.value \in Alternates

Valid(r) == Commands(r) \/ Answers(r) # {}

\* What the host reads is a prefix of the answer to the request it made, cut at
\* the length it asked for, and complete when the transfer goes on to its status
\* stage: no byte is lost or repeated where a packet or a section ends, no data
\* of a dropped transfer is taken for the new one, and what a request set reads back.
\* A transfer whose SETUP was late is left out: a packet of it may be skipped.
TransferIntact ==
    host.stage \in {"in", "statusOut"} /\ ~host.late =>
        \/ host.stage = "in" /\ host.got = << >>
        \/ \E a \in Answers(host.req) :
               LET owed == SubSeq(a, 1, Least(Len(a), host.req.length))
               IN  /\ Len(host.got) <= Len(owed)
                   /\ host.got = SubSeq(owed, 1, Len(host.got))
                   /\ host.stage = "statusOut" => host.got = owed

\* A request is refused exactly when the device has nothing for it, whatever was
\* dropped, refused or reset before.
RefusesOnlyInvalid ==
    [][/\ csr.sendstall /\ ~csr'.sendstall /\ irq' # {"RESET"}
               => ~Valid(host.req)
       /\ host.stage \in {"statusIn", "statusOut"} /\ host'.stage = "idle"
               /\ ~host'.trouble /\ irq' # {"RESET"}
               => Valid(host.req)]_vars

\* "This prevents the devices address from changing and not properly responding to the
\* status phase" (USBDSetAddress, usbdenum.c:1770): the address changes once the host
\* has seen the status stage of SET_ADDRESS, and before the next interrupt is over.  A
\* SET_ADDRESS that comes between the two status readings breaks it (MCUSBDEnum_late.cfg).
AddressWaits ==
    ~Found => inst.pending /\ host.stage = "idle" /\ "EP0" \in irq \cup seen

\* The device answers at the address the host uses.  A SET_ADDRESS whose SETUP was late
\* may change it too soon, and no other request can.
AddressFollowsStatus == AddressWaits \/ (host.late /\ host.req.kind = "SET_ADDRESS")

\* The class is told of data only when its buffer holds all that this transfer's
\* host has sent: "This callback is made when data has been received following
\* to a call to USBDCDRequestDataEP0" (usblib.h).  A late SETUP is left out: the class
\* may be told before anything has been received.
DataReceivedIsWhole ==
    [][class'.told # class.told /\ class'.told # << >> /\ ~host.late =>
           /\ class'.told[1] = host.req.length
           /\ class'.told[2] = OutData(host.req.length)]_vars

\* A SETUP that is not late, nor behind a dropped or refused transfer, a late one, or one
\* that ended on a full packet, is served at once: the host has no need to repeat it,
\* though its interrupt may have merged with that of the status stage before.
ServedTheFirstTime == host.retried => host.trouble

\* Every transfer ends, also those that follow a dropped one: each SETUP the
\* device mistakes for progress of the old transfer brings that one to its end.
RequestsAnswered == host.stage # "idle" ~> host.stage = "idle"
=============================================================================
