# Verification of the StarterWare USB device stack and Ethernet driver

This project models two parts of the BeagleBone StarterWare tree that this
repository carries (`BBB-firmware/starterwarefree-code`): the USB device library
`usblib` (ring buffer, USB buffer, bulk and CDC-serial class drivers, endpoint 0
and enumeration, with the parts of the controller, the host and the client that
they share state with) and the descriptor rings of the Ethernet driver, lwIP's
port for the CPSW. TLC model-checks each module on small instances; TLAPS proves
the theorems listed below for every value of the constants.

The paths below are relative to
`src/BBB-firmware/starterwarefree-code/` unless they say otherwise.

## 1. The system

The repository is a collection: U-Boot trees, a QNX board support package,
tutorials, and the StarterWare firmware library. The only sizeable part with
logic of its own that is not vendored from a larger project is StarterWare, and
within it `usblib` and the network port, where several contexts share state
without locks. The other parts are listed in section 1.9.

A USB device application is a stack:

    host  <->  controller (FIFOs, packet-ready bits, interrupts)
                   |
            usbdenum.c   interrupt dispatcher, endpoint 0, enumeration
                   |
       usbdbulk.c / usbdcdc.c / usbdhid.c / usbdmsc.c / usbdcomp.c
                   |               ^
              usbbuffer.c      usbtick.c (start-of-frame tick)
                   |
             usbringbuf.c
                   |
              application  (main loop, or UART interrupt)

There are two contexts: interrupt handlers, all of one priority, which run to
their end, and the main loop, which an interrupt may cut anywhere.

### 1.1 Ring buffer (`usblib/usbringbuf.c`)

State: `pucBuf`, `ulSize`, `ulWriteIndex`, `ulReadIndex`; one slot stays free.
Operations: write/read one byte or a block, advance an index over bytes the
caller moved itself, flush, and the space queries. Interactions: none, but its
two users are in different contexts. `UpdateIndexAtomic` (95-129) is not atomic:
its `IntDisable` is commented out; `USBRingBufAdvanceWrite` (620-628) updates the
write index without it, and its header warns that this is for the caller to guard.
Correct when: it is a bounded first-in first-out stream; full and empty are told
apart; a contiguous block never crosses the end of the storage nor fills the
free slot; an overrun loses the oldest bytes only.

### 1.2 USB buffer (`usblib/usbbuffer.c`)

State: one ring, the direction, the class driver's transfer and query functions,
the client's callback. Transmit: `USBBufferWrite` and `USBBufferDataWritten`
fill the ring and call `ScheduleNextTransmission`; `USB_EVENT_TX_COMPLETE`
(`HandleTxComplete`) advances the read index and schedules the next packet.
Receive: `USB_EVENT_RX_AVAILABLE` (`HandleRxAvailable`) reads the packet into
the free space in one or two blocks; the client takes the data in its callback
or with `USBBufferRead`.
Hard: `ScheduleNextTransmission` runs from the client and from the interrupt and
reads the transmit state and the ring one after the other.
Correct when: every byte is delivered once and in order and none is stranded.

### 1.3 Bulk class driver (`usblib/device/usbdbulk.c`)

State: transmit and receive state, `usLastTxSize`, deferred flags.
Operations: packet write/read, packet available, the endpoint handler
(`ProcessDataToHost`, `ProcessDataFromHost`), `HandleConfigChange`,
`HandleDisconnect`, suspend and resume.
Hard: a bus reset or a second SET_CONFIGURATION with a packet in flight.
Correct when: a completion reports what was acknowledged, the driver never waits
for a completion that cannot come, a packet left in the FIFO is signalled again.

### 1.4 CDC serial class driver (`usblib/device/usbdcdc.c`)

State: the bulk driver's, and for the control channel `eCDCRequestState`,
`eCDCInterruptState`, `usSerialState`, `usDeferredOpFlags`, `usBreakDuration`,
`bRxBlocked`. Operations: class requests (line state, line coding, break) that
wait for earlier data and block later data; `CDCTickHandler`, which retries what
was deferred and times the breaks; serial-state notifications on the interrupt
endpoint.
Hard: the order between endpoint 0 and the bulk endpoint, deferral and retry, the
flag word changed from both contexts by a read-modify-write
(`DISABLE_BIT_BAND`).
Correct when: later data does not overtake a control change, nothing stays
blocked, every change is delivered, every break ends, every notified change is
sent.

### 1.5 Endpoint 0, enumeration and the dispatcher (`usblib/device/usbdenum.c`)

State: `eEP0State` (idle, tx, tx-config, rx, stall, status), the data pointer and
the count left, the section of a configuration descriptor that is being sent, the
address and whether it is pending, configuration, alternate setting, halt and
remote-wake-up status. `USB0DeviceIntHandler` (`usbdhandler.c` 75-100) reads and
clears the interrupt status; `USBDeviceIntHandlerInternal` (2955-3103) serves reset,
suspend, resume, disconnect, start-of-frame, endpoint 0, then the other endpoints
from that reading.
Operations: the standard requests (1374-2564), `USBDCDRequestDataEP0`,
`USBDCDSendDataEP0` and `USBDCDStallEP0` for the class drivers, the data stages
(`USBDEP0StateTx`, `USBDEP0StateTxConfig`, the RX state of
`USBDeviceEnumHandler`), the reset handler.
Hard: one interrupt may stand for two events (the end of a status stage and the
next SETUP); endpoint 0's own status (1101) is read after the interrupt status
(`usbdhandler.c` 81), and may show what has come since; a host may drop a transfer half way, and the handler does not look
for a SETUP while it sends or stalls; a bus reset clears the controller and not
`eEP0State`.
Correct when: the host reads the bytes it asked for, cut at the length it asked
for, and nothing of an earlier transfer; requests are refused exactly when there
is nothing to answer; the address changes after the status stage; the class is
told of received data once and in full; every transfer ends.

### 1.6 Tick and composite device (`usblib/usbtick.c`, `usblib/device/usbdcomp.c`)

One tick-handler slot per kind; a composite device renumbers interfaces and
endpoints and dispatches to its members. Not modelled yet.

### 1.7 Clients (`examples/beaglebone/usb_dev_serial`, `usb_dev_bulk`)

Modelled as far as the drivers see them: a client drains the receive buffer,
stops while it sends a break, and flushes on connection.

### 1.8 Ethernet descriptor rings (`third_party/lwip-1.4.0/ports/cpsw/netif/cpswif.c`)

State: a ring of transmit and a ring of receive buffer descriptors in memory that
the CPDMA engine reads and writes; `struct txch` and `struct rxch` (free head,
head and tail of what the engine has, free count); the reference counts of the
pbufs. Operations: `cpswif_output`/`cpswif_transmit`, `cpswif_rx_inthandler`,
`cpswif_tx_inthandler`, `cpswif_rxbd_alloc`, which ends both handlers. Interactions:
the engine is started by writing a head descriptor pointer, follows `next`, halts
at NULL and sets EOQ; the stack keeps, frees or sends back received packets.
Hard: a chain is extended while the engine may be reading its end, and is open
between two stores (1578, 1581); rings full or empty, the pbuf pool empty; the
end-of-interrupt write against a new completion; the transmit handler counts its
polls over all the packets it waits for, and may give up on an engine at work.
Correct when: the engine never writes a buffer that someone else uses, packets are
delivered in order, no descriptor is lost or used twice, a packet is kept until it
has been sent, an engine that has halted is started again and a running one is not.

### 1.9 The other parts

The MUSB driver (`drivers/usb.c`) is register accesses, modelled by effect. HID,
mass storage and the host stack are in the plan. EDMA, MMC/SD, NAND, the graphics
library, the boot loader and the peripheral drivers are sequential code over
registers; U-Boot and QNX are other projects' code. `PROJECT.json` has one entry
for each.

## 2. The modules

| module | models | kind |
|---|---|---|
| `USBRingBufOps` | index arithmetic of `usbringbuf.c` | operators |
| `USBRingBuf` | the ring used from one context | state machine |
| `BoundedStream` | what the ring promises | abstract specification |
| `USBRingBufOpsProofs` | lemmas about the index arithmetic | proofs |
| `USBRingBufProofs` | theorems about the ring | proofs |
| `USBBulkTx` | transmit buffer, bulk driver, IN endpoint, client, host | state machine |
| `USBBulkTxProofs` | theorems about the transmit path | proofs |
| `USBBufferRx` | OUT endpoint, class driver, receive buffer, tick, client | state machine |
| `USBBufferRxProofs` | theorems about the receive path | proofs |
| `USBCDCSerial` | control requests against data, breaks, tick | state machine |
| `USBCDCSerialProofs` | theorems about control requests and data | proofs |
| `USBCDCNotify` | serial-state notifications | state machine |
| `USBCDCNotifyProofs` | theorems about the notifications | proofs |
| `USBDEnum` | endpoint 0, standard requests, control transfers of a host | state machine |
| `USBDEnumProofs` | theorems about endpoint 0 | proofs |
| `CPSWIf` | Ethernet descriptor rings, both handlers, DMA engine, stack | state machine |
| `CPSWIfProofs` | theorems about the descriptor rings | proofs |
| `MC*` | instances for TLC | |

`USBRingBufOps` is shared by the three modules that hold a ring. Definitions
named *Faulty variant* are not part of a specification: each is a plausible bug
(a dropped guard, a swapped order) that some property must detect.

### Granularity

An interrupt handler runs to its end, so it is one action. A main-loop call is
split where an interrupt could tell the difference: at every read or write of
shared state. `pc` names the next step. In `USBBulkTx` and `USBBufferRx` the
constant `PreemptAt` names the steps before which an interrupt can be taken:

- `InterruptContext`: the client runs in an interrupt handler, as in the examples;
- `AtomicIndex`: a main-loop client; interrupts at every step except inside an
  index update (`Wrapping` in `USBBulkTx`, `"test"` and `"subtract"` in
  `USBBufferRx`): what the description of `UpdateIndexAtomic` promises and what
  `USBRingBufAdvanceWrite` asks of its caller;
- `SplitUpdate` (`USBBulkTx`): a main-loop client; interrupts inside
  `UpdateIndexAtomic` too, as it is built, but not inside `USBRingBufAdvanceWrite`.

### State and actions

`USBRingBuf`. `ring` is the pair of indices, `pucBuf` the storage. Each
state-changing function is an action. `AdvanceWrite` is not guarded by the free
space, because the ASSERT that would is compiled out of a release build.

`USBBulkTx`. `ring`, `pucBuf`; `ep` is the driver instance and its endpoint:
`eBulkTxState`, `usLastTxSize` (16 bits), the FIFO and the packet-ready bit.
Client: `USBBufferWrite`, which is `StoreByte`, `AddToIndex` and `CorrectForWrap`
(`UpdateIndexAtomic`) for each byte, or `USBBufferDataWritten`, which is
`AdvanceWrite` and `AdvanceWriteWraps` (`USBRingBufAdvanceWrite`); then
`AskPacketAvailable`, `AskContigUsed`, `AskUsed`, `TransferFirst`,
`TransferSecond`, which are `ScheduleNextTransmission` read by read.
Interrupt: `ProcessDataToHost` with `HandleTxComplete`, `HandleConfigChange`
with the client's flush. Environment: `BusReset`, `HostTakesPacket`.
Bytes are numbered, so that loss, repetition and reordering are told apart.

`USBBufferRx`. The mirror image: `ProcessDataFromHost` and `Tick` read the
packet into the ring in one or two blocks (`FillRing`), let the client take some
in its callback, and flag an unread rest; `USBBufferRead` is split into
`LoadByte`, `AddToIndex`, `TestForWrap`, `CorrectForWrap`, the last in unsigned
arithmetic modulo `Word`. `TickRetries` is TRUE for CDC and FALSE for bulk.

`USBCDCSerial`. Everything runs in interrupt context. `cdc` is the instance,
`rx` the receive buffer (a bounded queue, which is what `USBBufferRx` shows it
to be), `fifo`/`rxrdy`/`rxIntr` the OUT endpoint, `ep0` what waits on
endpoint 0, `frames` whether the host sends frames. `CDCTickHandler` runs from the
start-of-frame interrupt and needs `frames`; a disconnection ends them, and
`FramesComeOrGo` stops them (a bus suspended or not attached) or brings them back at
any point. SET_LINE_CODING has a data stage (`HandleEP0Data`): endpoint 0 hands over
the size that was asked for, so the stall for another size is never taken. Data and
requests are numbered together in the order the
controller takes them, so that "later" and "earlier" can be stated; `want` and
`done` record the newest request taken and the newest one passed on, per kind.

`USBCDCNotify`. `USBDCDCSerialStateChange` access by access. Each `|=` and `&=` of
`usSerialState` and of the flag word is a read (`ReadWord`) and a write (`WriteState`,
`WriteFlags`), `Updates` in the order of the statements; the notification is put
into the FIFO with two calls (`PutNotification`) and sent with a third. An interrupt
may come between any two. `ProcessNotificationToHost` is the interrupt; `host` is what
the host has seen of the line bits, and a packet that is not one whole notification
tells it nothing. Main-loop code does not go on while an interrupt is pending
(`AppRuns`).

`USBDEnum`. A handler of the code is an operator on the record of the instance,
the controller and the class, as it leaves it. The interrupt is two actions:
`USB0DeviceIntHandler` reads and clears the interrupt status (`irq` becomes `seen`),
and `USBDeviceIntHandlerInternal` applies the reset handler and then `EnumHandler`,
which reads endpoint 0's own status. Host and controller may act in between
(`LateSetups` allows a new SETUP there), so that `EnumHandler` may serve what its
interrupt does not stand for, and the interrupt of that comes later. A byte is named by where it comes
from (descriptor, value, offset), so that a byte lost, repeated or taken from the
wrong place is seen. The host is a second actor that makes control transfers
stage by stage, from one of several menus of requests; it may drop a transfer
that only reads (`Abandons`; only when no interrupt is pending: hosts wait), it
repeats a request when nothing moves any more, and it keeps what it believes of
the device (address, configuration, setting, halts) to compare with what it reads.
Its requests have the lengths that the USB standard gives them (`WellFormed`,
`MenusAssumption`): a request that carries something out has no data, a status is
two bytes, a setting one. Values and descriptors asked for are not restricted: a
string index is not compared with what the language has (`StringIndexFromRequest`),
and a string behind the table has whatever size is read there (`StraySize`); a device
feature with an odd number is taken for the remote wakeup. The class driver's
callbacks may be absent (`HasDataSent`, `HasDataReceived`).
The controller's endpoint 0 is external and is taken to hold one packet of each
direction, to answer NAK while a received packet is unread, to complete the status
stage by itself, to drop what is left to send at a SETUP, and to keep STALL until
the host has seen it. `ResetMidTransfer` allows a bus reset in the middle of a
transfer; without it a reset comes only when the host is idle and no interrupt
is pending. From the reading of endpoint 0's status to its end the handler is one
step.

`CPSWIf`. `txbd`/`txch`/`txdma` and `rxbd`/`rxch`/`rxdma` are a ring, the driver's
record of it, and the channel of the engine with its interrupt. `cpu` says what
the processor is about to do: a handler is cut into steps wherever the engine could
tell the difference (each packet passed up, its acknowledgement, the end, the
allocation, the test of EOQ). Handlers are not nested: both interrupts have
priority 0, and `cpswif_output` masks them (`SYS_ARCH_PROTECT`). When the engine
reads `next` is not said in the sources; `env.ahead` takes both answers: as it
finishes a packet, or already as it begins it. `cpswif_rxbd_alloc` chains the new
descriptors (`Alloc`), which leaves the chain open, and ends it one store later
(`AllocClose`); `Closed` is the ring as it will be. `env.swift` is an engine that gets
to the open link in that time, or to the end of a ring just posted as a whole before
the test of EOQ. The transmit handler may run out of polls at any packet
that is not sent (`TxPollsRunOut`), with the engine halted, or, if `env.slow`, at work:
the 65535 polls are those of the whole run of the handler. `TxGiveUp` then writes the
head descriptor pointer and returns without the end-of-interrupt write. What a channel
does with a pointer written while it runs the sources do not say: here it goes on from
the new one, and `clobbered` remembers it. `queued`, `filled` and `dry` record what
was accepted, what arrived and that the pool ran empty; the code has no such
variables, and no action reads them.

## 3. What the runs check

Bounds are constants; each module names them. Every passing run exhausts its
state space.

| run | shows |
|---|---|
| `ringbuf` | mixes of byte and block calls on a ring of 4 slots with 2 byte values: indices valid, blocks safe, implements `BoundedStream` |
| `bulktx` | main-loop client, one configuration: bytes arrive once and in order, completions report the acknowledged count, nothing is stranded, every byte is delivered |
| `bulktx_isr` | client in interrupt context, resets and two configurations: nothing stranded, no dead wait |
| `bulktx_split` | *violation*: an `UpdateIndexAtomic` cut in the middle corrupts the stream |
| `bufferrx` | packets in two blocks around the wrap, main-loop and in-place client: nothing lost or reordered, unread packets flagged, and read in the end |
| `bufferrx_notick` | *violation*: the bulk driver never signals an unread packet again |
| `cdcserial` | data, requests, breaks, disconnect, suspension and reset in every order: later data waits, blocked reception is flagged; while frames come, packets are read, changes delivered, breaks end |
| `cdcnotify` | main-loop reports cut between any two accesses: no dead wait, whole notifications (until a reset or second configuration), a change reported in flight is sent |
| `denum` | control transfers in every order, dropped, refused and repeated ones, SETUPs between the two status readings, and resets between transfers: data is whole, received data is whole, the address follows its status stage, only invalid requests are refused, good ones are served at once, every transfer ends |
| `denum_reset` | *violation*: after a reset in a data stage the first answer is not what was asked for |
| `cpsw` | the rings against the engine, four kinds of traffic, an engine slower than the handler's polls: one owner per buffer, delivery in order, both rings partitioned, packets kept while queued, engines started only when halted (but by a handler that gave up on a slow one), reception stops only with a dry pool, packets sent |
| `cpsw_dry` | *violation*: with a pool that ran dry, reception never resumes |

Seven more configurations are kept beside the runs. Each lifts an exception or an
assumption that a run and its theorems make, and TLC refutes the property it names, so
that none of them can be dropped:

| configuration | TLC's counterexample |
|---|---|
| `MCUSBDEnum_late.cfg` | `AddressWaits`: a SET_ADDRESS between the two status readings is served with the old interrupt, and its own interrupt then sets the address before the status stage |
| `MCUSBDEnum_string.cfg` | `RefusesOnlyInvalid`: a string that the last language does not have is read from behind the table and sent |
| `MCUSBDEnum_feature.cfg` | `RefusesOnlyInvalid`: SET_FEATURE of a feature with another odd number is acknowledged |
| `MCCPSWIf_swift.cfg` | `BufferHasOneOwner`: an engine that follows the link between the stores of 1578 and 1581 goes round the ring |
| `MCCPSWIf_slow.cfg` | `GivesUpOnlyAfterFailure`: the polls run out on an engine at work, whose pointer is rewritten |
| `MCCPSWIf_giveup.cfg` | `PacketsAreGivenBack`: without the end-of-interrupt write no interrupt comes again and no packet is given back |
| `MCUSBCDCNotify_errors.cfg` | `ErrorsAreSent`: the error bits are cleared before the notification is built |

They are run as `tlc -config MCUSBDEnum_late.cfg MCUSBDEnum`.

### Why the bounds are enough

- Ring of 4 slots (3 bytes): the smallest size where a block is split by the end
  of the storage with more than one byte on a side, and full, empty, wrapped and
  unwrapped layouts all occur at every index.
- `MaxPacket` 2 or 3 against writes of up to 3: packets smaller than, equal to
  and larger than the contiguous block; a second packet must be scheduled by the
  completion; a received packet may not fit.
- `MaxBytes` 10: the indices go round the storage more than twice.
- `MaxConfigs` 2: one reset with a packet in flight followed by a new
  configuration. `MaxConfigs` 1: normal operation.
- `MaxSent` 4 in `cdcserial`: data, a request, data, and a second request, the
  shortest sequence with something before, between and after.
- Break durations 0..2: stop, expires at the next tick, counts down once.
- `MaxReports` 3: one in flight, one deferred, one that races the completion.
- `EP0_MAX_PACKET_SIZE` 2 and descriptors of 2, 3, 4 and 5 bytes: answers that
  end inside a packet, on a packet, on a section, and requests for less than, as
  much as and more than there is. One configuration whose first section is just
  the header, one whose sections end inside packets. The menus (`Transfers`,
  `Features`, `Settings`) divide the requests by the state they share; each
  contains some that are refused and some that move data in several packets.
- `NumTx` 3, `NumRx` 2, three pbufs in the pool, chains of up to two buffers:
  rings full, with one descriptor left, and empty; a chain around the end of the
  ring; one pbuf more than the ring needs, so that the stack can keep one, and
  keeping two leaves the pool empty. The pool is never smaller than the ring, as in
  `lwipopts.h` (`PBUF_POOL_SIZE` 210, 204 descriptors). `Environments` are four
  kinds of traffic (sending, receiving, echoing, both at once), because all at
  once adds states and no new sharing.

Deadlock is not checked in the bounded modules: when the bounds are used up the
environment stops. Whether a component hangs is the question of the liveness
properties and of `NoDeadWait` and `NoStrandedData`.

### Fairness

- A pending interrupt is taken. Strong fairness where a main-loop client passes
  through steps that do not admit interrupts, weak where everything is in
  interrupt context. Justified by the hardware: the request stays pending.
- A call that has started goes on (weak fairness of the client's steps): the
  calls contain no waiting loop.
- While frames come, ticks do (1 ms). That frames come is not assumed in
  `USBCDCSerial`: its liveness properties say "or the frames stop", and what waits for
  the tick then waits for them. `USBBufferRx` has one session on a bus that is up.
- The host polls IN endpoints of a configured device, by the USB protocol.
- The client drains its receive buffer: the UART bridge does so in the
  transmit interrupt. In `USBBufferRx` the client polls.
- In `USBDEnum` a host that has begun a transfer goes on with it, and repeats it
  when nothing moves; it is never assumed to begin one.
- In `CPSWIf` the engine sends what it was given, a slow one too; a pulse that comes again and
  again is taken, and `ethernet_input` returns (strong fairness, because the
  main loop and the other handler run in between). Frames need not arrive.
- The host is never assumed to send data or requests. `bulktx` does assume
  that it configures the device, without which no byte can be delivered.

## 4. What is proved

All theorems hold for every value of the constants that satisfies the named
assumptions.

`USBRingBufProofs`

- `TypeCorrect`, `BlocksSafe`, `FullAndEmpty`: the indices stay in the storage
  under every action, and the other two (blocks stay inside the storage; the full and
  empty tests agree with the byte counts) follow from that alone, by linear
  arithmetic, because every query is a case split on which index is larger.
- `RingBufImplementsStream`: `Spec => Stream!StreamSpec` under
  `stream <- Contents`. The argument: `Contents` is described by its elements
  (`ContentsElements`), each slot by the position of its byte (`SlotOfByte`);
  storing bytes behind the write index extends the contents (`StoringAppends`);
  advancing the read index removes a prefix (`ReadingRemoves`); an overrun moves
  the read index to the slot behind the write index, which leaves the newest
  `ulSize - 1` bytes of old and new together (`SlotAfterOverrun`,
  `StoringOverruns`). A call that moves nothing is a stuttering step.
- Assumptions: `SizeAssumption`, and what the statements name besides
  (a ring of at least two slots: one slot stores nothing).

`USBBulkTxProofs`

- `InvariantHolds`: `Spec => []Inv`, and from it `TypeCorrect`, `StreamCorrect`,
  `NothingStranded`, `PacketsFit`, `CompletionsCount`. None of these is
  inductive alone. `Inv` adds what ties the three actors together:
  - `RingOK`: byte k behind the read index is number `Gone + k`, where `Gone`
    counts the bytes that have left the ring. Between the two halves of an
    index update this is said of the index as it will be (`Settled`);
  - `CallOK`: the bytes of the call under way have room and lie, in order,
    behind the write index;
  - `ScheduleOK`: while the client prepares a packet, the ring's block and the
    transmitter are as it read them, because the interrupt acts only after a
    packet is on its way;
  - `EndpointOK`: the FIFO holds the oldest bytes of the ring, and the host has
    had exactly the bytes before them; the driver waits exactly while a packet
    or its completion is pending;
  - `NotStranded`: an idle transmitter and a ring with data mean that the client
    is on its way to `ScheduleNextTransmission`.

  Packets are built by `FirstPartBuilt` and `SecondPartBuilt`, which use the
  two blocks of the ring (`TwoBlocks`); a write uses `WritingGrows`, a
  completion `ReadingShrinks` (`USBRingBufOpsProofs`).
- Assumptions of these theorems: `PreemptAt \cap Wrapping = {}` (index updates,
  of both kinds, are not cut in the middle) and `MaxConfigs <= 1` (one configuration, no reset).
  Neither can be dropped: `bulktx_split` violates `StreamIntact` without the
  first; a reset with a packet in flight leaves `usLastTxSize` stale
  (section 5), so `CompletionCountsAcked` fails without the second.
- `NeverDeadWaits`: `NoDeadWait` with neither assumption, by an invariant of its
  own (`WaitInv`): `USBDBulkPacketWrite` changes the state and the packet-ready
  bit together or not at all.
- `NothingStrandedByResets`: `NoStrandedData` for any number of resets and
  configurations and a client in interrupt context (`PreemptAt = {"idle"}`, as in
  the examples and in `bulktx_isr`). `ResetInv` says less of the data than `Inv`,
  because a stale `usLastTxSize` may move the read index too far: the ring stays
  well formed (`WriteIndexOK`), and while the client schedules, what it has read of
  the ring is so and the transmitter is idle (`AttemptOK`). Every attempt then ends
  with a packet in the FIFO, its own or an older one that refused it
  (`PartCommits`, `ScheduleCommits`), or finds the ring empty or the driver waiting,
  which `NoDeadWait` shows not to be in vain. A main-loop client is out of
  the theorem: interrupted by a reconfiguration it goes on with lengths of
  a ring that was flushed.

`USBBufferRxProofs`

- `InvariantHolds`, and from it `TypeCorrect` and `StreamCorrect`: the client gets
  the host's bytes whole and in order. `Inv` is the transmit path's argument turned
  round, with the read index as the one that is cut:
  - `RingOK`: the ring, with the index update under way completed (`Settled`),
    holds the bytes that follow number `Gone`, the FIFO those that come next, and
    the three counts add up to what the host sent;
  - `IndexOK`: only between the addition and the correction may the index be
    past the storage, and by how much;
  - `CallOK`: the bytes the call under way has yet to read are in the ring;
  - `EndpointOK`: an acknowledged packet has left the FIFO.

  A packet goes into the ring in one or two blocks, each of which continues the
  contents (`ReadIntoRingKeeps`, `FillRingKeeps`).
- Assumption of these three: `"test"` and `"subtract"` are not in `PreemptAt`, i.e.
  an interrupt does not come between the addition to the index and its
  correction. It cannot be dropped: the interrupt would compute the free space
  from an index that is one past the storage.
- `UnreadIsFlagged`: `UnreadPacketIsFlagged` with no assumption: the flag and the
  acknowledgement are written by the interrupt alone, wherever it comes.

`USBCDCNotifyProofs`

- `TypeCorrect`: the driver's variables keep their types, with reports from the
  main loop or from an interrupt.
- `PacketsAreNotifications`: until the first reset or the second configuration every
  packet the endpoint is handed is one whole notification. `OneWriter` says who has the
  endpoint: the application from the step that found the channel idle until its packet
  is sent, with the pieces written so far in the FIFO and nothing in flight; then a
  whole notification lies there, or its completion is due.
- `NeverDeadWaits`: the interrupt channel is marked waiting only while a
  notification is in the endpoint, its completion is pending, or the
  application is between marking and writing. The invariant is inductive as it
  stands because its third disjunct names exactly those steps; the two cases
  that matter are the refused write, which falls back to idle, and the
  completion, which waits again only after a write that succeeded.

`USBCDCSerialProofs`

- `TypeCorrect`: types, and the sizes of the receive buffer and the FIFO.
- `BlockedFlagged`: `BlockedIsFlagged`, from `FifoOK`: a packet whose interrupt was
  taken is flagged, and only a packet that was read whole loses its flag.
- `ControlKeepsItsPlace`: `DataWaitsForControl`. Not inductive alone; `InOrder`
  says where every item of the host is:
  - `DataInOrder`: all received or waiting data was sent, and the PACKET_RX flag
    means a packet whose interrupt has been taken;
  - `RequestInOrder`: the request on endpoint 0 is younger than all received data,
    and the packet in the FIFO is older, or younger with its interrupt pending
    (then the dispatcher serves the request first);
  - `ChangesInOrder`: a line change the client has not been told of is flagged,
    blocks reception, and is younger than all received data.

  One lemma per action (`PacketKeepsOrder`, ..., `TickKeepsOrder`); reading a packet
  is common to the interrupt and the tick (`ReadingKeepsOrder`). The helpers of the
  driver have lemmas of their own (`CheckAndSendFacts`, `TickDeferredFacts`, ...).
  After a reset PACKET_RX may be stale and the statement is false, which is why
  both the property and `Ordered` speak of the time before the first one.

`CPSWIfProofs`

- `BuffersOwned`, `OldestIsNext`, `RingShared`, `RingHolds`, `Kept`, `StallsOnlyDry`
  and `TypeCorrect`: every safety invariant of the run `cpsw`, and `StartsHalted`,
  that a channel is started only when halted, for rings and chains of every length,
  every set of pbufs and both answers to when the engine reads `next`. The assumptions
  are `SizesAssumption` and `Prompt`: no environment is `slow` or `swift`. Neither half
  of `Prompt` can be dropped: an engine that gets to the link open between 1578 and 1581
  breaks `BufferHasOneOwner`, and one slower than the polls has its pointer rewritten
  (`MCCPSWIf_swift.cfg`, `MCCPSWIf_slow.cfg`). The receive ring is looked at through
  `Closed`, the ring without the open link: `AllocClose` then changes nothing, and the
  steps of the engine in between see the same ring. A handler that gives up has found
  the engine halted (`GivingUp`). All follow from one invariant, `Inv`, whose parts each take
  the others to be preserved:
  - `CpuOK`: only the transmit path interrupts `ethernet_input`, and returns to it;
  - `RxInv`: the links follow the ring and the descriptors in use follow
    `recv_head` (`RxRing`); the filled ones come first, hold the packets in the
    order of arrival, and the engine is at the first that is not filled
    (`RxFilled`); EOQ on the tail, or on what was the tail before a chain was put
    behind it, says that the engine has halted there (`RxEnds`); what is filled has
    a pulse to come or a handler at work, which leaves nothing behind, and an engine
    that never ran dry halts at the end of the ring only (`RxAwake`);
  - `RefInv`: the pbuf of a descriptor in use has one owner and one reference
    (`RxOwned`), a queued packet keeps a reference (`KeptWhileQueued`);
  - `TxInv`: the queue's packets come first from `send_head`, then the free
    descriptors, and the links are cut behind the last packet (`TxRing`); the
    packets lie back to back, packet `k` in the descriptors from `Before[k - 1]` to
    `Before[k] - 1`, with SOP, EOP and the pbuf in their places (`TxQueue`); some
    first `m` packets are sent, the engine is at the next, and EOQ on the last
    packet, or on the tail in front of a packet just chained, says that it has
    halted (`TxSent`).

  None of the properties is inductive alone. The invariant is this large because a
  chain is extended behind a descriptor the engine may have read already: what EOQ
  says must hold in both orders of the two, for the tail and for the former tail.
- The lemmas that carry it: positions on a ring (`RotAdd`, `RotInjective`,
  `RotOnto`); what a walk along `next` returns (`WalkIs`, then `TxWalk` and
  `RxWalk`); the offsets of the packets of a queue that grows at the end and
  shrinks at the front (`OffsetsAppend`, `OffsetsTail`); the same for the owners of
  a pbuf (`OfAppend`, `OfTail`). `Walk` and `Offsets` are recursive functions; facts
  about them are proved by induction in the form "a set of numbers that holds 0 and
  every successor holds all" (`SetInduction`).
- One lemma per action and part (`RxNextKeeps`, `RxNextRefs`, `TxReclaimKeeps`, ...),
  one per action for the whole (`RxNextStep`, ...), and `NextInv` for the steps
  together.

`USBDEnumProofs`

- `TypeCorrect`, `AddressAlwaysFollows`, `AlwaysServedTheFirstTime`,
  `DataReceivedAlwaysWhole`, `TransferAlwaysIntact` and `AlwaysRefusesOnlyInvalid`:
  every safety and action property of the run `denum`, for every packet size, every
  set of descriptors, every division of a configuration into sections and every menu
  of requests. All follow from `Inv` (`PhasesAlways`): types (`DeviceOK`), and one
  of seven phases of the transfer, each relating host, controller and device:
  - `Idle`: no transfer; a SETUP left over from a dropped one may still wait. After
    transfers that ended well the device is in its idle or status state;
  - `Asked`: a SETUP the device has not read. If the device was idle or in its
    status stage its interrupt is pending; only behind trouble may the host have to
    repeat it, because the device takes it for progress of the old transfer;
  - `Stalled`: a stall, of a request there is nothing for;
  - `Sending`: what the host has read, what the FIFO holds and what the device has
    left (`Rest`) are together the answer, cut at the length asked for (`Owed`);
    full packets alternate with interrupts, a short one ends the data (`Packets`);
  - `Receiving`: the class's buffer and the FIFO are together what the host has
    sent, and the count left is what is missing;
  - `Done`: the request is carried out, but for an address, which is pending;
  - `Late`: a transfer whose SETUP came between the two readings of an interrupt. It
    may have been served with the old interrupt, and its own interrupt then counts
    for progress it has not made. Little is said: the SETUP waits (`LateAsked`), is
    refused (`LateRefused`), carried out (`LateServed`) or its data is coming
    (`LateReceiving`), and the settings are those the host knows of or asks for. That
    is enough for the device to be found, and to be back in a known phase behind it.

  In every phase the device has the settings the host knows of (`Knows`, or
  `Aware` while a reset is still to be served) and answers at the host's address
  or takes it at the next interrupt (`Addressed`, `AddressDue`). `TransferIntact` is
  not inductive: without `Rest` nothing is said of the packets to come, and without
  `Knows` the answer to GET_CONFIGURATION could be any.
- The handlers are proved as operators on the record they take, before any action is
  looked at: `LoopFacts` (the loop over the sections reads on where the last
  packet ended, and ends where it should), the sending states, one lemma per request
  (`GetDescriptorOutcome`, `ClearHaltOutcome`, ...), put together in `DispatchFacts`.
  `Outcome` names the four things a request may lead to. Then one lemma per action
  (`HandlerStep`, `InStep`, `StatusStep`, ...).
- Assumptions: `SizesAssumption`, `MenusAssumption`; `~ResetMidTransfer`, without
  which `denum_reset` shows the first answer after a reset to be wrong; and, for
  `TransferAlwaysIntact` and `AlwaysRefusesOnlyInvalid`, `NoStray`: no request is one
  the device takes for another. These are three: the halt of endpoint `NUM_USB_EP`,
  carried out on the neighbouring field; a device feature with an odd number, taken for
  the remote wakeup; a string that its language does not have, taken from the next
  language or from behind the table (section 5). The menus of the run `denum` contain
  none. `LateSetups` is not assumed away. What a late SETUP breaks is excepted in the
  properties themselves, and no more: `TransferIntact` and `DataReceivedIsWhole` speak
  of transfers whose SETUP was not late, `AddressFollowsStatus` excepts a late
  SET_ADDRESS, `ServedTheFirstTime` a late request and those behind one.

Model-checked only: liveness and everything under fairness (`EveryByteDelivered`,
`PacketIsRead`, `PacketsAreSent`, `RequestsAnswered` and the like), which is out of
the prover's reach.

## 5. Findings

Four disagreements have a run (`PROJECT.json`, `findings`): the split update of
`UpdateIndexAtomic`, the missing tick handler of the bulk driver, the endpoint state
that survives a bus reset, and the EOQ flag that the receive handler clears before it
is tested. Seven more are shown by the configurations of section 3:

- A SET_ADDRESS that arrives between the two status readings has its address set
  before the status stage (`usbdhandler.c:81`, `usbdenum.c:1101`, 1119), against
  the comment at `usbdenum.c:1770-1771`.
- `USBDStringIndexFromRequest` adds the requested index to the start of the
  language's group and never compares it with the size of the group
  (`usbdenum.c:2149`), against its comment at 2066-2067.
- `USBDSetFeature` and `USBDClearFeature` test one bit of the feature's number
  (`usbdenum.c:1683`), against the comment at 1642-1644.
- `cpswif_rxbd_alloc` opens the ring one store before it closes it (`cpswif.c:1578`,
  1581), against the comment at 1580 if the engine is quick enough.
- `cnt` is set once per run of `cpswif_tx_inthandler` (`cpswif.c:2173`) and counts over
  every packet it waits for; when it runs out the pointer is written (2190) whether
  the engine "failed to transmit" (comment at 2188) or is at work.
- The handler that gives up returns without the end-of-interrupt write
  (`cpswif.c:2192`, 2234): no further transmit interrupt comes, and nothing is given
  back.
- Reported errors are cleared in the statement after the one that sets them
  (`usbdcdc.c:2931`), against the comment at 2918-2919.

Read off the code while modelling:

- `HandleConfigChange` of the bulk driver does not clear `usLastTxSize`
  (`usbdbulk.c:568`): after a reset with a packet in flight the next completion
  reports the old bytes too.
- A request on endpoint 0 passes data that is still in the FIFO: only the client
  and its buffer are asked for remaining data (`usbdcdc.c:838`).
- `SendBreak(false)`, when a break expires, clears the flag of a break request that
  was deferred meanwhile (`usbdcdc.c:729`).
- A deferred break is started by the tick whatever its duration: a deferred
  "stop break" starts one (`usbdcdc.c:2064`). `TickDeferred` models it.
- Line bits of the serial state are only ever ORed in (`usbdcdc.c:2932`); the
  comment at 2919-2920 says they follow the last report.
- A change reported before the device is configured is never sent by the tick,
  although the comment at `usbdcdc.c:2947-2948` says so.
- `UpdateIndexAtomic` corrects for wrap with one `if`; its comment
  (`usbringbuf.c:114`) says "We use a loop here". With a delta of at most the
  ring's size one subtraction is enough, which `TypeCorrect` proves.
- `PACKET_RX` survives a bus reset, so a tick may read a new packet before an
  older request.
- CLEAR_FEATURE(ENDPOINT_HALT) lets endpoint `NUM_USB_EP` pass (`usbdenum.c:1571`)
  and clears a field behind the row; `ClearHalt` models it.
- SET_CONFIGURATION leaves `pucAltSetting` as it was while the endpoints are set up
  for setting 0, so SET_INTERFACE back to the recorded setting changes nothing in
  the controller (`usbdenum.c:2521`).
- SET_INTERFACE while the configuration is 0 takes the descriptor at index -1
  (`usbdenum.c:2481`); a host that keeps to the standard does not ask for it
  (`Legal`).
- `cpswif_transmit` returns ERR_MEM with the reference already taken
  (`cpswif.c:1619`, 1731): the pbuf is never freed. `OutputRefused` models it.
- Padding a short packet made of several buffers moves `p` to the last of them, so
  only that one is sent (`cpswif.c:1718-1724`).
- When the pool and the receive ring are both empty, only a transmit interrupt
  allocates again; with no traffic out, reception waits for one.

## 6. Not modelled, and why

USB: the contents of descriptors and strings (constant data); suspend, resume and
remote wake-up; power status; `HandleRequestBuffer` (no class driver here sends the
event to a USB buffer); error events of the bulk endpoints; the composite device;
the host stack. A main-loop client of `USBBulkTx` across a reconfiguration is left
out: lengths read before the flush may then reach past the storage, and the code
does not claim to handle it. In `USBDEnum`, what happens on the bus between the reading
of endpoint 0's status and the end of the handler; one case matters: a request without
data is acknowledged with its last packet before it is found wrong (`usbdenum.c:1667`),
and the controller may complete the status stage before the stall is set. Which of the
two it then answers with the sources do not say.

Ethernet: the address lookup engine, the PHY, link status, switch configuration
(register tables and polling); the second MAC, whose rings are separate; lwIP.

## 7. Plan

1. Done: ring buffer with its abstract stream and proofs; transmit and receive
   paths; CDC control, data and notifications; endpoint 0; Ethernet rings; proofs
   about the ring, both paths of data, the notifications, CDC control, endpoint 0
   and the Ethernet rings.
2. `USBBulkTx` across a reset: a statement, and its proof, of which bytes the host
   gets when a packet was in flight (`usLastTxSize` stale, a first part refused).
3. `USBTick` with a composite device of two CDC instances: one handler slot.
4. HID report scheduling, mass-storage bulk-only transport, host enumeration.
