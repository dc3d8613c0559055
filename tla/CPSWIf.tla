------------------------------- MODULE CPSWIf --------------------------------
(***************************************************************************)
(* The Ethernet driver, lwIP's port for the CPSW, netif/cpswif.c: the      *)
(* transmit and receive buffer descriptor rings it shares with the CPDMA   *)
(* engine, the receive and transmit interrupt handlers, and the lwIP stack *)
(* that hands packets down and keeps or frees the ones it is given.        *)
(*                                                                         *)
(* Descriptors are numbered from 1 and NULL is 0; a pbuf is a number too.  *)
(* The processor runs the stack in the main loop, or a handler, which no   *)
(* other handler interrupts (both interrupts have priority 0, and          *)
(* cpswif_output masks them).  The engine takes its steps between any two  *)
(* steps of the processor.                                                 *)
(*                                                                         *)
(* The engine and lwIP's pbufs are external.  A channel works from the     *)
(* descriptor written to its head descriptor pointer, follows "next" from  *)
(* packet to packet and halts at NULL, setting EOQ.  When it reads "next"  *)
(* is not documented in the sources: as it finishes the packet, or already *)
(* as it begins it (ahead).  A completion pulses the interrupt once; the   *)
(* next pulse comes after the end-of-interrupt write.  What a channel makes *)
(* of a head descriptor pointer written while it runs is not documented     *)
(* either: here it goes on from the new one, and "clobbered" remembers it.  *)
(***************************************************************************)
EXTENDS Integers, Sequences, FiniteSets

CONSTANTS
    NumTx, NumRx,   \* descriptors of the two rings
    Pool,           \* pbufs of PBUF_POOL, which receive packets
    Heap,           \* pbufs the stack allocates for packets of its own
    MaxChain,       \* the longest chain of buffers of one packet
    MaxRef,         \* bound on the references to a pbuf
    Environments    \* whether the engine reads ahead; whether sending a full ring
                    \* may take longer than the transmit handler polls (slow);
                    \* whether the engine may get to the link that is open between
                    \* two stores of the driver (swift); whether frames arrive;
                    \* and which pbufs, in chains of which lengths, the stack sends

NULL == 0
Pbufs == Pool \cup Heap
TxBds == 1 .. NumTx
RxBds == 1 .. NumRx

ASSUME SizesAssumption ==
    /\ NumTx \in Nat /\ MaxChain \in 1 .. (NumTx - 1) /\ NumRx \in Nat \ {0}
    /\ Pool \subseteq Nat \ {0} /\ Heap \subseteq Nat \ {0} /\ Pool \cap Heap = {}
    /\ IsFiniteSet(Pool) /\ Cardinality(Pool) >= NumRx
    /\ MaxRef \in Nat \ {0}
    /\ Environments \subseteq [ahead : BOOLEAN, slow : BOOLEAN, swift : BOOLEAN,
                               frames : BOOLEAN, packets : SUBSET Pbufs,
                               lengths : SUBSET (1 .. MaxChain)]

VARIABLES
    txbd, txch, txdma,      \* cpdma_tx_bd's, struct txch, the transmit channel
    rxbd, rxch, rxdma,
    ref, held,              \* reference counts of the pbufs; those the stack refers to
    cpu,                    \* what the processor is about to do
    env,                    \* the engine and the traffic, which do not change
    queued,                 \* packets accepted for transmission and not reclaimed
    filled,                 \* pbufs filled by the engine and not given to the stack
    dry                     \* pbuf_alloc has returned NULL

tx == <<txbd, txch, txdma, queued>>
rx == <<rxbd, rxch, rxdma, filled, dry>>
vars == <<tx, rx, ref, held, cpu, env>>

Idle == [at |-> NULL, latched |-> FALSE, next |-> NULL,
         cp |-> NULL, armed |-> TRUE, pulse |-> FALSE, clobbered |-> FALSE]

\* pbuf_alloc gives out pbufs of the pool in some order.
Order(S) ==
    CHOOSE o \in [1 .. Cardinality(S) -> S] :
        \A i, j \in 1 .. Cardinality(S) : o[i] = o[j] => i = j

\* cpswif_cpdma_init, and the rest of cpswif_inst_init that concerns the rings.
\* The pool holds at least a ring of pbufs: all of it is posted for reception.
Init ==
    /\ txbd = [b \in TxBds |-> [next |-> (b % NumTx) + 1, owner |-> FALSE, sop |-> FALSE,
                                eop |-> FALSE, eoq |-> FALSE, pbuf |-> NULL]]
    /\ txch = [free_head |-> 1, send_head |-> 1, send_tail |-> NULL, free_num |-> NumTx]
    /\ txdma = Idle
    /\ rxbd = [b \in RxBds |-> [next |-> IF b = NumRx THEN NULL ELSE b + 1,
                                owner |-> TRUE, eoq |-> FALSE, pbuf |-> Order(Pool)[b]]]
    /\ ref = [p \in Pbufs |-> IF \E b \in RxBds : p = Order(Pool)[b] THEN 1 ELSE 0]
    /\ rxch = [free_head |-> 1, recv_head |-> 1, recv_tail |-> NumRx, free_num |-> 0]
    /\ rxdma = [Idle EXCEPT !.at = 1]
    /\ held = {}
    /\ cpu = [pc |-> "stack", ret |-> "stack", tail |-> NULL, head |-> NULL]
    /\ env \in Environments
    /\ queued = << >> /\ filled = << >> /\ dry = FALSE

-----------------------------------------------------------------------------
(* A channel of the engine, and its interrupt.                             *)

\* CPSWCPDMATxHdrDescPtrWrite, CPSWCPDMARxHdrDescPtrWrite.
WriteHDP(dma, b) == [dma EXCEPT !.at = b, !.latched = FALSE, !.next = NULL,
                                !.clobbered = @ \/ dma.at # NULL]

\* The "next" of descriptor e, as the channel finds it when the packet is done.
NextOf(dma, e, bd) == IF env.ahead THEN dma.next ELSE bd[e].next

Complete(dma, e, next) ==
    [at |-> next, latched |-> FALSE, next |-> NULL, cp |-> e,
     armed |-> FALSE, pulse |-> dma.pulse \/ dma.armed, clobbered |-> dma.clobbered]

\* CPSWCPDMATxCPWrite, CPSWCPDMARxCPWrite: it withdraws the request when it names
\* the last descriptor completed (cp, until then).
WriteCP(dma, e) == [dma EXCEPT !.cp = IF @ = e THEN NULL ELSE @]

\* CPSWCPDMAEndOfIntVectorWrite.
WriteEOI(dma) == [dma EXCEPT !.armed = dma.cp = NULL, !.pulse = @ \/ dma.cp # NULL]

\* The first n descriptors of the chain that starts at b, NULL past its end.
Walk(bd, b, n) ==
    LET w[i \in 1 .. n] == IF i = 1 THEN b
                           ELSE IF w[i - 1] = NULL THEN NULL ELSE bd[w[i - 1]].next
    IN  w

\* The number of descriptors of the packet that starts at b, up to the first with
\* EOP, and the last of them.
PacketLength(bd, b) ==
    LET at == Walk(bd, b, NumTx)
    IN  CHOOSE n \in 1 .. NumTx :
            /\ bd[at[n]].eop \/ n = NumTx
            /\ \A i \in 1 .. n - 1 : ~bd[at[i]].eop

PacketEnd(bd, b) == Walk(bd, b, NumTx)[PacketLength(bd, b)]

TxBegin ==
    /\ env.ahead /\ txdma.at # NULL /\ ~txdma.latched
    /\ txdma' = [txdma EXCEPT !.latched = TRUE,
                              !.next = txbd[PacketEnd(txbd, txdma.at)].next]
    /\ UNCHANGED <<txbd, txch, queued, rx, ref, held, cpu, env>>

TxDone ==
    /\ txdma.at # NULL /\ (env.ahead => txdma.latched)
    /\ LET e == PacketEnd(txbd, txdma.at)
           next == NextOf(txdma, e, txbd)
       IN  /\ txdma' = Complete(txdma, e, next)
           /\ txbd' = [txbd EXCEPT ![txdma.at].owner = FALSE,
                                   ![e].eoq = @ \/ next = NULL]
    /\ UNCHANGED <<txch, queued, rx, ref, held, cpu, env>>

\* The engine is about to get past the end of the chain that cpswif_rxbd_alloc is
\* still building: past a tail whose link is open, or to the end of a ring posted as a
\* whole before AllocKick has looked at its tail.  A swift engine does.  For one that
\* follows a link as it finishes a frame that takes all the frames posted in the time
\* of a few instructions; for one that reads ahead, the end of the frame in the old
\* tail just between the two stores, when one descriptor is posted.
Overtakes ==
    /\ rxdma.at = rxch.recv_tail
    /\ cpu.pc = "linked" \/ (cpu.pc = "posted" /\ cpu.tail = rxch.recv_tail)

RxBegin ==
    /\ env.ahead /\ rxdma.at # NULL /\ ~rxdma.latched
    /\ Overtakes => env.swift
    /\ rxdma' = [rxdma EXCEPT !.latched = TRUE, !.next = rxbd[rxdma.at].next]
    /\ UNCHANGED <<tx, rxbd, rxch, filled, dry, ref, held, cpu, env>>

\* A frame has arrived; without a descriptor it is lost.
RxDone ==
    /\ env.frames
    /\ rxdma.at # NULL /\ (env.ahead => rxdma.latched)
    /\ Overtakes => env.swift
    /\ LET next == NextOf(rxdma, rxdma.at, rxbd)
       IN  /\ rxdma' = Complete(rxdma, rxdma.at, next)
           /\ rxbd' = [rxbd EXCEPT ![rxdma.at].owner = FALSE,
                                   ![rxdma.at].eoq = (next = NULL)]
    /\ filled' = Append(filled, rxbd[rxdma.at].pbuf)
    /\ UNCHANGED <<tx, rxch, dry, ref, held, cpu, env>>

-----------------------------------------------------------------------------
(* The stack: in the main loop, and inside ethernet_input.  A pending      *)
(* interrupt is taken before the main loop goes on.                        *)

InStack ==
    \/ cpu.pc = "stack" /\ ~txdma.pulse /\ ~rxdma.pulse
    \/ cpu.pc = "input"

\* pbuf_free of a packet the stack is done with.
Release(p) ==
    /\ InStack /\ p \in held
    /\ held' = held \ {p}
    /\ ref' = [ref EXCEPT ![p] = @ - 1]
    /\ UNCHANGED <<tx, rx, cpu, env>>

\* Faulty variant: cpswif_output takes no reference of its own.
ForOutputUncounted(p) == IF p \in held THEN ref[p] ELSE 1

\* A packet to send is one the stack holds (an echo), or one it allocates.
HasPacket(p) == p \in held \/ (p \in Heap /\ ref[p] = 0)
ForOutput(p) == IF p \in held THEN ref[p] + 1 ELSE 2

\* cpswif_output of a packet whose chain of buffers exceeds the free descriptors:
\* ERR_MEM, and the reference taken by pbuf_ref stays.
OutputRefused(p, n) ==
    /\ InStack /\ HasPacket(p) /\ ForOutput(p) <= MaxRef
    /\ n > txch.free_num
    /\ ref' = [ref EXCEPT ![p] = ForOutput(p)]
    /\ held' = held \cup {p}
    /\ UNCHANGED <<tx, rx, cpu, env>>

\* The descriptors of a packet of n buffers: free_head and those that follow.
Taken(n) == Walk(txbd, txch.free_head, n)

\* Faulty variant: the last descriptor keeps its link into the free ones.
DescribedOpen(bds, n, p) ==
    [b \in TxBds |->
        IF \A i \in 1 .. n : bds[i] # b THEN txbd[b]
        ELSE [next |-> txbd[b].next,
              owner |-> b = bds[1] \/ txbd[b].owner,
              sop |-> b = bds[1] \/ txbd[b].sop,
              eop |-> b = bds[n] \/ (b # bds[1] /\ txbd[b].eop),
              eoq |-> b # bds[1] /\ b # bds[n] /\ txbd[b].eoq,
              pbuf |-> p]]

\* The descriptors filled in, for packet p.
Described(bds, n, p) ==
    [b \in TxBds |->
        IF \A i \in 1 .. n : bds[i] # b THEN txbd[b]
        ELSE [next |-> IF b = bds[n] THEN NULL ELSE txbd[b].next,
              owner |-> b = bds[1] \/ txbd[b].owner,
              sop |-> b = bds[1] \/ txbd[b].sop,
              eop |-> b = bds[n] \/ (b # bds[1] /\ txbd[b].eop),
              eoq |-> b # bds[1] /\ b # bds[n] /\ txbd[b].eoq,
              pbuf |-> p]]

\* cpswif_output: pbuf_ref, and cpswif_transmit as far as the chaining of the
\* descriptors to those being sent.  (Of a chain shorter than MIN_PKT_LEN only the
\* last buffer is sent: a packet of one buffer here.)
Output(p, n) ==
    /\ InStack /\ HasPacket(p) /\ ForOutput(p) <= MaxRef
    /\ n <= txch.free_num
    /\ ref' = [ref EXCEPT ![p] = ForOutput(p)]
    /\ held' = held \cup {p}
    /\ LET bds == Taken(n)
           bd == Described(bds, n, p)
       IN  /\ txch' = [txch EXCEPT !.free_num = @ - n,
                                   !.free_head = txbd[bds[n]].next,
                                   !.send_tail = IF @ = NULL THEN bds[n] ELSE @]
           /\ IF txch.send_tail = NULL
              THEN /\ txdma' = WriteHDP(txdma, bds[1])
                   /\ txbd' = bd
                   /\ UNCHANGED cpu
              ELSE /\ txbd' = [bd EXCEPT ![txch.send_tail].next = bds[1]]
                   /\ cpu' = [cpu EXCEPT !.pc = "chained", !.ret = cpu.pc]
                   /\ UNCHANGED txdma
    /\ queued' = Append(queued, [pbuf |-> p, n |-> n])
    /\ UNCHANGED <<rx, env>>

\* Faulty variant: the engine is started whether it has halted or not.
TransmitKickAlways ==
    /\ cpu.pc = "chained"
    /\ LET bd_to_send == txbd[txch.send_tail].next
       IN  /\ txdma' = WriteHDP(txdma, bd_to_send)
           /\ txch' = [txch EXCEPT !.send_tail = PacketEnd(txbd, bd_to_send)]
    /\ cpu' = [cpu EXCEPT !.pc = cpu.ret, !.ret = "stack"]
    /\ UNCHANGED <<txbd, queued, rx, ref, held, env>>

\* The rest of cpswif_transmit: when the engine had already halted at the end of
\* the chain it is started again.
TransmitKick ==
    /\ cpu.pc = "chained"
    /\ LET bd_to_send == txbd[txch.send_tail].next
       IN  /\ txdma' = IF txbd[txch.send_tail].eoq THEN WriteHDP(txdma, bd_to_send) ELSE txdma
           /\ txch' = [txch EXCEPT !.send_tail = PacketEnd(txbd, bd_to_send)]
    /\ cpu' = [cpu EXCEPT !.pc = cpu.ret, !.ret = "stack"]
    /\ UNCHANGED <<txbd, queued, rx, ref, held, env>>

-----------------------------------------------------------------------------
(* cpswif_rx_inthandler.                                                   *)

RxIsr ==
    /\ cpu.pc = "stack" /\ rxdma.pulse
    /\ rxdma' = [rxdma EXCEPT !.pulse = FALSE]
    /\ cpu' = [cpu EXCEPT !.pc = "rx"]
    /\ UNCHANGED <<tx, rxbd, rxch, filled, dry, ref, held, env>>

\* A received packet goes up to the stack.
RxPacket ==
    /\ cpu.pc = "rx" /\ ~rxbd[rxch.recv_head].owner
    /\ LET b == rxch.recv_head
       IN  /\ rxbd' = [rxbd EXCEPT ![b].owner = TRUE, ![b].eoq = FALSE]
           /\ held' = held \cup {rxbd[b].pbuf}
    /\ filled' = Tail(filled)
    /\ cpu' = [cpu EXCEPT !.pc = "input"]
    /\ UNCHANGED <<tx, rxch, rxdma, dry, ref, env>>

\* Faulty variant: at the end of the chain the handler keeps its place.
RxNextStays ==
    /\ cpu.pc = "input"
    /\ LET next == rxbd[rxch.recv_head].next
       IN  /\ rxdma' = WriteCP(rxdma, rxch.recv_head)
           /\ rxch' = [rxch EXCEPT !.free_num = @ + 1,
                                   !.recv_head = IF next = NULL THEN @ ELSE next]
           /\ cpu' = [cpu EXCEPT !.pc = IF next = NULL THEN "rx_eoi" ELSE "rx"]
    /\ UNCHANGED <<tx, rxbd, filled, dry, ref, held, env>>

\* ethernet_input returns: the descriptor is acknowledged and becomes free.
RxNext ==
    /\ cpu.pc = "input"
    /\ LET next == rxbd[rxch.recv_head].next
       IN  /\ rxdma' = WriteCP(rxdma, rxch.recv_head)
           /\ rxch' = [rxch EXCEPT !.free_num = @ + 1,
                                   !.recv_head = IF next = NULL THEN rxch.free_head ELSE next]
           /\ cpu' = [cpu EXCEPT !.pc = IF next = NULL THEN "rx_eoi" ELSE "rx"]
    /\ UNCHANGED <<tx, rxbd, filled, dry, ref, held, env>>

RxEnd ==
    /\ \/ cpu.pc = "rx" /\ rxbd[rxch.recv_head].owner
       \/ cpu.pc = "rx_eoi"
    /\ rxdma' = WriteEOI(rxdma)
    /\ cpu' = [cpu EXCEPT !.pc = "alloc"]
    /\ UNCHANGED <<tx, rxbd, rxch, filled, dry, ref, held, env>>

-----------------------------------------------------------------------------
(* cpswif_rxbd_alloc, which ends both handlers.                            *)

Free == {p \in Pool : ref[p] = 0}

\* Faulty variant: a failed allocation moves the free head on.
AllocNoneAdvances ==
    /\ cpu.pc = "alloc"
    /\ rxch.free_num = 0 \/ Free = {}
    /\ dry' = (dry \/ rxch.free_num > 0)
    /\ cpu' = [cpu EXCEPT !.pc = "stack"]
    /\ rxch' = [rxch EXCEPT !.free_head = IF rxbd[@].next = NULL THEN @ ELSE rxbd[@].next]
    /\ UNCHANGED <<tx, rxbd, rxdma, filled, ref, held, env>>

AllocNone ==
    /\ cpu.pc = "alloc"
    /\ rxch.free_num = 0 \/ Free = {}
    /\ dry' = (dry \/ rxch.free_num > 0)
    /\ cpu' = [cpu EXCEPT !.pc = "stack"]
    /\ UNCHANGED <<tx, rxbd, rxch, rxdma, filled, ref, held, env>>

\* The loop, and the chaining of the k descriptors it filled behind the old tail.  The
\* last of them still has its link, into the free descriptors or, when the loop ended
\* at NULL and the whole ring is posted, round to the first.
Alloc ==
    /\ cpu.pc = "alloc" /\ rxch.free_num > 0 /\ Free # {}
    /\ LET k == IF Cardinality(Free) < rxch.free_num THEN Cardinality(Free)
                ELSE rxch.free_num
           b == Walk(rxbd, rxch.free_head, k + 1)
           curr_bd == b[k + 1]
           filledIn == [c \in RxBds |->
               IF \E i \in 1 .. k : b[i] = c
               THEN [rxbd[c] EXCEPT !.owner = TRUE, !.eoq = FALSE,
                                    !.pbuf = Order(Free)[CHOOSE i \in 1 .. k : b[i] = c]]
               ELSE rxbd[c]]
       IN  /\ rxbd' = [filledIn EXCEPT ![rxch.recv_tail].next = rxch.free_head]
           /\ ref' = [p \in Pbufs |-> IF \E i \in 1 .. k : Order(Free)[i] = p THEN 1 ELSE ref[p]]
           /\ rxch' = [rxch EXCEPT !.free_num = @ - k, !.recv_tail = b[k],
                                   !.free_head = IF curr_bd = NULL THEN @ ELSE curr_bd]
           /\ rxdma' = IF curr_bd = NULL THEN WriteHDP(rxdma, rxch.free_head) ELSE rxdma
           /\ dry' = (dry \/ k < rxch.free_num)
    /\ cpu' = [cpu EXCEPT !.pc = "linked", !.tail = rxch.recv_tail, !.head = rxch.free_head]
    /\ UNCHANGED <<tx, filled, held, env>>

\* Faulty variant: the chain is not closed.
AllocCloseNever ==
    /\ cpu.pc = "linked"
    /\ rxbd' = rxbd
    /\ cpu' = [cpu EXCEPT !.pc = "posted"]
    /\ UNCHANGED <<tx, rxch, rxdma, filled, dry, ref, held, env>>

\* "Close the ring to prevent overwriting of pbuf data": one store later.
AllocClose ==
    /\ cpu.pc = "linked"
    /\ rxbd' = [rxbd EXCEPT ![rxch.recv_tail].next = NULL]
    /\ cpu' = [cpu EXCEPT !.pc = "posted"]
    /\ UNCHANGED <<tx, rxch, rxdma, filled, dry, ref, held, env>>

\* Faulty variant: a halted engine is not started again.
AllocKickNever ==
    /\ cpu.pc = "posted"
    /\ rxdma' = rxdma
    /\ cpu' = [cpu EXCEPT !.pc = "stack", !.tail = NULL, !.head = NULL]
    /\ UNCHANGED <<tx, rxbd, rxch, filled, dry, ref, held, env>>

\* The engine may have halted at the old tail: it is started again.
AllocKick ==
    /\ cpu.pc = "posted"
    /\ rxdma' = IF rxbd[cpu.tail].eoq THEN WriteHDP(rxdma, cpu.head) ELSE rxdma
    /\ cpu' = [cpu EXCEPT !.pc = "stack", !.tail = NULL, !.head = NULL]
    /\ UNCHANGED <<tx, rxbd, rxch, filled, dry, ref, held, env>>

-----------------------------------------------------------------------------
(* cpswif_tx_inthandler.                                                   *)

TxIsr ==
    /\ cpu.pc = "stack" /\ txdma.pulse
    /\ txdma' = [txdma EXCEPT !.pulse = FALSE]
    /\ cpu' = [cpu EXCEPT !.pc = "tx"]
    /\ UNCHANGED <<txbd, txch, queued, rx, ref, held, env>>

\* Faulty variant: the last descriptor of a packet is counted twice.
TxReclaimTwice ==
    /\ cpu.pc = "tx" /\ txbd[txch.send_head].sop /\ ~txbd[txch.send_head].owner
    /\ LET b == txch.send_head
           e == PacketEnd(txbd, b)
           n == PacketLength(txbd, b)
       IN  /\ txbd' = [[txbd EXCEPT ![b].sop = FALSE] EXCEPT ![e].eop = FALSE]
           /\ txch' = [txch EXCEPT !.free_num = @ + n + 1,
                          !.send_head = IF txbd[e].next = NULL THEN txch.free_head
                                        ELSE txbd[e].next]
           /\ txdma' = WriteCP(txdma, e)
           /\ ref' = [ref EXCEPT ![txbd[e].pbuf] = @ - 1]
    /\ queued' = Tail(queued)
    /\ UNCHANGED <<rx, held, cpu, env>>

\* A packet that has been sent: its descriptors are free and its pbuf is freed.
TxReclaim ==
    /\ cpu.pc = "tx" /\ txbd[txch.send_head].sop /\ ~txbd[txch.send_head].owner
    /\ LET b == txch.send_head
           e == PacketEnd(txbd, b)
           n == PacketLength(txbd, b)
       IN  /\ txbd' = [[txbd EXCEPT ![b].sop = FALSE] EXCEPT ![e].eop = FALSE]
           /\ txch' = [txch EXCEPT !.free_num = @ + n,
                          !.send_head = IF txbd[e].next = NULL THEN txch.free_head
                                        ELSE txbd[e].next]
           /\ txdma' = WriteCP(txdma, e)
           /\ ref' = [ref EXCEPT ![txbd[e].pbuf] = @ - 1]
    /\ queued' = Tail(queued)
    /\ UNCHANGED <<rx, held, cpu, env>>

\* The 65535 polls of this run of the handler, over all the packets it has waited for,
\* run out with the packet not sent: the engine has halted, or a slow one is at work.
TxPollsRunOut ==
    /\ cpu.pc = "tx" /\ txbd[txch.send_head].sop /\ txbd[txch.send_head].owner
    /\ txdma.at = NULL \/ env.slow
    /\ cpu' = [cpu EXCEPT !.pc = "giveup"]
    /\ UNCHANGED <<tx, rx, ref, held, env>>

\* The engine is started at the packet, halted or not, and the handler returns without
\* the end-of-interrupt write.
TxGiveUp ==
    /\ cpu.pc = "giveup"
    /\ txdma' = WriteHDP(txdma, txch.send_head)
    /\ cpu' = [cpu EXCEPT !.pc = "stack"]
    /\ UNCHANGED <<txbd, txch, queued, rx, ref, held, env>>

\* Faulty variant: the end-of-interrupt write is left out.
TxEndUnacknowledged ==
    /\ cpu.pc = "tx" /\ ~txbd[txch.send_head].sop
    /\ txdma' = txdma
    /\ cpu' = [cpu EXCEPT !.pc = "alloc"]
    /\ UNCHANGED <<txbd, txch, queued, rx, ref, held, env>>

TxEnd ==
    /\ cpu.pc = "tx" /\ ~txbd[txch.send_head].sop
    /\ txdma' = WriteEOI(txdma)
    /\ cpu' = [cpu EXCEPT !.pc = "alloc"]
    /\ UNCHANGED <<txbd, txch, queued, rx, ref, held, env>>

-----------------------------------------------------------------------------

StackStep ==
    \/ \E p \in held : Release(p)
    \/ \E p \in env.packets, n \in env.lengths : Output(p, n) \/ OutputRefused(p, n)

Handler ==
    \/ TransmitKick
    \/ RxIsr \/ RxPacket \/ RxNext \/ RxEnd
    \/ TxIsr \/ TxReclaim \/ TxPollsRunOut \/ TxGiveUp \/ TxEnd
    \/ AllocNone \/ Alloc \/ AllocClose \/ AllocKick

Next == TxBegin \/ TxDone \/ RxBegin \/ RxDone \/ StackStep \/ Handler

Spec == Init /\ [][Next]_vars

\* The engine sends what it has been given.  The processor runs its handlers; an
\* interrupt requested again and again is taken, and ethernet_input returns.
Fairness ==
    /\ WF_vars(TxBegin) /\ WF_vars(TxDone)
    /\ WF_vars(TransmitKick)
    /\ SF_vars(RxIsr) /\ SF_vars(TxIsr) /\ WF_vars(RxPacket) /\ SF_vars(RxNext)
    /\ WF_vars(RxEnd) /\ WF_vars(TxReclaim) /\ WF_vars(TxEnd)
    /\ WF_vars(TxPollsRunOut) /\ WF_vars(TxGiveUp)
    /\ WF_vars(AllocNone) /\ WF_vars(Alloc) /\ WF_vars(AllocClose) /\ WF_vars(AllocKick)

FairSpec == Spec /\ Fairness

-----------------------------------------------------------------------------
(* Properties.                                                             *)

DmaType(Bds) ==
    [at : Bds \cup {NULL}, latched : BOOLEAN, next : Bds \cup {NULL},
     cp : Bds \cup {NULL}, armed : BOOLEAN, pulse : BOOLEAN, clobbered : BOOLEAN]

\* The values of the rings and of what the processor is about to do.
TypeOK ==
    /\ txbd \in [TxBds -> [next : TxBds \cup {NULL}, owner : BOOLEAN, sop : BOOLEAN,
                           eop : BOOLEAN, eoq : BOOLEAN, pbuf : Pbufs \cup {NULL}]]
    /\ txch \in [free_head : TxBds, send_head : TxBds, send_tail : TxBds \cup {NULL},
                 free_num : 0 .. NumTx]
    /\ rxbd \in [RxBds -> [next : RxBds \cup {NULL}, owner : BOOLEAN, eoq : BOOLEAN,
                           pbuf : Pool]]
    /\ rxch \in [free_head : RxBds, recv_head : RxBds, recv_tail : RxBds,
                 free_num : 0 .. NumRx]
    /\ txdma \in DmaType(TxBds) /\ rxdma \in DmaType(RxBds)
    /\ ref \in [Pbufs -> 0 .. MaxRef] /\ held \subseteq Pbufs
    /\ cpu \in [pc : {"stack", "rx", "input", "rx_eoi", "tx", "giveup", "alloc", "linked",
                      "posted", "chained"},
                ret : {"stack", "input"}, tail : RxBds \cup {NULL}, head : RxBds \cup {NULL}]
    /\ env \in Environments /\ dry \in BOOLEAN
    /\ queued \in Seq([pbuf : Pbufs, n : 1 .. MaxChain]) /\ filled \in Seq(Pool)

\* The receive ring without the link that Alloc leaves open for AllocClose.
Closed ==
    IF cpu.pc = "linked" THEN [rxbd EXCEPT ![rxch.recv_tail].next = NULL] ELSE rxbd

\* Every descriptor that the engine can still fill is its own and has a pbuf of its
\* own, which neither the stack nor another packet uses; and the chain ends.  A ring
\* left open, a descriptor posted twice or one given back too early lets the engine
\* write over a packet the stack is reading.  Between the two stores of
\* cpswif_rxbd_alloc that open and close the chain it does not end in memory: what is
\* said there is that it will, and that the engine is not past its end.
BufferHasOneOwner ==
    LET at == Walk(Closed, rxdma.at, NumRx + 1)
        chain == {i \in 1 .. NumRx : at[i] # NULL}
    IN  /\ at[NumRx + 1] = NULL
        /\ \A i \in chain :
               /\ rxbd[at[i]].owner
               /\ ref[rxbd[at[i]].pbuf] = 1 /\ rxbd[at[i]].pbuf \notin held
               /\ \A q \in DOMAIN queued : queued[q].pbuf # rxbd[at[i]].pbuf
               /\ \A j \in chain \ {i} : rxbd[at[j]].pbuf # rxbd[at[i]].pbuf

\* Packets reach the stack in the order of their arrival: whatever has been filled,
\* the descriptor the handler turns to next holds the oldest.
NextIsOldest ==
    filled # << >> /\ cpu.pc # "input" /\ cpu.ret # "input" =>
        /\ ~rxbd[rxch.recv_head].owner
        /\ rxbd[rxch.recv_head].pbuf = Head(filled)

\* The descriptors in use and the free ones share the ring: as many from recv_head to
\* recv_tail as free_num leaves, then free_num from free_head on, none of them twice.
RingPartitioned ==
    cpu.pc \notin {"input"} /\ cpu.ret # "input" =>
        LET posted == NumRx - rxch.free_num
            use == Walk(Closed, rxch.recv_head, NumRx + 1)
            free == Walk(Closed, rxch.free_head, NumRx)
            used == {use[i] : i \in 1 .. posted}
            spare == {free[i] : i \in 1 .. rxch.free_num}
        IN  /\ used \cup spare = RxBds
            /\ posted > 0 => use[posted] = rxch.recv_tail /\ use[posted + 1] = NULL

\* How many descriptors the first k packets of a queue take.
Offsets(q) ==
    LET before[k \in 0 .. Len(q)] == IF k = 0 THEN 0 ELSE before[k - 1] + q[k].n
    IN  before

\* The transmit ring holds the accepted packets, oldest first from send_head, each
\* from a descriptor with SOP to one with EOP; the rest is counted free.
RingHoldsQueued ==
    LET before == Offsets(queued)
        at == Walk(txbd, txch.send_head, NumTx)
    IN  /\ before[Len(queued)] + txch.free_num = NumTx
        /\ \A k \in DOMAIN queued :
               LET b == at[before[k - 1] + 1]
                   e == at[before[k]]
               IN  /\ txbd[b].sop /\ PacketLength(txbd, b) = queued[k].n
                   /\ txbd[e].pbuf = queued[k].pbuf
                   /\ k = Len(queued) => txbd[e].next = NULL

\* A packet in the transmit ring has a reference of its own, beside the stack's: the
\* pbuf is not given to another packet while the engine reads it.
KeptWhileQueued ==
    \A p \in Pbufs :
        ref[p] >= Cardinality({k \in DOMAIN queued : queued[k].pbuf = p})
                      + (IF p \in held THEN 1 ELSE 0)

\* No head descriptor pointer is written while its channel runs, by cpswif_transmit, by
\* cpswif_rxbd_alloc or by a transmit handler that gives up, unless the polls of the
\* last ran out on an engine still at work.
StartsOnlyHalted == ~rxdma.clobbered /\ (txdma.clobbered => env.slow)

\* "If CPDMA failed to transmit, give it a chance once more" (cpswif.c:2188): the
\* handler gives up, and writes the head descriptor pointer, when the engine has failed,
\* not while it works through a full ring.  Violated by a slow engine
\* (MCCPSWIf_slow.cfg).
GivesUpOnlyAfterFailure == ~txdma.clobbered

\* The processor is in the main loop and no interrupt is to come.
Quiet == cpu.pc = "stack" /\ ~rxdma.pulse /\ ~txdma.pulse

\* Reception has stopped for good: descriptors are posted and the engine, halted,
\* has not been told.
Stalled == Quiet /\ rxdma.at = NULL /\ rxch.free_num < NumRx

\* "If the EOQ flag is set, the NULL Pointer is already taken by the DMA engine. So
\* we need to write the RX HDP with the next descriptor." (cpswif.c:1584)
NeverStalls == ~Stalled

\* Reception stops for good only when the pool has run dry, or the engine read the
\* end of the chain before it was extended.
StallsOnlyWhenDry == Stalled => dry \/ env.ahead

\* "If there are no more data transmitted, the next interrupt shall happen with the
\* pbuf associated with the free_head" (cpswif.c:2214): the packets that cpswif_output
\* has accepted keep being sent and given back, the oldest never stays, when the engine
\* follows "next" as it finishes a packet.  Violated by a slow engine
\* (MCCPSWIf_giveup.cfg), after which no interrupt comes.
PacketsAreGivenBack ==
    ~env.ahead => []<>(queued = << >>) \/ []<><<Len(queued') < Len(queued)>>_vars

\* The same of an engine that sends a full ring before the handler has given up.
PacketsAreSent == ~env.slow => PacketsAreGivenBack
=============================================================================
