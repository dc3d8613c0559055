--------------------------- MODULE USBBulkTxProofs ---------------------------
(***************************************************************************)
(* Proofs about the transmit path, for every ring size, packet size and    *)
(* length of the client's writes, and for a client that is interrupted at  *)
(* any step but in the middle of an index update.                          *)
(***************************************************************************)
EXTENDS USBBulkTx, USBRingBufOpsProofs, SequenceTheorems, TLAPS

\* Adding and Wrapping name steps: that the others are none is needed throughout.
USE DEF Adding, Wrapping
-----------------------------------------------------------------------------
(* The inductive invariant.                                                *)

\* The ring as it is once the index update under way, if any, is complete.
Settled(r) == [ulReadIndex |-> r.ulReadIndex, ulWriteIndex |-> Wrap(r.ulWriteIndex)]

\* The bytes the ring holds, and the number of the last one that left it.
Held == USBRingBufUsed(Settled(ring))
Gone == accepted - Held

\* Ring r with storage buf holds the bytes that follow byte number gone.
Carries(r, buf, gone) ==
    \A k \in 1 .. USBRingBufUsed(r) : buf[Wrap(r.ulReadIndex + k - 1)] = gone + k

RingOK ==
    /\ pc \notin Wrapping => ring \in RingObject
    /\ Settled(ring) \in RingObject
    /\ Carries(Settled(ring), pucBuf, Gone)
    /\ Gone \in Nat

\* The bytes of the call under way have room, and those that are stored but not
\* yet visible lie behind the write index.
CallOK ==
    /\ pc = "store" => ulDelta = 1 /\ ulLength \in 1 .. USBRingBufFree(ring)
                       /\ accepted + ulLength <= MaxBytes
    /\ pc \in Adding => /\ ulLength \in 1 .. USBRingBufFree(ring)
                        /\ ulDelta \in 1 .. ulLength
                        /\ ulDelta = ulLength \/ ulDelta = 1
                        /\ accepted + ulLength <= MaxBytes
                        /\ \A k \in 1 .. ulDelta :
                               pucBuf[Wrap(ring.ulWriteIndex + k - 1)] = accepted + k
    /\ pc \in Wrapping => /\ ulDelta \in 1 .. ulLength
                          /\ ulDelta = ulLength \/ ulDelta = 1
                          /\ ulLength - ulDelta <= USBRingBufFree(Settled(ring))
                          /\ accepted + (ulLength - ulDelta) <= MaxBytes

Scheduling == pc \in {"contig", "total", "transfer1", "transfer2"}

\* While the client prepares a packet nothing else touches the ring or the
\* endpoint, and what it has read of them is still so.
ScheduleOK ==
    /\ Scheduling => ep.eBulkTxState = "IDLE" /\ ulPacket = MaxPacket
    /\ pc \in {"total", "transfer1", "transfer2"} => ulSpace = USBRingBufContigUsed(ring)
    /\ pc \in {"transfer1", "transfer2"} => ulTotal = USBRingBufUsed(ring) /\ ulSpace > 0
    /\ pc = "transfer2" => /\ IsSplit(ulSpace, ulPacket, ulTotal)
                           /\ Len(ep.fifo) = FirstPart(ulSpace, ulPacket)

\* The endpoint holds the oldest bytes of the ring, and the host has had all
\* bytes before them; the driver waits exactly while a packet is on its way.
EndpointOK ==
    /\ ep.eBulkTxState = "WAIT_DATA" <=> ep.txrdy \/ txIntr
    /\ ~(ep.txrdy /\ txIntr)
    /\ ~ep.txrdy /\ pc # "transfer2" => Len(ep.fifo) = 0
    /\ Len(ep.fifo) <= MaxPacket
    /\ ep.usLastTxSize <= Held
    /\ ~txIntr => /\ ep.usLastTxSize = Len(ep.fifo) /\ acked = 0
                  /\ base + Len(received) = Gone
    /\ txIntr => /\ acked = ep.usLastTxSize
                 /\ base + Len(received) = Gone + ep.usLastTxSize
    /\ \A k \in 1 .. Len(ep.fifo) : ep.fifo[k] = Gone + k

\* The device is configured once, and the transmitter is ready from then on.
BusOK ==
    /\ configured <=> configs = 1
    /\ configured <=> ep.eBulkTxState # "UNCONFIGURED"
    /\ configs \in {0, 1}

\* An idle transmitter with data to send has a client on the way to it.
NotStranded == ep.eBulkTxState = "IDLE" /\ Held > 0 => pc # "idle"

Inv ==
    /\ TypeOK /\ RingOK /\ CallOK /\ ScheduleOK /\ EndpointOK /\ BusOK
    /\ NotStranded /\ StreamIntact
-----------------------------------------------------------------------------
(* Building a packet.                                                      *)

\* The bytes of a part are the ones that follow byte number start.
Follows(bytes, start) ==
    bytes \in Seq(Nat) /\ \A k \in 1 .. Len(bytes) : bytes[k] = start + k

\* Endpoint e holds, and has counted, the n bytes that follow number gone.
Packed(e, n, gone) ==
    /\ e \in Endpoint
    /\ Len(e.fifo) = n /\ e.usLastTxSize = n
    /\ Follows(e.fifo, gone)

\* A packet's size fits an unsigned short.
LEMMA PacketIsShort ==
    USHRT_MAX \in Nat /\ MaxPacket \in Nat \ {0} /\ MaxPacket <= USHRT_MAX
<1>1. USHRT_MAX \in Nat
  BY DEF USHRT_MAX
<1> QED BY <1>1, PacketAssumption

\* ... so that the 16-bit count of a packet in the making does not wrap.
LEMMA NoOverflow ==
    ASSUME NEW n \in Nat, n <= MaxPacket
    PROVE  n % (USHRT_MAX + 1) = n
<1>1. n <= USHRT_MAX
  BY PacketIsShort
<1> QED BY <1>1 DEF USHRT_MAX

\* n bytes of storage are a sequence of n bytes.
LEMMA BlockIsSequence ==
    ASSUME pucBuf \in [Index -> Nat], NEW i \in Nat, NEW n \in Nat, i + n <= ulSize
    PROVE  /\ Block(i, n) \in Seq(Nat) /\ Len(Block(i, n)) = n
           /\ \A k \in 1 .. n : Block(i, n)[k] = pucBuf[i + k - 1]
<1>1. \A k \in 1 .. n : i + k - 1 \in Index
  BY SizeAssumption DEF Index
<1> QED BY <1>1 DEF Block

\* Bytes put behind the ones they follow make one sequence.
LEMMA ConcatFollows ==
    ASSUME NEW s, NEW t, NEW gone \in Nat, NEW start,
           Follows(s, gone), Follows(t, start), start = gone + Len(s)
    PROVE  Follows(s \o t, gone) /\ Len(s \o t) = Len(s) + Len(t)
<1> SUFFICES ASSUME s \in Seq(Nat), t \in Seq(Nat),
                    \A k \in 1 .. Len(s) : s[k] = gone + k,
                    \A k \in 1 .. Len(t) : t[k] = gone + Len(s) + k
             PROVE  /\ s \o t \in Seq(Nat)
                    /\ Len(s \o t) = Len(s) + Len(t)
                    /\ \A k \in 1 .. Len(s \o t) : (s \o t)[k] = gone + k
  BY DEF Follows
<1>1. s \o t \in Seq(Nat) /\ Len(s \o t) = Len(s) + Len(t)
  OBVIOUS
<1>2. ASSUME NEW k \in 1 .. Len(s \o t), k <= Len(s)
      PROVE  (s \o t)[k] = gone + k
  BY <1>1, <1>2
<1>3. ASSUME NEW k \in 1 .. Len(s \o t), k > Len(s)
      PROVE  (s \o t)[k] = gone + k
  <2>1. k - Len(s) \in 1 .. Len(t)
    BY <1>1, <1>3
  <2>2. (s \o t)[k] = t[k - Len(s)]
    BY <1>1, <1>3
  <2>3. t[k - Len(s)] = gone + Len(s) + (k - Len(s))
    BY <2>1
  <2> QED BY <1>3, <2>2, <2>3
<1> QED BY <1>1, <1>2, <1>3

\* A part of a packet that the idle endpoint takes is put behind the parts it
\* has, and the last part commits the packet.
LEMMA PartWritten ==
    ASSUME NEW e, NEW m \in Nat, NEW gone \in Nat, Packed(e, m, gone),
           e.eBulkTxState = "IDLE", ~e.txrdy, NEW bLast \in BOOLEAN,
           NEW start, start = gone + m, NEW bytes, Follows(bytes, start),
           NEW n, n = m + Len(bytes), n <= MaxPacket,
           NEW f, f = USBDBulkPacketWrite(e, bytes, bLast)
    PROVE  /\ Packed(f, n, gone)
           /\ f.eBulkTxState = IF bLast THEN "WAIT_DATA" ELSE "IDLE"
           /\ f.txrdy = bLast
<1>1. bytes \in Seq(Nat) /\ Len(bytes) \in Nat
  BY DEF Follows
<1>2. n \in Nat /\ n \in 0 .. USHRT_MAX /\ Len(bytes) <= MaxPacket
  BY <1>1, PacketIsShort
<1>3. e.fifo \in Seq(Nat) /\ Len(e.fifo) = m /\ e.usLastTxSize = m
  BY DEF Packed, Endpoint
<1>4. f = [eBulkTxState |-> IF bLast THEN "WAIT_DATA" ELSE "IDLE",
           usLastTxSize |-> n % (USHRT_MAX + 1),
           fifo         |-> e.fifo \o bytes,
           txrdy        |-> bLast]
  <2>1. ~(Len(bytes) > MaxPacket)
    BY <1>1, <1>2, PacketIsShort
  <2> QED BY <1>3, <2>1 DEF USBDBulkPacketWrite
<1>5. n % (USHRT_MAX + 1) = n
  BY <1>2, NoOverflow
<1>6. Follows(e.fifo \o bytes, gone) /\ Len(e.fifo \o bytes) = n
  <2>1. Follows(e.fifo, gone) /\ start = gone + Len(e.fifo)
    BY <1>3 DEF Packed
  <2>2. Len(e.fifo \o bytes) = Len(e.fifo) + Len(bytes)
    BY <2>1, ConcatFollows
  <2> QED BY <1>3, <2>1, <2>2, ConcatFollows
<1>7. e.fifo \o bytes \in Seq(Nat)
  BY <1>6 DEF Follows
<1> QED
  BY <1>2, <1>4, <1>5, <1>6, <1>7 DEF Packed, Endpoint

\* The sizes of the two parts of a packet taken from ring r.
LEMMA PartSizes ==
    ASSUME NEW r \in RingObject, USBRingBufUsed(r) > 0,
           NEW space, space = USBRingBufContigUsed(r),
           NEW total, total = USBRingBufUsed(r)
    PROVE  /\ space \in 1 .. total /\ total \in Nat
           /\ FirstPart(space, MaxPacket) \in 1 .. MaxPacket
           /\ FirstPart(space, MaxPacket) <= space
           /\ IsSplit(space, MaxPacket, total)
                => /\ FirstPart(space, MaxPacket) = space
                   /\ SecondPart(space, MaxPacket, total) \in 1 .. (total - space)
                   /\ space + SecondPart(space, MaxPacket, total) <= MaxPacket
<1>1. space \in 1 .. total /\ total \in Nat
  BY TwoBlocks, UsedAndFree
<1> QED
  BY <1>1, PacketIsShort DEF FirstPart, IsSplit, SecondPart, Smaller

\* The first call of ScheduleNextTransmission hands over the oldest bytes, up to
\* the end of the storage.
LEMMA FirstPartBuilt ==
    ASSUME pucBuf \in [Index -> Nat], NEW r \in RingObject, NEW gone \in Nat,
           Carries(r, pucBuf, gone), USBRingBufUsed(r) > 0,
           NEW e, Packed(e, 0, gone), e.eBulkTxState = "IDLE", ~e.txrdy,
           NEW space, space = USBRingBufContigUsed(r),
           NEW total, total = USBRingBufUsed(r),
           NEW f, f = USBDBulkPacketWrite(
                          e, Block(r.ulReadIndex, FirstPart(space, MaxPacket)),
                          ~IsSplit(space, MaxPacket, total))
    PROVE  /\ Packed(f, FirstPart(space, MaxPacket), gone)
           /\ f.eBulkTxState = IF IsSplit(space, MaxPacket, total)
                               THEN "IDLE" ELSE "WAIT_DATA"
           /\ f.txrdy = ~IsSplit(space, MaxPacket, total)
<1> DEFINE n == FirstPart(space, MaxPacket)
           i == r.ulReadIndex
           last == ~IsSplit(space, MaxPacket, total)
<1>1. /\ space \in 1 .. total /\ total \in Nat
      /\ n \in 1 .. MaxPacket /\ n <= space
  BY PartSizes
<1>2. i \in Nat /\ i + n <= ulSize
  BY <1>1, TwoBlocks, SizeAssumption, PacketIsShort DEF RingObject, Index
<1>3. /\ Block(i, n) \in Seq(Nat) /\ Len(Block(i, n)) = n
      /\ \A k \in 1 .. n : Block(i, n)[k] = pucBuf[i + k - 1]
  <2>1. n \in Nat
    BY <1>1, PacketIsShort
  <2> HIDE DEF n, i
  <2> QED BY <1>2, <2>1, BlockIsSequence
<1>4. \A k \in 1 .. n : pucBuf[i + k - 1] = gone + k
  <2> TAKE k \in 1 .. n
  <2>1. k \in 1 .. space /\ k \in 1 .. total
    BY <1>1, PacketIsShort
  <2>2. Wrap(i + k - 1) = i + k - 1
    BY <2>1, TwoBlocks
  <2> QED BY <2>1, <2>2 DEF Carries
<1>5. Follows(Block(i, n), gone)
  <2> HIDE DEF n, i
  <2> QED BY <1>3, <1>4 DEF Follows
<1>6. last \in BOOLEAN
  BY DEF IsSplit
<1>7. n = 0 + Len(Block(i, n)) /\ n <= MaxPacket /\ gone = gone + 0
  BY <1>1, <1>3, PacketIsShort
<1>8. f = USBDBulkPacketWrite(e, Block(i, n), last)
  OBVIOUS
<1> HIDE DEF n, i, last
<1>9. /\ Packed(f, n, gone)
      /\ f.eBulkTxState = IF last THEN "WAIT_DATA" ELSE "IDLE"
      /\ f.txrdy = last
  <2>1. 0 \in Nat
    OBVIOUS
  <2>2. PICK bytes : bytes = Block(i, n)
    OBVIOUS
  <2>3. PICK b \in BOOLEAN : b = last
    BY <1>6
  <2>4. /\ Packed(f, n, gone)
        /\ f.eBulkTxState = IF b THEN "WAIT_DATA" ELSE "IDLE"
        /\ f.txrdy = b
    <3>1. Follows(bytes, gone) /\ f = USBDBulkPacketWrite(e, bytes, b)
      BY <1>5, <1>8, <2>2, <2>3
    <3>2. n = 0 + Len(bytes) /\ n <= MaxPacket /\ gone = gone + 0
      BY <1>7, <2>2
    <3> QED BY <2>1, <3>1, <3>2, PartWritten
  <2> QED BY <2>3, <2>4
<1> QED BY <1>9 DEF n, last

\* The second call, when there is one, hands over the bytes that follow, from
\* the start of the storage.
LEMMA SecondPartBuilt ==
    ASSUME pucBuf \in [Index -> Nat], NEW r \in RingObject, NEW gone \in Nat,
           Carries(r, pucBuf, gone), USBRingBufUsed(r) > 0,
           NEW space, space = USBRingBufContigUsed(r),
           NEW total, total = USBRingBufUsed(r),
           IsSplit(space, MaxPacket, total),
           NEW e, Packed(e, FirstPart(space, MaxPacket), gone),
           e.eBulkTxState = "IDLE", ~e.txrdy,
           NEW bLast \in BOOLEAN,
           NEW f, f = USBDBulkPacketWrite(
                          e, Block(0, SecondPart(space, MaxPacket, total)), bLast)
    PROVE  \E n \in 1 .. MaxPacket :
               /\ n <= total /\ Packed(f, n, gone)
               /\ f.eBulkTxState = IF bLast THEN "WAIT_DATA" ELSE "IDLE"
               /\ f.txrdy = bLast
<1> DEFINE m == SecondPart(space, MaxPacket, total)
<1>1. /\ space \in 1 .. total /\ total \in Nat
      /\ FirstPart(space, MaxPacket) = space
      /\ m \in 1 .. (total - space) /\ space + m <= MaxPacket
  BY PartSizes
<1>2. total <= ulSize - 1
  BY UsedAndFree
<1>3. /\ Block(0, m) \in Seq(Nat) /\ Len(Block(0, m)) = m
      /\ \A k \in 1 .. m : Block(0, m)[k] = pucBuf[0 + k - 1]
  <2>1. m \in Nat /\ 0 \in Nat /\ 0 + m <= ulSize
    BY <1>1, <1>2, SizeAssumption
  <2> HIDE DEF m
  <2> QED BY <2>1, BlockIsSequence
<1>4. \A k \in 1 .. m : pucBuf[k - 1] = gone + space + k
  <2> TAKE k \in 1 .. m
  <2>1. k \in 1 .. (total - space) /\ space + k \in 1 .. total
    BY <1>1
  <2>2. Wrap(r.ulReadIndex + (space + k) - 1) = k - 1
    BY <2>1, TwoBlocks
  <2>3. pucBuf[Wrap(r.ulReadIndex + (space + k) - 1)] = gone + (space + k)
    BY <2>1 DEF Carries
  <2> QED BY <2>2, <2>3, <1>1
<1> DEFINE start == gone + space
           n == space + m
<1>5. Follows(Block(0, m), start)
  <2>1. \A k \in 1 .. m : 0 + k - 1 = k - 1
    BY <1>1
  <2> HIDE DEF m
  <2> QED BY <1>3, <1>4, <2>1 DEF Follows
<1>6. Packed(e, space, gone) /\ space \in Nat
  BY <1>1
<1>7. f = USBDBulkPacketWrite(e, Block(0, m), bLast)
  OBVIOUS
<1> HIDE DEF m
<1>8. n = space + Len(Block(0, m)) /\ n \in 1 .. MaxPacket /\ n <= total
  BY <1>1, <1>3, PacketIsShort
<1>9. start = gone + space
  OBVIOUS
<1>10. n <= MaxPacket
  BY <1>8, PacketIsShort
<1> HIDE DEF n, start
<1>11. /\ Packed(f, n, gone)
       /\ f.eBulkTxState = IF bLast THEN "WAIT_DATA" ELSE "IDLE"
       /\ f.txrdy = bLast
  <2>1. PICK bytes : bytes = Block(0, m)
    OBVIOUS
  <2>2. Follows(bytes, start) /\ f = USBDBulkPacketWrite(e, bytes, bLast)
    BY <1>5, <1>7, <2>1
  <2>3. PICK l \in Nat : l = space
    BY <1>6
  <2>4. Packed(e, l, gone) /\ start = gone + l /\ n = l + Len(bytes)
    BY <1>6, <1>8, <1>9, <2>1, <2>3
  <2> QED BY <1>10, <2>2, <2>4, PartWritten
<1> QED BY <1>8, <1>11

\* ScheduleNextTransmission in an interrupt: nothing to send leaves the endpoint
\* idle; otherwise it holds the oldest bytes of the ring.
LEMMA ScheduleBuilds ==
    ASSUME pucBuf \in [Index -> Nat], NEW r \in RingObject, NEW gone \in Nat,
           Carries(r, pucBuf, gone),
           NEW e, Packed(e, 0, gone), e.eBulkTxState = "IDLE", ~e.txrdy,
           NEW f, f = ScheduleNextTransmission(r, e)
    PROVE  /\ USBRingBufUsed(r) = 0 => f = e
           /\ USBRingBufUsed(r) > 0 =>
                \E n \in 1 .. MaxPacket :
                    /\ n <= USBRingBufUsed(r) /\ Packed(f, n, gone)
                    /\ f.eBulkTxState = "WAIT_DATA" /\ f.txrdy = TRUE
<1> DEFINE space == USBRingBufContigUsed(r)
           total == USBRingBufUsed(r)
           split == IsSplit(space, MaxPacket, total)
           first == Block(r.ulReadIndex, FirstPart(space, MaxPacket))
           e1 == USBDBulkPacketWrite(e, first, ~split)
           e2 == USBDBulkPacketWrite(e1, Block(0, SecondPart(space, MaxPacket, total)), TRUE)
<1>1. USBDBulkTxPacketAvailable(e) = MaxPacket /\ MaxPacket # 0
  BY PacketIsShort DEF USBDBulkTxPacketAvailable
<1>2. f = IF space = 0 THEN e ELSE IF split THEN e2 ELSE e1
  BY <1>1 DEF ScheduleNextTransmission
<1>3. total \in Nat /\ space \in 0 .. total /\ (total > 0 => space > 0)
  BY UsedAndFree, TwoBlocks, SizeAssumption
<1>4. CASE total = 0
  BY <1>2, <1>3, <1>4
<1>5. CASE total > 0
  <2>1. /\ Packed(e1, FirstPart(space, MaxPacket), gone)
        /\ e1.eBulkTxState = IF split THEN "IDLE" ELSE "WAIT_DATA"
        /\ e1.txrdy = ~split
    BY <1>5, FirstPartBuilt
  <2>2. CASE split
    <3>1. \E n \in 1 .. MaxPacket :
              /\ n <= total /\ Packed(e2, n, gone)
              /\ e2.eBulkTxState = "WAIT_DATA" /\ e2.txrdy = TRUE
      <4>1. /\ Packed(e1, FirstPart(space, MaxPacket), gone)
            /\ e1.eBulkTxState = "IDLE" /\ ~e1.txrdy
        BY <2>1, <2>2
      <4>2. PICK bLast \in BOOLEAN : bLast = TRUE
        OBVIOUS
      <4>3. PICK g : g = e1
        OBVIOUS
      <4>4. e2 = USBDBulkPacketWrite(
                     g, Block(0, SecondPart(space, MaxPacket, total)), bLast)
        BY <4>2, <4>3
      <4> HIDE DEF e2, e1
      <4>5. \E n \in 1 .. MaxPacket :
                /\ n <= total /\ Packed(e2, n, gone)
                /\ e2.eBulkTxState = IF bLast THEN "WAIT_DATA" ELSE "IDLE"
                /\ e2.txrdy = bLast
        BY <1>5, <2>2, <4>1, <4>3, <4>4, SecondPartBuilt
      <4> QED BY <4>2, <4>5
    <3>2. space # 0
      BY <1>3, <1>5
    <3> HIDE DEF space, total, split, e1, e2
    <3>3. f = e2
      BY <1>2, <2>2, <3>2, Zenon
    <3>4. \E n \in 1 .. MaxPacket :
              /\ n <= total /\ Packed(f, n, gone)
              /\ f.eBulkTxState = "WAIT_DATA" /\ f.txrdy = TRUE
      BY <3>1, <3>3
    <3> QED BY <1>3, <1>5, <3>4 DEF total
  <2>3. CASE ~split
    <3>1. FirstPart(space, MaxPacket) \in 1 .. MaxPacket
          /\ FirstPart(space, MaxPacket) <= total
      BY <1>3, <1>5, PacketIsShort, PartSizes
    <3>2. space # 0
      BY <1>3, <1>5
    <3> HIDE DEF space, total, split, e1, e2
    <3>3. f = e1 /\ e1.eBulkTxState = "WAIT_DATA" /\ e1.txrdy = TRUE
      BY <1>2, <2>1, <2>3, <3>2, Zenon
    <3> QED BY <2>1, <3>1, <3>3, <1>5 DEF total
  <2> QED BY <2>2, <2>3
<1> QED BY <1>3, <1>4, <1>5
-----------------------------------------------------------------------------
(* The client's steps.                                                     *)

\* A ring no index update is at work on is settled.
LEMMA SettledIsRing ==
    ASSUME NEW r \in RingObject
    PROVE  Settled(r) = r
<1>1. r.ulWriteIndex \in Index
  BY DEF RingObject
<1>2. Wrap(r.ulWriteIndex) = r.ulWriteIndex
  BY <1>1, SizeAssumption DEF Wrap, Index
<1>3. r = [ulReadIndex |-> r.ulReadIndex, ulWriteIndex |-> r.ulWriteIndex]
  BY DEF RingObject
<1> QED BY <1>2, <1>3 DEF Settled

\* What a step leaves alone.
LEMMA RingUntouched ==
    ASSUME RingOK, UNCHANGED <<bufVars, accepted>>, pc \notin Wrapping, pc' \notin Wrapping
    PROVE  RingOK' /\ Held' = Held /\ Gone' = Gone /\ ring \in RingObject
<1>1. ring' = ring /\ pucBuf' = pucBuf /\ accepted' = accepted
  BY DEF bufVars
<1>2. Held' = Held /\ Gone' = Gone
  BY <1>1 DEF Held, Gone
<1> QED BY <1>1, <1>2 DEF RingOK

\* ... with the endpoint as it is, nothing of what it holds changes.
LEMMA EndpointUntouched ==
    ASSUME EndpointOK, UNCHANGED <<ep, txIntr, ghostVars>>, Held' = Held, Gone' = Gone,
           pc' # "transfer2", pc # "transfer2"
    PROVE  EndpointOK'
BY DEF EndpointOK, ghostVars

\* ... nor of the configuration.
LEMMA BusUntouched ==
    ASSUME BusOK, UNCHANGED <<ep, busVars>>
    PROVE  BusOK'
BY DEF BusOK, busVars

\* A call takes what fits, so that its bytes have room.
LEMMA WriteKeepsInv ==
    ASSUME Inv, NEW n \in 1 .. MaxWrite, USBBufferWrite(n)
    PROVE  Inv'
<1>1. /\ pc = "idle" /\ accepted + n <= MaxBytes
      /\ ulLength' = Smaller(n, USBRingBufFree(ring)) /\ ulDelta' = 1
      /\ pc' = IF ulLength' = 0 THEN "avail" ELSE "store"
      /\ UNCHANGED <<bufVars, ep, txIntr, busVars, schedVars, accepted, ghostVars>>
  BY DEF USBBufferWrite
<1>2. RingOK' /\ Held' = Held /\ Gone' = Gone /\ ring \in RingObject
  BY <1>1, RingUntouched DEF Inv
<1>3. USBRingBufFree(ring) \in Nat /\ n \in Nat
  BY <1>2, UsedAndFree, SizeAssumption, BoundsAssumption
<1>4. ulLength' \in 0 .. USBRingBufFree(ring) /\ ulLength' <= n
  BY <1>1, <1>3 DEF Smaller
<1>5. TypeOK'
  BY <1>1, <1>3, <1>4 DEF Inv, TypeOK, bufVars, busVars, schedVars, ghostVars, ClientSteps
<1>6. CallOK'
  <2>1. ring' = ring /\ accepted' = accepted /\ accepted \in Nat /\ ulLength' \in Nat
    BY <1>1, <1>3, <1>4, BoundsAssumption DEF bufVars, Inv, TypeOK
  <2>2. accepted + ulLength' <= MaxBytes
    BY <1>1, <1>3, <1>4, <2>1, BoundsAssumption
  <2> QED BY <1>1, <1>3, <1>4, <2>1, <2>2 DEF CallOK
<1>7. ScheduleOK'
  BY <1>1 DEF ScheduleOK, Scheduling
<1>8. EndpointOK' /\ BusOK'
  BY <1>1, <1>2, EndpointUntouched, BusUntouched DEF Inv
<1>9. NotStranded'
  BY <1>1 DEF NotStranded
<1>10. StreamIntact'
  BY <1>1 DEF Inv, StreamIntact, ghostVars
<1> QED BY <1>2, <1>5, <1>6, <1>7, <1>8, <1>9, <1>10 DEF Inv

\* Bytes stored behind the write index leave what the ring holds as it was.
LEMMA StoringBehind ==
    ASSUME RingOK, pc \notin Wrapping, NEW n \in Nat, n <= USBRingBufFree(ring),
           NEW buf, \A j \in Index :
                        Distance(ring.ulWriteIndex, j) >= n => buf[j] = pucBuf[j]
    PROVE  Carries(ring, buf, Gone)
<1> DEFINE r == ring.ulReadIndex
           w == ring.ulWriteIndex
<1>1. ring \in RingObject /\ Settled(ring) = ring
  BY SettledIsRing DEF RingOK
<1>2. /\ r \in Index /\ w \in Index
      /\ USBRingBufUsed(ring) = Distance(r, w)
      /\ Distance(r, w) \in Nat /\ Distance(r, w) + n <= ulSize - 1
  <2>1. r \in Index /\ w \in Index /\ USBRingBufUsed(ring) = Distance(r, w)
    BY <1>1, UsedIsDistance DEF RingObject
  <2>2. /\ USBRingBufUsed(ring) \in 0 .. (ulSize - 1)
        /\ USBRingBufUsed(ring) + USBRingBufFree(ring) = ulSize - 1
        /\ USBRingBufFree(ring) \in 0 .. (ulSize - 1)
    BY <1>1, UsedAndFree
  <2> QED BY <2>1, <2>2, SizeAssumption
<1>3. ASSUME NEW k \in 1 .. USBRingBufUsed(ring)
      PROVE  buf[Wrap(r + k - 1)] = Gone + k
  <2>1. k \in 1 .. (Distance(r, w) + n) /\ k <= Distance(r, w)
    BY <1>2
  <2>2. /\ Wrap(r + k - 1) \in Index
        /\ Distance(w, Wrap(r + k - 1)) >= n
    BY <1>2, <2>1, SlotOfByte
  <2>3. buf[Wrap(r + k - 1)] = pucBuf[Wrap(r + k - 1)]
    BY <2>2
  <2>4. pucBuf[Wrap(r + k - 1)] = Gone + k
    BY <1>1 DEF RingOK, Carries
  <2> QED BY <2>3, <2>4
<1> QED BY <1>3 DEF Carries

\* The bytes the client has stored lie behind the write index, in the free part.
LEMMA DataWrittenKeepsInv ==
    ASSUME Inv, NEW n \in 1 .. MaxWrite, USBBufferDataWritten(n)
    PROVE  Inv'
<1> DEFINE w == ring.ulWriteIndex
<1>1. /\ pc = "idle" /\ accepted + n <= MaxBytes /\ n <= USBRingBufFree(ring)
      /\ pucBuf' = [j \in Index |-> IF Distance(w, j) < n
                                    THEN accepted + Distance(w, j) + 1 ELSE pucBuf[j]]
      /\ ulLength' = n /\ ulDelta' = n
      /\ UNCHANGED <<ring, ep, txIntr, busVars, schedVars, accepted, ghostVars>>
  BY DEF USBBufferDataWritten
<1>2. n \in Nat /\ n # 0 /\ accepted \in Nat /\ n \in 1 .. n
  BY BoundsAssumption DEF Inv, TypeOK
<1>3. pc' \in Adding
  BY <1>2 DEF USBBufferDataWritten
<1>4. /\ ring \in RingObject /\ Settled(ring) = ring /\ w \in Index
      /\ USBRingBufFree(ring) \in Nat
  <2>1. ring \in RingObject
    BY <1>1 DEF Inv, RingOK
  <2> QED BY <2>1, SettledIsRing, UsedAndFree, SizeAssumption DEF RingObject
<1>5. Held' = Held /\ Gone' = Gone
  BY <1>1 DEF Held, Gone
<1>6. RingOK'
  <2>1. \A j \in Index : Distance(w, j) >= n => pucBuf'[j] = pucBuf[j]
    <3> TAKE j \in Index
    <3>1. Distance(w, j) \in Int
      BY <1>4, SizeAssumption DEF Distance, Index
    <3> QED BY <1>1, <1>2, <3>1
  <2>2. Carries(ring, pucBuf', Gone)
    BY <1>1, <1>2, <2>1, StoringBehind DEF Inv
  <2>3. ring' = ring
    BY <1>1
  <2>4. Carries(Settled(ring'), pucBuf', Gone')
    BY <1>4, <1>5, <2>2, <2>3
  <2> QED BY <1>1, <1>4, <1>5, <2>3, <2>4 DEF Inv, RingOK
<1>7. CallOK'
  <2>1. \A k \in 1 .. n : pucBuf'[Wrap(w + k - 1)] = accepted + k
    <3> TAKE k \in 1 .. n
    <3>1. k \in Nat /\ 1 <= k /\ k <= n /\ n < ulSize
      BY <1>1, <1>2, <1>4, UsedAndFree, SizeAssumption
    <3>2. Wrap(w + k - 1) \in Index /\ Distance(w, Wrap(w + k - 1)) = k - 1
      BY <1>4, <3>1, SizeAssumption DEF Wrap, Distance, Index
    <3>3. pucBuf'[Wrap(w + k - 1)] = accepted + (k - 1) + 1
      BY <1>1, <1>2, <3>1, <3>2
    <3> QED BY <1>2, <3>1, <3>3
  <2>2. ring' = ring /\ accepted' = accepted
    BY <1>1
  <2> QED BY <1>1, <1>2, <1>3, <1>4, <2>1, <2>2 DEF CallOK
<1>8. TypeOK'
  <2>1. pucBuf' \in [Index -> Nat]
    <3>1. ASSUME NEW j \in Index PROVE Distance(w, j) \in Nat
      BY <1>4, SizeAssumption DEF Distance, Index
    <3> QED BY <1>1, <1>2, <3>1 DEF Inv, TypeOK
  <2> QED
    BY <1>1, <1>2, <1>3, <2>1
       DEF Inv, TypeOK, busVars, schedVars, ghostVars, ClientSteps
<1>9. ScheduleOK' /\ NotStranded'
  BY <1>3 DEF ScheduleOK, Scheduling, NotStranded
<1>10. EndpointOK' /\ BusOK' /\ StreamIntact'
  <2>1. EndpointOK' /\ BusOK'
    BY <1>1, <1>3, <1>5, EndpointUntouched, BusUntouched DEF Inv
  <2> QED BY <1>1, <2>1 DEF Inv, StreamIntact, ghostVars
<1> QED BY <1>6, <1>7, <1>8, <1>9, <1>10 DEF Inv

\* The byte is stored in the slot that is always free.
LEMMA StoreByteKeepsInv ==
    ASSUME Inv, StoreByte
    PROVE  Inv'
<1> DEFINE w == ring.ulWriteIndex
<1>1. /\ pc = "store" /\ pc' \in Adding
      /\ pucBuf' = [pucBuf EXCEPT ![w] = accepted + 1]
      /\ UNCHANGED <<ring, ep, txIntr, busVars, callVars, schedVars, accepted, ghostVars>>
  BY DEF StoreByte
<1>2. /\ ring \in RingObject /\ Settled(ring) = ring /\ w \in Index
      /\ USBRingBufFree(ring) \in Nat
  <2>1. ring \in RingObject
    BY <1>1 DEF Inv, RingOK
  <2> QED BY <2>1, SettledIsRing, UsedAndFree, SizeAssumption DEF RingObject
<1>3. /\ ulDelta = 1 /\ ulLength \in 1 .. USBRingBufFree(ring)
      /\ accepted + ulLength <= MaxBytes /\ accepted \in Nat
  BY <1>1, BoundsAssumption DEF Inv, CallOK, TypeOK
<1>4. Held' = Held /\ Gone' = Gone
  BY <1>1 DEF Held, Gone
<1>5. RingOK'
  <2>1. \A j \in Index : Distance(w, j) >= 1 => pucBuf'[j] = pucBuf[j]
    <3> TAKE j \in Index
    <3>1. Distance(w, j) >= 1 => j # w
      BY <1>2, SizeAssumption DEF Distance, Index
    <3> QED BY <1>1, <3>1 DEF Inv, TypeOK
  <2>2. 1 \in Nat /\ 1 <= USBRingBufFree(ring)
    BY <1>2, <1>3
  <2>3. Carries(ring, pucBuf', Gone)
    BY <1>1, <2>1, <2>2, StoringBehind DEF Inv
  <2>4. ring' = ring
    BY <1>1
  <2>5. Carries(Settled(ring'), pucBuf', Gone')
    BY <1>2, <1>4, <2>3, <2>4
  <2> QED BY <1>1, <1>2, <1>4, <2>4, <2>5 DEF Inv, RingOK
<1>6. CallOK'
  <2>1. \A k \in 1 .. 1 : pucBuf'[Wrap(w + k - 1)] = accepted + k
    <3>1. Wrap(w + 1 - 1) = w
      BY <1>2, SizeAssumption DEF Wrap, Index
    <3>2. pucBuf'[w] = accepted + 1
      BY <1>1, <1>2 DEF Inv, TypeOK
    <3> QED BY <3>1, <3>2
  <2>2. ring' = ring /\ accepted' = accepted /\ ulDelta' = 1 /\ ulLength' = ulLength
    BY <1>1, <1>3 DEF callVars
  <2>3. 1 \in 1 .. ulLength
    BY <1>2, <1>3
  <2> QED BY <1>1, <1>2, <1>3, <2>1, <2>2, <2>3 DEF CallOK
<1>7. TypeOK'
  <2>1. pucBuf' \in [Index -> Nat]
    <3>1. accepted + 1 \in Nat /\ pucBuf \in [Index -> Nat]
      BY <1>3 DEF Inv, TypeOK
    <3> QED BY <1>1, <1>2, <3>1
  <2> QED
    BY <1>1, <2>1
       DEF Inv, TypeOK, busVars, callVars, schedVars, ghostVars, ClientSteps
<1>8. ScheduleOK' /\ NotStranded'
  BY <1>1 DEF ScheduleOK, Scheduling, NotStranded
<1>9. EndpointOK' /\ BusOK' /\ StreamIntact'
  <2>1. EndpointOK' /\ BusOK'
    BY <1>1, <1>4, EndpointUntouched, BusUntouched DEF Inv
  <2> QED BY <1>1, <2>1 DEF Inv, StreamIntact, ghostVars
<1> QED BY <1>5, <1>6, <1>7, <1>8, <1>9 DEF Inv

\* The stored bytes become the newest of the ring; the index may be one to wrap.
LEMMA AddToIndexKeepsInv ==
    ASSUME Inv, AddToIndex \/ AdvanceWrite
    PROVE  Inv'
<1> DEFINE r == ring.ulReadIndex
           w == ring.ulWriteIndex
           d == ulDelta
           h == Distance(r, w)
<1>1. /\ pc \in Adding /\ pc' \in Wrapping
      /\ ring' = [ring EXCEPT !.ulWriteIndex = @ + d] /\ accepted' = accepted + d
      /\ UNCHANGED <<pucBuf, ep, txIntr, busVars, callVars, schedVars, ghostVars>>
  BY DEF AddToIndex, AdvanceWrite
<1>2. /\ ring \in RingObject /\ Settled(ring) = ring /\ r \in Index /\ w \in Index
      /\ ring = [ulReadIndex |-> r, ulWriteIndex |-> w]
  <2>1. ring \in RingObject
    BY <1>1 DEF Inv, RingOK
  <2> QED BY <2>1, SettledIsRing DEF RingObject
<1>3. /\ USBRingBufUsed(ring) = h /\ h \in Nat
      /\ USBRingBufFree(ring) = ulSize - 1 - h
  <2>1. /\ USBRingBufUsed(ring) \in 0 .. (ulSize - 1)
        /\ USBRingBufFree(ring) \in 0 .. (ulSize - 1)
        /\ USBRingBufUsed(ring) + USBRingBufFree(ring) = ulSize - 1
    BY <1>2, UsedAndFree
  <2> QED BY <1>2, <2>1, UsedIsDistance, SizeAssumption
<1>4. /\ d \in Nat /\ d # 0 /\ d <= ulLength /\ ulLength \in Nat
      /\ h + ulLength <= ulSize - 1 /\ h + d <= ulSize - 1
      /\ d = ulLength \/ d = 1
      /\ accepted \in Nat /\ accepted + ulLength <= MaxBytes
      /\ \A k \in 1 .. d : pucBuf[Wrap(w + k - 1)] = accepted + k
  <2>1. /\ ulLength \in 1 .. USBRingBufFree(ring) /\ d \in 1 .. ulLength
        /\ d = ulLength \/ d = 1
        /\ accepted + ulLength <= MaxBytes
        /\ \A k \in 1 .. d : pucBuf[Wrap(w + k - 1)] = accepted + k
    BY <1>1 DEF Inv, CallOK
  <2>2. accepted \in Nat /\ ulLength \in Nat
    BY BoundsAssumption DEF Inv, TypeOK
  <2> QED BY <1>3, <2>1, <2>2, SizeAssumption
<1>5. /\ ring'.ulReadIndex = r /\ ring'.ulWriteIndex = w + d
      /\ Settled(ring') = [ulReadIndex |-> r, ulWriteIndex |-> Wrap(w + d)]
  <2>1. ring' = [ulReadIndex |-> r, ulWriteIndex |-> w + d]
    BY <1>1, <1>2
  <2> QED BY <2>1 DEF Settled
<1>6. /\ Wrap(w + d) \in Index /\ Distance(r, Wrap(w + d)) = h + d
      /\ \A k \in 1 .. d : Wrap(r + (h + k) - 1) = Wrap(w + k - 1)
  BY <1>2, <1>4, WritingGrows
<1>7. Settled(ring') \in RingObject /\ USBRingBufUsed(Settled(ring')) = h + d
  BY <1>2, <1>5, <1>6, UsedIsDistance DEF RingObject
<1>8. Held = h /\ Gone = accepted - h /\ Held' = h + d /\ Gone' = accepted - h
  <2>1. Held = h /\ Held' = h + d
    BY <1>2, <1>3, <1>7 DEF Held
  <2>2. accepted' - Held' = accepted - h
    BY <1>1, <1>3, <1>4, <2>1
  <2> QED BY <2>1, <2>2 DEF Gone
<1>9. RingOK'
  <2>1. ASSUME NEW k \in 1 .. (h + d)
        PROVE  pucBuf[Wrap(r + k - 1)] = (accepted - h) + k
    <3>1. CASE k <= h
      <4>1. k \in 1 .. USBRingBufUsed(ring)
        BY <1>3, <3>1
      <4>2. Carries(ring, pucBuf, Gone)
        BY <1>2 DEF Inv, RingOK
      <4>3. pucBuf[Wrap(r + k - 1)] = Gone + k
        BY <4>1, <4>2 DEF Carries
      <4> QED BY <1>8, <4>3
    <3>2. CASE k > h
      <4>1. k - h \in 1 .. d /\ h + (k - h) = k
        BY <1>3, <1>4, <3>2
      <4>2. Wrap(r + (h + (k - h)) - 1) = Wrap(w + (k - h) - 1)
        BY <1>6, <4>1
      <4>3. pucBuf[Wrap(w + (k - h) - 1)] = accepted + (k - h)
        BY <1>4, <4>1
      <4>4. pucBuf[Wrap(r + k - 1)] = accepted + (k - h)
        BY <4>1, <4>2, <4>3
      <4> QED BY <1>3, <1>4, <4>4
    <3> QED BY <1>3, <1>4, <3>1, <3>2
  <2>2. Settled(ring').ulReadIndex = r /\ pucBuf' = pucBuf
    BY <1>1, <1>5
  <2>3. Carries(Settled(ring'), pucBuf', Gone')
    <3> HIDE DEF r, h, d, w
    <3> QED BY <1>7, <1>8, <2>1, <2>2 DEF Carries
  <2> QED BY <1>1, <1>7, <1>8, <2>3 DEF Inv, RingOK
<1>10. CallOK'
  <2>1. USBRingBufFree(Settled(ring')) = ulSize - 1 - (h + d)
    BY <1>7 DEF USBRingBufFree
  <2>2. ulLength' = ulLength /\ ulDelta' = d
    BY <1>1 DEF callVars
  <2>3. d \in 1 .. ulLength /\ ulLength - d <= ulSize - 1 - (h + d)
    BY <1>3, <1>4, SizeAssumption
  <2>4. accepted' + (ulLength - d) <= MaxBytes
    BY <1>1, <1>4, BoundsAssumption
  <2> QED BY <1>1, <1>4, <2>1, <2>2, <2>3, <2>4 DEF CallOK
<1>11. TypeOK'
  <2>1. ring' \in [ulReadIndex : Nat, ulWriteIndex : Nat]
    <3>1. r \in Nat /\ w + d \in Nat
      BY <1>2, <1>4, SizeAssumption DEF Index
    <3>2. ring' = [ulReadIndex |-> r, ulWriteIndex |-> w + d]
      BY <1>1, <1>2
    <3> QED BY <3>1, <3>2
  <2>2. accepted' \in 0 .. MaxBytes
    BY <1>1, <1>4, BoundsAssumption
  <2> QED
    BY <1>1, <2>1, <2>2
       DEF Inv, TypeOK, busVars, callVars, schedVars, ghostVars, ClientSteps
<1>12. ScheduleOK' /\ NotStranded'
  BY <1>1 DEF ScheduleOK, Scheduling, NotStranded
<1>13. EndpointOK'
  <2>1. Gone' = Gone /\ Held <= Held' /\ Held \in Nat
    BY <1>3, <1>4, <1>8
  <2>2. Held' \in Nat /\ ep.usLastTxSize \in Nat
    <3>1. ep.usLastTxSize \in 0 .. USHRT_MAX
      BY DEF Inv, TypeOK, Endpoint
    <3>2. ep.usLastTxSize \in Nat
      BY <3>1, PacketIsShort
    <3>3. Held' \in Nat
      BY <1>3, <1>4, <1>8
    <3> QED BY <3>2, <3>3
  <2>3. ep.usLastTxSize <= Held'
    BY <2>1, <2>2 DEF Inv, EndpointOK
  <2>4. ep' = ep /\ txIntr' = txIntr /\ acked' = acked /\ base' = base
        /\ received' = received
    BY <1>1 DEF ghostVars
  <2> QED BY <1>1, <2>1, <2>3, <2>4 DEF Inv, EndpointOK
<1>14. BusOK' /\ StreamIntact'
  BY <1>1, BusUntouched DEF Inv, StreamIntact, ghostVars
<1> QED BY <1>9, <1>10, <1>11, <1>12, <1>13, <1>14 DEF Inv

\* The wrap changes the index, not the bytes it stands for.
LEMMA CorrectForWrapKeepsInv ==
    ASSUME Inv, CorrectForWrap \/ AdvanceWriteWraps
    PROVE  Inv'
<1>1. /\ pc \in Wrapping /\ ring' = [ring EXCEPT !.ulWriteIndex = Wrap(@)]
      /\ ulLength' = ulLength - ulDelta /\ ulDelta' = ulDelta
      /\ pc' \in {"avail", "store"} /\ (pc' = "store" => ulLength' # 0)
      /\ UNCHANGED <<pucBuf, ep, txIntr, busVars, schedVars, accepted, ghostVars>>
  BY DEF CorrectForWrap, AdvanceWriteWraps
<1>2. ring' = Settled(ring) /\ ring' \in RingObject
  <2>1. ring = [ulReadIndex |-> ring.ulReadIndex, ulWriteIndex |-> ring.ulWriteIndex]
    BY DEF Inv, TypeOK
  <2>2. ring' = Settled(ring)
    BY <1>1, <2>1 DEF Settled
  <2> QED BY <2>2 DEF Inv, RingOK
<1>3. Settled(ring') = ring'
  BY <1>2, SettledIsRing
<1>4. Held' = Held /\ Gone' = Gone
  BY <1>1, <1>2, <1>3 DEF Held, Gone
<1>5. RingOK'
  BY <1>1, <1>2, <1>3, <1>4 DEF Inv, RingOK
<1>6. CallOK'
  <2>1. /\ ulDelta \in 1 .. ulLength /\ ulLength \in Nat /\ ulDelta \in Nat
        /\ ulDelta = ulLength \/ ulDelta = 1
        /\ ulLength - ulDelta <= USBRingBufFree(ring')
        /\ accepted' + (ulLength - ulDelta) <= MaxBytes
    BY <1>1, <1>2 DEF Inv, CallOK, TypeOK
  <2>2. USBRingBufFree(ring') \in Nat
    BY <1>2, UsedAndFree, SizeAssumption
  <2>3. CASE ulLength' = 0
    BY <1>1, <2>3 DEF CallOK
  <2>4. CASE ulLength' # 0
    <3>1. ulDelta' = 1 /\ ulLength' \in 1 .. USBRingBufFree(ring')
      BY <1>1, <2>1, <2>2, <2>4
    <3>2. accepted' + ulLength' <= MaxBytes
      BY <1>1, <2>1
    <3> QED BY <1>1, <2>4, <3>1, <3>2 DEF CallOK
  <2> QED BY <2>3, <2>4
<1>7. TypeOK'
  <2>1. ring' \in [ulReadIndex : Nat, ulWriteIndex : Nat]
    BY <1>2, SizeAssumption DEF RingObject, Index
  <2>2. ulLength' \in Nat
    BY <1>1 DEF Inv, CallOK, TypeOK
  <2> QED
    BY <1>1, <2>1, <2>2
       DEF Inv, TypeOK, busVars, schedVars, ghostVars, ClientSteps
<1>8. ScheduleOK' /\ NotStranded'
  BY <1>1 DEF ScheduleOK, Scheduling, NotStranded
<1>9. EndpointOK' /\ BusOK' /\ StreamIntact'
  <2>1. EndpointOK' /\ BusOK'
    BY <1>1, <1>4, EndpointUntouched, BusUntouched DEF Inv
  <2> QED BY <1>1, <2>1 DEF Inv, StreamIntact, ghostVars
<1> QED BY <1>5, <1>6, <1>7, <1>8, <1>9 DEF Inv
-----------------------------------------------------------------------------
(* ScheduleNextTransmission, called by the client.                         *)

\* What the steps that only read the ring and the endpoint leave alone.
LEMMA OnlyRead ==
    ASSUME Inv,
           UNCHANGED <<bufVars, ep, txIntr, busVars, callVars, accepted, ghostVars>>,
           pc \in {"avail", "contig", "total"},
           pc' \in {"idle", "contig", "total", "transfer1"}
    PROVE  /\ RingOK' /\ CallOK' /\ EndpointOK' /\ BusOK' /\ StreamIntact'
           /\ Held' = Held /\ ring \in RingObject /\ Held = USBRingBufUsed(ring)
<1>1. RingOK' /\ Held' = Held /\ Gone' = Gone /\ ring \in RingObject
  BY RingUntouched DEF Inv
<1>2. Held = USBRingBufUsed(ring)
  BY <1>1, SettledIsRing DEF Held
<1>3. EndpointOK' /\ BusOK'
  BY <1>1, EndpointUntouched, BusUntouched DEF Inv
<1>4. CallOK' /\ StreamIntact'
  BY DEF Inv, CallOK, StreamIntact, ghostVars
<1> QED BY <1>1, <1>2, <1>3, <1>4

\* An idle transmitter is found idle, so that the client goes on.
LEMMA AskPacketAvailableKeepsInv ==
    ASSUME Inv, AskPacketAvailable
    PROVE  Inv'
<1>1. /\ pc = "avail" /\ ulPacket' = USBDBulkTxPacketAvailable(ep)
      /\ pc' = IF ulPacket' = 0 THEN "idle" ELSE "contig"
      /\ UNCHANGED <<bufVars, ep, txIntr, busVars, callVars, ulSpace, ulTotal,
                     accepted, ghostVars>>
  BY DEF AskPacketAvailable
<1>2. ulPacket' = IF ep.eBulkTxState = "IDLE" THEN MaxPacket ELSE 0
  BY <1>1 DEF USBDBulkTxPacketAvailable
<1>3. RingOK' /\ CallOK' /\ EndpointOK' /\ BusOK' /\ StreamIntact'
  BY <1>1, OnlyRead
<1>4. ScheduleOK' /\ NotStranded'
  BY <1>1, <1>2, PacketIsShort DEF ScheduleOK, Scheduling, NotStranded
<1>5. TypeOK'
  BY <1>1, <1>2 DEF Inv, TypeOK, bufVars, busVars, callVars, ghostVars, ClientSteps
<1> QED BY <1>3, <1>4, <1>5 DEF Inv

\* The contiguous block stays what the client has read: nothing can take from it.
LEMMA AskContigUsedKeepsInv ==
    ASSUME Inv, AskContigUsed
    PROVE  Inv'
<1>1. /\ pc = "contig" /\ pc' = "total" /\ ulSpace' = USBRingBufContigUsed(ring)
      /\ UNCHANGED <<bufVars, ep, txIntr, busVars, callVars, ulPacket, ulTotal,
                     accepted, ghostVars>>
  BY DEF AskContigUsed
<1>2. /\ RingOK' /\ CallOK' /\ EndpointOK' /\ BusOK' /\ StreamIntact'
      /\ ring \in RingObject
  BY <1>1, OnlyRead
<1>3. ScheduleOK' /\ NotStranded'
  BY <1>1 DEF Inv, ScheduleOK, Scheduling, NotStranded, bufVars
<1>4. ulSpace' \in Nat
  BY <1>1, <1>2, TwoBlocks, UsedAndFree, SizeAssumption
<1>5. TypeOK'
  BY <1>1, <1>4 DEF Inv, TypeOK, bufVars, busVars, callVars, ghostVars, ClientSteps
<1> QED BY <1>2, <1>3, <1>5 DEF Inv

\* Only an empty ring has no contiguous block, so that the client gives up only
\* when there is nothing to send.
LEMMA AskUsedKeepsInv ==
    ASSUME Inv, AskUsed
    PROVE  Inv'
<1>1. /\ pc = "total" /\ ulTotal' = USBRingBufUsed(ring)
      /\ pc' = IF ulSpace = 0 THEN "idle" ELSE "transfer1"
      /\ UNCHANGED <<bufVars, ep, txIntr, busVars, callVars, ulPacket, ulSpace,
                     accepted, ghostVars>>
  BY DEF AskUsed
<1>2. /\ RingOK' /\ CallOK' /\ EndpointOK' /\ BusOK' /\ StreamIntact'
      /\ ring \in RingObject /\ Held' = Held /\ Held = USBRingBufUsed(ring)
  BY <1>1, OnlyRead
<1>3. /\ ulSpace = USBRingBufContigUsed(ring) /\ ulSpace \in Nat
      /\ ulTotal' \in Nat
      /\ USBRingBufUsed(ring) > 0 => ulSpace # 0
  <2>1. ulSpace = USBRingBufContigUsed(ring) /\ ulSpace \in Nat
    BY <1>1 DEF Inv, ScheduleOK, TypeOK
  <2>2. USBRingBufUsed(ring) \in Nat
    BY <1>2, UsedAndFree, SizeAssumption
  <2> QED BY <1>1, <1>2, <2>1, <2>2, TwoBlocks
<1>4. ScheduleOK'
  BY <1>1, <1>3 DEF Inv, ScheduleOK, Scheduling, bufVars
<1>5. NotStranded'
  BY <1>1, <1>2, <1>3 DEF NotStranded
<1>6. TypeOK'
  BY <1>1, <1>3 DEF Inv, TypeOK, bufVars, busVars, callVars, ghostVars, ClientSteps
<1> QED BY <1>2, <1>4, <1>5, <1>6 DEF Inv

\* What an endpoint that has been given n of the ring's bytes must satisfy.
LEMMA EndpointLoaded ==
    ASSUME NEW n \in Nat, Packed(ep', n, Gone'), n <= MaxPacket, n <= Held',
           ep'.eBulkTxState = "WAIT_DATA" <=> ep'.txrdy,
           ~ep'.txrdy /\ pc' # "transfer2" => n = 0,
           ~txIntr', acked' = 0, base' + Len(received') = Gone'
    PROVE  EndpointOK'
BY DEF EndpointOK, Packed, Follows

\* An idle endpoint, as the client finds it, has no bytes.
LEMMA IdleIsUnpacked ==
    ASSUME Inv, pc # "transfer2", pc \notin Wrapping, ep.eBulkTxState = "IDLE"
    PROVE  /\ Packed(ep, 0, Gone) /\ ~ep.txrdy /\ ~txIntr /\ acked = 0
           /\ base + Len(received) = Gone
<1>1. ~ep.txrdy /\ ~txIntr
  BY DEF Inv, EndpointOK
<1>2. /\ Len(ep.fifo) = 0 /\ ep.usLastTxSize = 0 /\ acked = 0
      /\ base + Len(received) = Gone
  BY <1>1 DEF Inv, EndpointOK
<1>3. ep \in Endpoint /\ ep.fifo \in Seq(Nat)
  BY DEF Inv, TypeOK, Endpoint
<1>4. \A k \in 1 .. 0 : ep.fifo[k] = Gone + k
  OBVIOUS
<1>5. Follows(ep.fifo, Gone)
  BY <1>2, <1>3, <1>4 DEF Follows
<1> QED BY <1>1, <1>2, <1>3, <1>5 DEF Packed

\* The bytes that have left the ring are counted by a natural number.
LEMMA GoneIsNat ==
    ASSUME Inv
    PROVE  /\ Gone \in Nat /\ Held \in Nat /\ ep.usLastTxSize \in Nat
           /\ accepted \in Nat /\ base \in Nat
<1>1. Held \in Nat
  BY UsedAndFree, SizeAssumption DEF Inv, RingOK, Held
<1>2. accepted \in Nat /\ base \in Nat /\ Len(received) \in Nat
  BY BoundsAssumption DEF Inv, TypeOK
<1>3. ep.usLastTxSize \in Nat
  <2>1. ep.usLastTxSize \in 0 .. USHRT_MAX
    BY DEF Inv, TypeOK, Endpoint
  <2> QED BY <2>1, PacketIsShort
<1> QED BY <1>1, <1>2, <1>3 DEF Inv, RingOK

\* The first part goes to an endpoint that has none yet; if it is the only one
\* the packet is on its way.
LEMMA TransferFirstKeepsInv ==
    ASSUME Inv, TransferFirst
    PROVE  Inv'
<1> DEFINE n == FirstPart(ulSpace, MaxPacket)
           split == IsSplit(ulSpace, MaxPacket, ulTotal)
<1>1. /\ pc = "transfer1" /\ ep.eBulkTxState = "IDLE" /\ ulPacket = MaxPacket
      /\ ulSpace = USBRingBufContigUsed(ring) /\ ulTotal = USBRingBufUsed(ring)
      /\ ulSpace > 0
  BY DEF TransferFirst, Inv, ScheduleOK, Scheduling
<1>2. /\ ep' = USBDBulkPacketWrite(ep, Block(ring.ulReadIndex, n), ~split)
      /\ pc' = IF split THEN "transfer2" ELSE "idle"
      /\ UNCHANGED <<bufVars, txIntr, busVars, callVars, schedVars, accepted,
                     ghostVars>>
  BY <1>1 DEF TransferFirst
<1>3. RingOK' /\ Held' = Held /\ Gone' = Gone /\ ring \in RingObject
  BY <1>1, <1>2, RingUntouched DEF Inv
<1>4. Held = ulTotal /\ ulTotal \in Nat /\ ulTotal > 0
  <2>1. Settled(ring) = ring
    BY <1>3, SettledIsRing
  <2>2. ulSpace \in 0 .. ulTotal /\ ulTotal \in Nat
    BY <1>1, <1>3, TwoBlocks, UsedAndFree, SizeAssumption
  <2> QED BY <1>1, <2>1, <2>2 DEF Held
<1>5. /\ Packed(ep', n, Gone)
      /\ ep'.eBulkTxState = IF split THEN "IDLE" ELSE "WAIT_DATA"
      /\ ep'.txrdy = ~split
  <2>1. Packed(ep, 0, Gone) /\ ~ep.txrdy
    BY <1>1, IdleIsUnpacked
  <2>2. pucBuf \in [Index -> Nat] /\ Gone \in Nat
    BY GoneIsNat DEF Inv, TypeOK
  <2>3. Carries(ring, pucBuf, Gone)
    BY <1>3, SettledIsRing DEF Inv, RingOK
  <2> HIDE DEF n, split
  <2>4. PICK g : g = Gone
    OBVIOUS
  <2>5. PICK r : r = ring
    OBVIOUS
  <2>6. PICK e : e = ep
    OBVIOUS
  <2>7. /\ Packed(e, 0, g) /\ e.eBulkTxState = "IDLE" /\ ~e.txrdy
        /\ g \in Nat /\ Carries(r, pucBuf, g) /\ r \in RingObject
        /\ USBRingBufUsed(r) > 0
        /\ ulSpace = USBRingBufContigUsed(r) /\ ulTotal = USBRingBufUsed(r)
    BY <1>1, <1>3, <1>4, <2>1, <2>2, <2>3, <2>4, <2>5, <2>6
  <2>8. ep' = USBDBulkPacketWrite(
                  e, Block(r.ulReadIndex, FirstPart(ulSpace, MaxPacket)),
                  ~IsSplit(ulSpace, MaxPacket, ulTotal))
    BY <1>2, <2>5, <2>6 DEF n, split
  <2>9. /\ Packed(ep', FirstPart(ulSpace, MaxPacket), g)
        /\ ep'.eBulkTxState = IF IsSplit(ulSpace, MaxPacket, ulTotal)
                              THEN "IDLE" ELSE "WAIT_DATA"
        /\ ep'.txrdy = ~IsSplit(ulSpace, MaxPacket, ulTotal)
    BY <2>2, <2>7, <2>8, FirstPartBuilt
  <2> QED BY <2>4, <2>9 DEF n, split
<1>6. n \in Nat /\ n <= MaxPacket /\ n <= Held
  <2>1. /\ ulSpace \in 1 .. ulTotal /\ n \in 1 .. MaxPacket /\ n <= ulSpace
    BY <1>1, <1>3, <1>4, PartSizes
  <2> QED BY <1>4, <2>1, PacketIsShort
<1>7. split \in BOOLEAN
  BY DEF IsSplit
<1> HIDE DEF n, split
<1>8. EndpointOK'
  <2>1. ~txIntr' /\ acked' = 0 /\ base' + Len(received') = Gone'
    BY <1>1, <1>2, <1>3, IdleIsUnpacked DEF ghostVars
  <2>2. ep'.eBulkTxState = "WAIT_DATA" <=> ep'.txrdy
    BY <1>5, <1>7
  <2>3. ~(~ep'.txrdy /\ pc' # "transfer2")
    BY <1>2, <1>5, <1>7
  <2> QED BY <1>3, <1>5, <1>6, <2>1, <2>2, <2>3, EndpointLoaded
<1>9. ScheduleOK'
  <2>1. CASE split
    <3>1. IsSplit(ulSpace, MaxPacket, ulTotal) /\ n = FirstPart(ulSpace, MaxPacket)
      BY <2>1 DEF split, n
    <3>2. Len(ep'.fifo) = n /\ ep'.eBulkTxState = "IDLE"
      BY <1>5, <2>1 DEF Packed
    <3> QED BY <1>1, <1>2, <3>1, <3>2 DEF ScheduleOK, Scheduling, schedVars, bufVars
  <2>2. CASE ~split
    BY <1>2, <2>2 DEF ScheduleOK, Scheduling
  <2> QED BY <2>1, <2>2
<1>10. CallOK' /\ StreamIntact'
  BY <1>1, <1>2 DEF Inv, CallOK, StreamIntact, ghostVars
<1>11. BusOK'
  BY <1>1, <1>2, <1>5 DEF Inv, BusOK, busVars
<1>12. NotStranded'
  BY <1>2, <1>5, <1>7 DEF NotStranded
<1>13. TypeOK'
  <2>1. ep' \in Endpoint
    BY <1>5 DEF Packed
  <2>2. pc' \in ClientSteps
    BY <1>2 DEF ClientSteps
  <2> QED
    BY <1>2, <2>1, <2>2
       DEF Inv, TypeOK, bufVars, busVars, callVars, schedVars, ghostVars
<1> QED BY <1>3, <1>8, <1>9, <1>10, <1>11, <1>12, <1>13 DEF Inv

\* The second part completes the packet.
LEMMA TransferSecondKeepsInv ==
    ASSUME Inv, TransferSecond
    PROVE  Inv'
<1>1. /\ pc = "transfer2" /\ ep.eBulkTxState = "IDLE" /\ ulPacket = MaxPacket
      /\ ulSpace = USBRingBufContigUsed(ring) /\ ulTotal = USBRingBufUsed(ring)
      /\ ulSpace > 0 /\ IsSplit(ulSpace, MaxPacket, ulTotal)
      /\ Len(ep.fifo) = FirstPart(ulSpace, MaxPacket)
  BY DEF TransferSecond, Inv, ScheduleOK, Scheduling
<1>2. /\ ep' = USBDBulkPacketWrite(
                   ep, Block(0, SecondPart(ulSpace, MaxPacket, ulTotal)), TRUE)
      /\ pc' = "idle"
      /\ UNCHANGED <<bufVars, txIntr, busVars, callVars, schedVars, accepted,
                     ghostVars>>
  BY <1>1 DEF TransferSecond
<1>3. RingOK' /\ Held' = Held /\ Gone' = Gone /\ ring \in RingObject
  BY <1>1, <1>2, RingUntouched DEF Inv
<1>4. Held = ulTotal /\ ulTotal \in Nat /\ ulTotal > 0
  <2>1. Settled(ring) = ring
    BY <1>3, SettledIsRing
  <2>2. ulSpace \in 0 .. ulTotal /\ ulTotal \in Nat
    BY <1>1, <1>3, TwoBlocks, UsedAndFree, SizeAssumption
  <2> QED BY <1>1, <2>1, <2>2 DEF Held
<1>5. /\ ~ep.txrdy /\ ~txIntr /\ acked = 0 /\ base + Len(received) = Gone
      /\ Packed(ep, FirstPart(ulSpace, MaxPacket), Gone)
  <2>1. ~ep.txrdy /\ ~txIntr
    BY <1>1 DEF Inv, EndpointOK
  <2>2. /\ ep.usLastTxSize = Len(ep.fifo) /\ acked = 0
        /\ base + Len(received) = Gone
        /\ \A k \in 1 .. Len(ep.fifo) : ep.fifo[k] = Gone + k
    BY <2>1 DEF Inv, EndpointOK
  <2>3. ep \in Endpoint /\ ep.fifo \in Seq(Nat)
    BY DEF Inv, TypeOK, Endpoint
  <2> QED BY <1>1, <2>1, <2>2, <2>3 DEF Packed, Follows
<1>6. PICK n \in 1 .. MaxPacket :
          /\ n <= Held /\ Packed(ep', n, Gone)
          /\ ep'.eBulkTxState = "WAIT_DATA" /\ ep'.txrdy = TRUE
  <2>1. pucBuf \in [Index -> Nat] /\ Gone \in Nat /\ Carries(ring, pucBuf, Gone)
    BY <1>3, GoneIsNat, SettledIsRing DEF Inv, TypeOK, RingOK
  <2>2. PICK g : g = Gone
    OBVIOUS
  <2>3. PICK r : r = ring
    OBVIOUS
  <2>4. PICK e : e = ep
    OBVIOUS
  <2>5. PICK bLast \in BOOLEAN : bLast = TRUE
    OBVIOUS
  <2>6. /\ Packed(e, FirstPart(ulSpace, MaxPacket), g)
        /\ e.eBulkTxState = "IDLE" /\ ~e.txrdy
        /\ g \in Nat /\ Carries(r, pucBuf, g) /\ r \in RingObject
        /\ USBRingBufUsed(r) > 0
        /\ ulSpace = USBRingBufContigUsed(r) /\ ulTotal = USBRingBufUsed(r)
    BY <1>1, <1>3, <1>4, <1>5, <2>1, <2>2, <2>3, <2>4
  <2>7. ep' = USBDBulkPacketWrite(
                  e, Block(0, SecondPart(ulSpace, MaxPacket, ulTotal)), bLast)
    BY <1>2, <2>4, <2>5
  <2>8. PICK n \in 1 .. MaxPacket :
            /\ n <= ulTotal /\ Packed(ep', n, g)
            /\ ep'.eBulkTxState = IF bLast THEN "WAIT_DATA" ELSE "IDLE"
            /\ ep'.txrdy = bLast
    BY <1>1, <2>1, <2>6, <2>7, SecondPartBuilt
  <2> QED BY <1>4, <2>2, <2>5, <2>8
<1>7. EndpointOK'
  <2>1. ~txIntr' /\ acked' = 0 /\ base' + Len(received') = Gone'
    BY <1>2, <1>3, <1>5 DEF ghostVars
  <2>2. n \in Nat /\ n <= MaxPacket
    BY PacketIsShort
  <2> QED BY <1>3, <1>6, <2>1, <2>2, EndpointLoaded
<1>8. ScheduleOK' /\ NotStranded'
  BY <1>2, <1>6 DEF ScheduleOK, Scheduling, NotStranded
<1>9. CallOK' /\ StreamIntact'
  BY <1>2 DEF Inv, CallOK, StreamIntact, ghostVars
<1>10. BusOK'
  BY <1>1, <1>2, <1>6 DEF Inv, BusOK, busVars
<1>11. TypeOK'
  <2>1. ep' \in Endpoint
    BY <1>6 DEF Packed
  <2> QED
    BY <1>2, <2>1
       DEF Inv, TypeOK, bufVars, busVars, callVars, schedVars, ghostVars, ClientSteps
<1> QED BY <1>3, <1>7, <1>8, <1>9, <1>10, <1>11 DEF Inv
-----------------------------------------------------------------------------
(* The host and the interrupt.                                             *)

\* The packet the host takes holds the bytes after the ones it has.
LEMMA HostTakesPacketKeepsInv ==
    ASSUME Inv, HostTakesPacket
    PROVE  Inv'
<1>1. /\ configured /\ ep.txrdy /\ received' = received \o ep.fifo
      /\ acked' = acked + Len(ep.fifo) /\ txIntr' = TRUE
      /\ ep' = [ep EXCEPT !.fifo = << >>, !.txrdy = FALSE]
      /\ UNCHANGED <<bufVars, busVars, pc, callVars, schedVars, accepted, base>>
  BY DEF HostTakesPacket
<1>2. /\ ep.fifo \in Seq(Nat) /\ received \in Seq(Nat) /\ ep \in Endpoint
  BY DEF Inv, TypeOK, Endpoint
<1>3. /\ ep'.eBulkTxState = ep.eBulkTxState /\ ep'.usLastTxSize = ep.usLastTxSize
      /\ ep'.fifo = << >> /\ ep'.txrdy = FALSE /\ ep' \in Endpoint
  <2>1. << >> \in Seq(Nat)
    OBVIOUS
  <2>2. PICK none \in Seq(Nat) : none = << >>
    BY <2>1
  <2>3. ep' = [ep EXCEPT !.fifo = none, !.txrdy = FALSE]
    BY <1>1, <2>2
  <2>4. /\ ep'.eBulkTxState = ep.eBulkTxState
        /\ ep'.usLastTxSize = ep.usLastTxSize
        /\ ep'.fifo = none /\ ep'.txrdy = FALSE /\ ep' \in Endpoint
    BY <1>2, <2>3 DEF Endpoint
  <2> QED BY <2>2, <2>4
<1>4. /\ ~txIntr /\ ep.eBulkTxState = "WAIT_DATA" /\ acked = 0
      /\ ep.usLastTxSize = Len(ep.fifo) /\ base + Len(received) = Gone
      /\ \A k \in 1 .. Len(ep.fifo) : ep.fifo[k] = Gone + k
      /\ ep.usLastTxSize <= Held
  BY <1>1 DEF Inv, EndpointOK
<1>5. Held' = Held /\ Gone' = Gone
  BY <1>1 DEF Held, Gone, bufVars
<1>6. /\ Follows(received', base) /\ Len(received') = Len(received) + Len(ep.fifo)
  <2>1. PICK g : g = Gone
    OBVIOUS
  <2>2. base \in Nat /\ Follows(received, base) /\ Follows(ep.fifo, g)
    BY <1>2, <1>4, <2>1 DEF Inv, TypeOK, StreamIntact, Follows
  <2>3. g = base + Len(received)
    BY <1>4, <2>1
  <2> QED BY <1>1, <2>2, <2>3, ConcatFollows
<1>7. StreamIntact' /\ received' \in Seq(Nat)
  BY <1>1, <1>6 DEF Follows, StreamIntact
<1>8. EndpointOK'
  <2>1. base' + Len(received') = Gone' + ep'.usLastTxSize /\ acked' = ep'.usLastTxSize
    BY <1>1, <1>2, <1>3, <1>4, <1>5, <1>6, GoneIsNat
  <2>2. ep'.usLastTxSize <= Held'
    BY <1>3, <1>4, <1>5
  <2>3. Len(ep'.fifo) = 0 /\ 0 <= MaxPacket
    BY <1>3, PacketIsShort
  <2> QED BY <1>1, <1>3, <1>4, <2>1, <2>2, <2>3 DEF EndpointOK
<1>9. RingOK' /\ CallOK' /\ BusOK'
  BY <1>1, <1>3, <1>5 DEF Inv, RingOK, CallOK, BusOK, bufVars, busVars, callVars
<1>10. ScheduleOK' /\ NotStranded'
  BY <1>1, <1>3, <1>4 DEF Inv, ScheduleOK, Scheduling, NotStranded
<1>11. TypeOK'
  <2>1. acked' \in Nat
    BY <1>1, <1>2, <1>4
  <2> QED
    BY <1>1, <1>3, <1>7, <2>1
       DEF Inv, TypeOK, bufVars, busVars, callVars, schedVars
<1> QED BY <1>7, <1>8, <1>9, <1>10, <1>11 DEF Inv

\* A completion takes the packet's bytes out of the ring, and the next packet is
\* built from what the ring then holds.
LEMMA ProcessDataToHostKeepsInv ==
    ASSUME Inv, ProcessDataToHost, PreemptAt \cap Wrapping = {}
    PROVE  Inv'
<1> DEFINE last == ep.usLastTxSize
           r == ring.ulReadIndex
           w == ring.ulWriteIndex
           h == Distance(r, w)
           ready == [ep EXCEPT !.eBulkTxState = "IDLE", !.usLastTxSize = 0]
<1>1. /\ pc \notin Wrapping /\ txIntr /\ txIntr' = FALSE /\ acked' = 0
      /\ ring' = USBRingBufAdvanceRead(ring, last)
      /\ ep' = ScheduleNextTransmission(ring', ready)
      /\ UNCHANGED <<pucBuf, busVars, pc, callVars, schedVars, accepted, received,
                     base>>
  BY DEF ProcessDataToHost, Interruptible
<1>2. /\ ep.eBulkTxState = "WAIT_DATA" /\ ~ep.txrdy /\ last <= Held
      /\ base + Len(received) = Gone + last
  BY <1>1 DEF Inv, EndpointOK
<1>3. ~Scheduling
  BY <1>2 DEF Inv, ScheduleOK
<1>4. Len(ep.fifo) = 0
  BY <1>2, <1>3 DEF Scheduling, Inv, EndpointOK
<1>5. /\ ring \in RingObject /\ Settled(ring) = ring /\ r \in Index /\ w \in Index
      /\ ring = [ulReadIndex |-> r, ulWriteIndex |-> w]
  <2>1. ring \in RingObject
    BY <1>1 DEF Inv, RingOK
  <2> QED BY <2>1, SettledIsRing DEF RingObject
<1>6. /\ Held = h /\ USBRingBufUsed(ring) = h /\ h \in Nat /\ last \in Nat
      /\ last \in 0 .. h /\ Gone = accepted - h /\ Gone \in Nat /\ accepted \in Nat
  BY <1>2, <1>5, GoneIsNat, UsedIsDistance DEF Held, Gone
<1>7. ring' = [ulReadIndex |-> Wrap(r + last), ulWriteIndex |-> w]
  <2>1. Smaller(h, last) = last
    BY <1>6 DEF Smaller
  <2> HIDE DEF last
  <2>2. ring' = [ring EXCEPT !.ulReadIndex = UpdateIndex(@, last)]
    BY <1>1, <1>6, <2>1 DEF USBRingBufAdvanceRead
  <2> QED BY <1>5, <2>2 DEF UpdateIndex
<1>8. /\ Wrap(r + last) \in Index /\ Distance(Wrap(r + last), w) = h - last
      /\ \A k \in 1 .. (h - last) :
             Wrap(Wrap(r + last) + k - 1) = Wrap(r + (last + k) - 1)
  <2>1. PICK d \in 0 .. h : d = last
    BY <1>6
  <2> HIDE DEF last
  <2>2. /\ Wrap(r + d) \in Index /\ Distance(Wrap(r + d), w) = h - d
        /\ \A k \in 1 .. (h - d) :
               Wrap(Wrap(r + d) + k - 1) = Wrap(r + (d + k) - 1)
    BY <1>5, ReadingShrinks
  <2> QED BY <2>1, <2>2
<1>9. /\ ring' \in RingObject /\ ring'.ulReadIndex = Wrap(r + last)
      /\ ring'.ulWriteIndex = w
      /\ USBRingBufUsed(ring') = h - last /\ Settled(ring') = ring'
  <2>1. ring' \in RingObject
    BY <1>5, <1>7, <1>8 DEF RingObject
  <2> QED BY <1>7, <1>8, <2>1, UsedIsDistance, SettledIsRing
<1>10. /\ Held' = h - last /\ Gone' = Gone + last /\ Gone' \in Nat
  <2>1. Held' = h - last /\ accepted' = accepted
    BY <1>1, <1>9 DEF Held
  <2> QED BY <1>6, <2>1 DEF Gone
<1>11. Carries(ring', pucBuf, Gone + last)
  <2>1. ASSUME NEW k \in 1 .. (h - last)
        PROVE  pucBuf[Wrap(Wrap(r + last) + k - 1)] = Gone + last + k
    <3>1. last + k \in 1 .. h /\ k \in Nat
      BY <1>6
    <3>2. Carries(ring, pucBuf, Gone)
      BY <1>5 DEF Inv, RingOK
    <3>3. pucBuf[Wrap(r + (last + k) - 1)] = Gone + (last + k)
      BY <1>6, <3>1, <3>2 DEF Carries
    <3>4. pucBuf[Wrap(Wrap(r + last) + k - 1)] = Gone + (last + k)
      BY <1>8, <3>3
    <3> QED BY <1>6, <3>1, <3>4
  <2> HIDE DEF last, r, w, h
  <2> QED BY <1>9, <2>1 DEF Carries
<1>12. RingOK'
  BY <1>1, <1>9, <1>10, <1>11 DEF RingOK
<1>13. CallOK'
  <2>1. /\ USBRingBufFree(ring) \in 0 .. (ulSize - 1)
        /\ USBRingBufFree(ring') \in 0 .. (ulSize - 1)
        /\ USBRingBufFree(ring) <= USBRingBufFree(ring')
    BY <1>5, <1>6, <1>9, UsedAndFree, SizeAssumption DEF USBRingBufFree
  <2>2. \A l \in 1 .. USBRingBufFree(ring) : l \in 1 .. USBRingBufFree(ring')
    BY <2>1, SizeAssumption
  <2>3. /\ ulLength' = ulLength /\ ulDelta' = ulDelta /\ accepted' = accepted
        /\ pc' = pc /\ pucBuf' = pucBuf /\ ring'.ulWriteIndex = ring.ulWriteIndex
    BY <1>1, <1>9 DEF callVars
  <2> QED BY <1>1, <2>2, <2>3 DEF Inv, CallOK
<1>14. ScheduleOK'
  BY <1>1, <1>3 DEF ScheduleOK, Scheduling
<1>15. Packed(ready, 0, Gone + last) /\ ready.eBulkTxState = "IDLE" /\ ~ready.txrdy
  <2>1. ep \in Endpoint /\ 0 \in 0 .. USHRT_MAX
    BY PacketIsShort DEF Inv, TypeOK
  <2>2. /\ ready.eBulkTxState = "IDLE" /\ ready.usLastTxSize = 0
        /\ ready.fifo = ep.fifo /\ ready.txrdy = ep.txrdy /\ ready \in Endpoint
    BY <2>1 DEF Endpoint
  <2>3. ep.fifo \in Seq(Nat) /\ \A k \in 1 .. 0 : ep.fifo[k] = Gone + last + k
    BY <2>1 DEF Endpoint
  <2>4. Follows(ep.fifo, Gone + last)
    BY <1>4, <2>3 DEF Follows
  <2> QED BY <1>2, <1>4, <2>2, <2>4 DEF Packed
<1>16. /\ USBRingBufUsed(ring') = 0 => ep' = ready
       /\ USBRingBufUsed(ring') > 0 =>
            \E n \in 1 .. MaxPacket :
                /\ n <= USBRingBufUsed(ring') /\ Packed(ep', n, Gone + last)
                /\ ep'.eBulkTxState = "WAIT_DATA" /\ ep'.txrdy = TRUE
  <2>1. PICK e : e = ready
    OBVIOUS
  <2>2. PICK g \in Nat : g = Gone + last
    BY <1>10
  <2>3. PICK s \in RingObject : s = ring'
    BY <1>9
  <2>4. pucBuf \in [Index -> Nat]
    BY DEF Inv, TypeOK
  <2>5. PICK f : f = ep'
    OBVIOUS
  <2> HIDE DEF ready, last
  <2>6. Carries(s, pucBuf, g)
    BY <1>11, <2>2, <2>3
  <2>7. Packed(e, 0, g) /\ e.eBulkTxState = "IDLE" /\ ~e.txrdy
    BY <1>15, <2>1, <2>2
  <2>8. f = ScheduleNextTransmission(s, e)
    BY <1>1, <2>1, <2>3, <2>5
  <2>9. /\ USBRingBufUsed(s) = 0 => f = e
        /\ USBRingBufUsed(s) > 0 =>
             \E n \in 1 .. MaxPacket :
                 /\ n <= USBRingBufUsed(s) /\ Packed(f, n, g)
                 /\ f.eBulkTxState = "WAIT_DATA" /\ f.txrdy = TRUE
    BY <2>4, <2>6, <2>7, <2>8, ScheduleBuilds, ZenonT(60)
  <2> QED BY <2>1, <2>2, <2>3, <2>5, <2>9
<1>17. /\ EndpointOK' /\ NotStranded' /\ ep' \in Endpoint
       /\ ep'.eBulkTxState # "UNCONFIGURED"
  <2>1. ~txIntr' /\ acked' = 0 /\ base' + Len(received') = Gone'
    BY <1>1, <1>2, <1>10
  <2>2. CASE USBRingBufUsed(ring') = 0
    <3>1. Packed(ep', 0, Gone') /\ ep'.eBulkTxState = "IDLE" /\ ~ep'.txrdy
      BY <1>10, <1>15, <1>16, <2>2
    <3>2. Held' = 0 /\ 0 <= MaxPacket /\ 0 <= Held' /\ 0 \in Nat
      BY <1>9, <1>10, <2>2, PacketIsShort
    <3> HIDE DEF ready, last, h, r, w
    <3> QED BY <2>1, <3>1, <3>2, EndpointLoaded DEF NotStranded, Packed
  <2>3. CASE USBRingBufUsed(ring') > 0
    <3>1. PICK n \in 1 .. MaxPacket :
              /\ n <= USBRingBufUsed(ring') /\ Packed(ep', n, Gone + last)
              /\ ep'.eBulkTxState = "WAIT_DATA" /\ ep'.txrdy = TRUE
      BY <1>16, <2>3
    <3>2. n \in Nat /\ n <= MaxPacket /\ n <= Held' /\ Packed(ep', n, Gone')
      BY <1>9, <1>10, <3>1, PacketIsShort
    <3> HIDE DEF ready, last, h, r, w
    <3> QED BY <2>1, <3>1, <3>2, EndpointLoaded DEF NotStranded, Packed
  <2>4. USBRingBufUsed(ring') \in Nat
    BY <1>9, UsedAndFree, SizeAssumption
  <2> QED BY <2>2, <2>3, <2>4
<1>18. BusOK' /\ StreamIntact'
  BY <1>1, <1>2, <1>17 DEF Inv, BusOK, StreamIntact, busVars
<1>19. TypeOK'
  <2>1. ring' \in [ulReadIndex : Nat, ulWriteIndex : Nat]
    BY <1>9, SizeAssumption DEF RingObject, Index
  <2> QED
    BY <1>1, <1>17, <2>1 DEF Inv, TypeOK, busVars, callVars, schedVars
<1> QED BY <1>12, <1>13, <1>14, <1>17, <1>18, <1>19 DEF Inv

\* The one configuration finds the endpoint and the host without data, and the
\* stream starts over with the byte after the newest one flushed.
LEMMA HandleConfigChangeKeepsInv ==
    ASSUME Inv, HandleConfigChange, PreemptAt \cap Wrapping = {}, MaxConfigs <= 1
    PROVE  Inv'
<1>1. /\ pc \notin Wrapping /\ configs < MaxConfigs
      /\ configs' = configs + 1 /\ configured' = TRUE
      /\ ep' = [ep EXCEPT !.eBulkTxState = "IDLE"]
      /\ ring' = USBRingBufFlush(ring)
      /\ base' = accepted /\ received' = << >>
      /\ UNCHANGED <<pucBuf, txIntr, pc, callVars, schedVars, accepted, acked>>
  BY DEF HandleConfigChange, Interruptible
<1>2. configs = 0 /\ MaxConfigs = 1
  BY <1>1, BoundsAssumption DEF Inv, TypeOK
<1>3. ep.eBulkTxState = "UNCONFIGURED"
  BY <1>2 DEF Inv, BusOK
<1>4. ~Scheduling
  BY <1>3 DEF Inv, ScheduleOK
<1>5. /\ ~ep.txrdy /\ ~txIntr
  BY <1>3 DEF Inv, EndpointOK
<1>6. /\ Len(ep.fifo) = 0 /\ ep.usLastTxSize = 0 /\ acked = 0
  BY <1>4, <1>5 DEF Scheduling, Inv, EndpointOK
<1>7. ep' \in Endpoint /\ Len(ep'.fifo) = 0 /\ ep'.usLastTxSize = 0
      /\ ep'.txrdy = FALSE /\ ep'.eBulkTxState = "IDLE"
  <2>1. ep \in Endpoint
    BY DEF Inv, TypeOK
  <2>2. /\ ep'.eBulkTxState = "IDLE" /\ ep'.usLastTxSize = ep.usLastTxSize
        /\ ep'.fifo = ep.fifo /\ ep'.txrdy = ep.txrdy /\ ep' \in Endpoint
    BY <1>1, <2>1 DEF Endpoint
  <2>3. ep.txrdy \in BOOLEAN
    BY <2>1 DEF Endpoint
  <2> QED BY <1>5, <1>6, <2>2, <2>3
<1>8. /\ ring \in RingObject /\ ring' \in RingObject /\ Settled(ring') = ring'
      /\ USBRingBufUsed(ring') = 0 /\ USBRingBufFree(ring') = ulSize - 1
      /\ ring'.ulWriteIndex = ring.ulWriteIndex
  <2>1. ring \in RingObject
    BY <1>1 DEF Inv, RingOK
  <2>2. /\ ring' \in RingObject /\ ring'.ulReadIndex = ring.ulWriteIndex
        /\ ring'.ulWriteIndex = ring.ulWriteIndex
    BY <1>1, <2>1 DEF USBRingBufFlush, RingObject
  <2>3. ring.ulWriteIndex \in Nat
    BY <2>1, SizeAssumption DEF RingObject, Index
  <2>4. USBRingBufUsed(ring') = 0
    BY <2>2, <2>3 DEF USBRingBufUsed
  <2> QED BY <2>1, <2>2, <2>4, SettledIsRing, SizeAssumption DEF USBRingBufFree
<1>9. Held' = 0 /\ Gone' = accepted /\ accepted \in Nat
  <2>1. Held' = 0 /\ accepted \in Nat /\ accepted' = accepted
    BY <1>1, <1>8, GoneIsNat DEF Held
  <2> QED BY <2>1 DEF Gone
<1>10. RingOK'
  BY <1>8, <1>9 DEF RingOK, Carries
<1>11. CallOK'
  <2>1. /\ USBRingBufFree(ring) \in 0 .. (ulSize - 1)
        /\ USBRingBufFree(ring) <= USBRingBufFree(ring')
    BY <1>8, UsedAndFree, SizeAssumption
  <2>2. \A l \in 1 .. USBRingBufFree(ring) : l \in 1 .. USBRingBufFree(ring')
    BY <1>8, <2>1, SizeAssumption
  <2>3. /\ ulLength' = ulLength /\ ulDelta' = ulDelta /\ accepted' = accepted
        /\ pc' = pc /\ pucBuf' = pucBuf /\ ring'.ulWriteIndex = ring.ulWriteIndex
    BY <1>1, <1>8 DEF callVars
  <2> QED BY <1>1, <2>2, <2>3 DEF Inv, CallOK
<1>12. ScheduleOK' /\ NotStranded'
  BY <1>1, <1>4, <1>9 DEF ScheduleOK, Scheduling, NotStranded
<1>13. EndpointOK'
  <2>1. Len(received') = 0 /\ base' + Len(received') = Gone'
    BY <1>1, <1>9
  <2>2. \A k \in 1 .. Len(ep'.fifo) : ep'.fifo[k] = Gone' + k
    BY <1>7
  <2>3. ~txIntr' /\ acked' = 0 /\ 0 <= MaxPacket
    BY <1>1, <1>5, <1>6, PacketIsShort
  <2> QED BY <1>7, <1>9, <2>1, <2>2, <2>3 DEF EndpointOK
<1>14. BusOK' /\ StreamIntact'
  <2>1. BusOK'
    BY <1>1, <1>2, <1>7 DEF BusOK
  <2>2. Len(received') = 0
    BY <1>1
  <2> QED BY <2>1, <2>2 DEF StreamIntact
<1>15. TypeOK'
  <2>1. ring' \in [ulReadIndex : Nat, ulWriteIndex : Nat]
    BY <1>8, SizeAssumption DEF RingObject, Index
  <2>2. configs' \in 0 .. MaxConfigs /\ base' \in Nat
    BY <1>1, <1>2, <1>9
  <2>3. received' \in Seq(Nat)
    BY <1>1
  <2> QED
    BY <1>1, <1>7, <2>1, <2>2, <2>3 DEF Inv, TypeOK, callVars, schedVars
<1> QED BY <1>10, <1>11, <1>12, <1>13, <1>14, <1>15 DEF Inv
-----------------------------------------------------------------------------
(* The theorems.                                                           *)

\* A ring that has just been made is empty, and so is the endpoint.
LEMMA InitInv ==
    ASSUME Init
    PROVE  Inv
<1>1. /\ ring = USBRingBufInit /\ pucBuf = [i \in Index |-> 0]
      /\ pc = "idle" /\ txIntr = FALSE /\ configured = FALSE /\ configs = 0
      /\ ulLength = 0 /\ ulDelta = 0 /\ ulPacket = 0 /\ ulSpace = 0 /\ ulTotal = 0
      /\ accepted = 0 /\ received = << >> /\ base = 0 /\ acked = 0
      /\ ep = [eBulkTxState |-> "UNCONFIGURED", usLastTxSize |-> 0,
               fifo |-> << >>, txrdy |-> FALSE]
  BY DEF Init
<1>2. /\ ring \in RingObject /\ Settled(ring) = ring /\ USBRingBufUsed(ring) = 0
  <2>1. ring \in RingObject
    BY <1>1, SizeAssumption DEF USBRingBufInit, RingObject, Index
  <2> QED BY <1>1, <2>1, SettledIsRing DEF USBRingBufInit, USBRingBufUsed
<1>3. Held = 0 /\ Gone = 0
  BY <1>1, <1>2 DEF Held, Gone
<1>4. RingOK
  BY <1>2, <1>3 DEF RingOK, Carries
<1>5. ep \in Endpoint /\ Len(ep.fifo) = 0 /\ ep.usLastTxSize = 0
      /\ ep.txrdy = FALSE /\ ep.eBulkTxState = "UNCONFIGURED"
  <2>0. << >> \in Seq(Nat)
    OBVIOUS
  <2>1. PICK none \in Seq(Nat) : none = << >>
    BY <2>0
  <2>2. ep = [eBulkTxState |-> "UNCONFIGURED", usLastTxSize |-> 0,
              fifo |-> none, txrdy |-> FALSE]
    BY <1>1, <2>1
  <2>3. 0 \in 0 .. USHRT_MAX /\ Len(none) = 0
    BY <2>1, PacketIsShort
  <2> QED BY <2>2, <2>3 DEF Endpoint
<1>6. Len(received) = 0 /\ received \in Seq(Nat)
  BY <1>1
<1>7. EndpointOK
  <2>1. base + Len(received) = Gone /\ \A k \in 1 .. Len(ep.fifo) : ep.fifo[k] = Gone + k
    BY <1>1, <1>3, <1>5, <1>6
  <2>2. ~txIntr /\ acked = 0 /\ 0 <= MaxPacket
    BY <1>1, PacketIsShort
  <2> QED BY <1>3, <1>5, <2>1, <2>2 DEF EndpointOK
<1>8. CallOK /\ ScheduleOK /\ NotStranded /\ BusOK /\ StreamIntact
  BY <1>1, <1>5, <1>6
     DEF CallOK, ScheduleOK, Scheduling, NotStranded, BusOK, StreamIntact
<1>9. TypeOK
  <2>1. ring \in [ulReadIndex : Nat, ulWriteIndex : Nat]
    BY <1>2, SizeAssumption DEF RingObject, Index
  <2>2. pucBuf \in [Index -> Nat]
    BY <1>1
  <2>3. accepted \in 0 .. MaxBytes /\ configs \in 0 .. MaxConfigs
    BY <1>1, BoundsAssumption
  <2> QED
    BY <1>1, <1>5, <1>6, <2>1, <2>2, <2>3 DEF TypeOK, ClientSteps
<1> QED BY <1>4, <1>7, <1>8, <1>9 DEF Inv

\* Steps that change nothing.
LEMMA StutterKeepsInv ==
    ASSUME Inv, UNCHANGED vars
    PROVE  Inv'
<1>1. UNCHANGED <<ring, pucBuf, ep, txIntr, configured, configs, pc, ulLength,
                  ulDelta, ulPacket, ulSpace, ulTotal, accepted, received, base,
                  acked>>
  BY DEF vars, bufVars, busVars, callVars, schedVars, ghostVars
<1>2. Held' = Held /\ Gone' = Gone
  BY <1>1 DEF Held, Gone
<1>3. TypeOK' /\ CallOK' /\ ScheduleOK' /\ BusOK'
  BY <1>1 DEF Inv, TypeOK, CallOK, ScheduleOK, Scheduling, BusOK
<1>4. RingOK' /\ EndpointOK' /\ NotStranded' /\ StreamIntact'
  BY <1>1, <1>2 DEF Inv, RingOK, EndpointOK, NotStranded, StreamIntact
<1> QED BY <1>3, <1>4 DEF Inv

\* A bus reset is followed by a second configuration, or not allowed at all.
LEMMA NextKeepsInv ==
    ASSUME Inv, [Next]_vars, PreemptAt \cap Wrapping = {}, MaxConfigs <= 1
    PROVE  Inv'
<1>1. CASE \E n \in 1 .. MaxWrite : USBBufferWrite(n) \/ USBBufferDataWritten(n)
  BY <1>1, WriteKeepsInv, DataWrittenKeepsInv
<1>2. CASE StoreByte
  BY <1>2, StoreByteKeepsInv
<1>3. CASE AddToIndex \/ AdvanceWrite
  BY <1>3, AddToIndexKeepsInv
<1>4. CASE CorrectForWrap \/ AdvanceWriteWraps
  BY <1>4, CorrectForWrapKeepsInv
<1>5. CASE AskPacketAvailable
  BY <1>5, AskPacketAvailableKeepsInv
<1>6. CASE AskContigUsed
  BY <1>6, AskContigUsedKeepsInv
<1>7. CASE AskUsed
  BY <1>7, AskUsedKeepsInv
<1>8. CASE TransferFirst
  BY <1>8, TransferFirstKeepsInv
<1>9. CASE TransferSecond
  BY <1>9, TransferSecondKeepsInv
<1>10. CASE ProcessDataToHost
  BY <1>10, ProcessDataToHostKeepsInv
<1>11. CASE HandleConfigChange
  BY <1>11, HandleConfigChangeKeepsInv
<1>12. CASE BusReset
  <2>1. configured /\ configs < MaxConfigs
    BY <1>12 DEF BusReset
  <2>2. configs = 1 /\ MaxConfigs \in Nat
    BY <2>1, BoundsAssumption DEF Inv, BusOK
  <2> QED BY <2>1, <2>2
<1>13. CASE HostTakesPacket
  BY <1>13, HostTakesPacketKeepsInv
<1>14. CASE UNCHANGED vars
  BY <1>14, StutterKeepsInv
<1> QED
  BY <1>1, <1>2, <1>3, <1>4, <1>5, <1>6, <1>7, <1>8, <1>9, <1>10, <1>11, <1>12,
     <1>13, <1>14
     DEF Next, Client, ClientStep

\* The invariant is that of every device that is configured once and whose client
\* is not interrupted between the two halves of an index update.
THEOREM InvariantHolds ==
    ASSUME PreemptAt \cap Wrapping = {}, MaxConfigs <= 1
    PROVE  Spec => []Inv
<1>1. Init => Inv
  BY InitInv
<1>2. Inv /\ [Next]_vars => Inv'
  BY NextKeepsInv
<1> QED BY <1>1, <1>2, PTL DEF Spec

\* Every variable keeps the type the code gives it.
THEOREM TypeCorrect ==
    ASSUME PreemptAt \cap Wrapping = {}, MaxConfigs <= 1
    PROVE  Spec => []TypeOK
<1>1. Inv => TypeOK
  BY DEF Inv
<1> QED BY <1>1, InvariantHolds, PTL

\* The host receives the client's bytes in order, each once and none missing,
\* however the client's calls and the interrupt share ScheduleNextTransmission.
THEOREM StreamCorrect ==
    ASSUME PreemptAt \cap Wrapping = {}, MaxConfigs <= 1
    PROVE  Spec => []StreamIntact
<1>1. Inv => StreamIntact
  BY DEF Inv
<1> QED BY <1>1, InvariantHolds, PTL

\* A client that is done leaves no byte in the ring that nothing will send.
THEOREM NothingStranded ==
    ASSUME PreemptAt \cap Wrapping = {}, MaxConfigs <= 1
    PROVE  Spec => []NoStrandedData
<1>1. ASSUME Inv PROVE NoStrandedData
  <2> SUFFICES ASSUME configured, pc = "idle", USBRingBufUsed(ring) > 0
               PROVE  ep.txrdy \/ txIntr
    BY DEF NoStrandedData
  <2>1. ring \in RingObject
    BY <1>1 DEF Inv, RingOK
  <2>2. Held = USBRingBufUsed(ring)
    BY <2>1, SettledIsRing DEF Held
  <2>3. ep.eBulkTxState \in {"UNCONFIGURED", "IDLE", "WAIT_DATA"}
    BY <1>1 DEF Inv, TypeOK, Endpoint
  <2>4. ep.eBulkTxState # "UNCONFIGURED" /\ ep.eBulkTxState # "IDLE"
    BY <1>1, <2>2 DEF Inv, BusOK, NotStranded
  <2> QED BY <1>1, <2>3, <2>4 DEF Inv, EndpointOK
<1> QED BY <1>1, InvariantHolds, PTL

\* A packet from the two ends of the storage fits the endpoint.
THEOREM PacketsFit ==
    ASSUME PreemptAt \cap Wrapping = {}, MaxConfigs <= 1
    PROVE  Spec => []PacketFits
<1>1. Inv => PacketFits
  BY DEF Inv, EndpointOK, PacketFits
<1> QED BY <1>1, InvariantHolds, PTL

\* A completion reports as many bytes as the host acknowledged.
THEOREM CompletionsCount ==
    ASSUME PreemptAt \cap Wrapping = {}, MaxConfigs <= 1
    PROVE  Spec => []CompletionCountsAcked
<1>1. Inv => CompletionCountsAcked
  BY DEF Inv, EndpointOK, CompletionCountsAcked
<1> QED BY <1>1, InvariantHolds, PTL
-----------------------------------------------------------------------------
(* Resets, any number of configurations and a client interrupted anywhere. *)

\* The driver's record keeps its fields, whatever their values.
Shaped(e) ==
    /\ e = [eBulkTxState |-> e.eBulkTxState, usLastTxSize |-> e.usLastTxSize,
            fifo |-> e.fifo, txrdy |-> e.txrdy]
    /\ e.txrdy \in BOOLEAN

\* The state and the commit of a packet change together.
Paired(e) == Shaped(e) /\ (e.eBulkTxState = "WAIT_DATA" => e.txrdy)

WaitInv == Shaped(ep) /\ NoDeadWait

\* USBDBulkPacketWrite refuses the data or leaves state and commit in step.
LEMMA WriteKeepsPaired ==
    ASSUME NEW e, NEW bytes, NEW bLast \in BOOLEAN,
           NEW f, f = USBDBulkPacketWrite(e, bytes, bLast)
    PROVE  f = e \/ Paired(f)
<1>1. CASE f = e
  BY <1>1
<1>2. CASE f # e
  <2>1. PICK s, n, b :
            f = [eBulkTxState |-> s, usLastTxSize |-> n, fifo |-> b, txrdy |-> bLast]
            /\ (s = "WAIT_DATA" => bLast)
    BY <1>2 DEF USBDBulkPacketWrite
  <2> QED BY <2>1 DEF Paired, Shaped
<1> QED BY <1>1, <1>2

\* ... and so does all of ScheduleNextTransmission, whatever it reads of the ring.
LEMMA ScheduleKeepsPaired ==
    ASSUME NEW r, NEW e, Paired(e), NEW f, f = ScheduleNextTransmission(r, e)
    PROVE  Paired(f)
<1> DEFINE packet == USBDBulkTxPacketAvailable(e)
           space == USBRingBufContigUsed(r)
           total == USBRingBufUsed(r)
           split == IsSplit(space, packet, total)
           first == Block(r.ulReadIndex, FirstPart(space, packet))
           second == Block(0, SecondPart(space, packet, total))
           e1 == USBDBulkPacketWrite(e, first, ~split)
           e2 == USBDBulkPacketWrite(e1, second, TRUE)
<1>1. f = e \/ f = e1 \/ f = e2
  BY DEF ScheduleNextTransmission
<1>2. Paired(e1)
  <2>1. (~split) \in BOOLEAN
    BY DEF IsSplit
  <2> HIDE DEF split, first
  <2> QED BY <2>1, WriteKeepsPaired
<1>3. Paired(e2)
  <2> HIDE DEF e1, second
  <2> QED BY <1>2, WriteKeepsPaired
<1> QED BY <1>1, <1>2, <1>3

\* Every step that writes the endpoint keeps it from waiting in vain.
LEMMA NextKeepsWaitInv ==
    ASSUME WaitInv, [Next]_vars
    PROVE  WaitInv'
<1>1. CASE UNCHANGED <<ep, txIntr, configured>>
  BY <1>1 DEF WaitInv, NoDeadWait
<1>2. ASSUME NEW bytes, NEW bLast \in BOOLEAN,
             ep' = USBDBulkPacketWrite(ep, bytes, bLast),
             UNCHANGED <<txIntr, configured>>
      PROVE  WaitInv'
  BY <1>2, WriteKeepsPaired DEF WaitInv, NoDeadWait, Paired
<1>3. CASE TransferFirst
  <2>1. (~IsSplit(ulSpace, ulPacket, ulTotal)) \in BOOLEAN
    BY DEF IsSplit
  <2> QED BY <1>2, <1>3, <2>1 DEF TransferFirst, busVars
<1>4. CASE TransferSecond
  BY <1>2, <1>4 DEF TransferSecond, busVars
<1>5. CASE ProcessDataToHost
  <2> DEFINE ready == [ep EXCEPT !.eBulkTxState = "IDLE", !.usLastTxSize = 0]
  <2>1. ep' = ScheduleNextTransmission(ring', ready)
    BY <1>5 DEF ProcessDataToHost
  <2>2. Paired(ready)
    <3>1. ready = [eBulkTxState |-> "IDLE", usLastTxSize |-> 0,
                   fifo |-> ep.fifo, txrdy |-> ep.txrdy]
      <4>1. PICK s, n, b, t :
                ep = [eBulkTxState |-> s, usLastTxSize |-> n, fifo |-> b, txrdy |-> t]
        BY DEF WaitInv, Shaped
      <4>2. ep \in [eBulkTxState : {s}, usLastTxSize : {n}, fifo : {b}, txrdy : {t}]
        BY <4>1
      <4>3. /\ ready \in [eBulkTxState : {"IDLE"}, usLastTxSize : {0},
                          fifo : {b}, txrdy : {t}]
            /\ ep.fifo = b /\ ep.txrdy = t
        BY <4>2
      <4> HIDE DEF ready
      <4> QED BY <4>3
    <3>2. ep.txrdy \in BOOLEAN
      BY DEF WaitInv, Shaped
    <3> HIDE DEF ready
    <3> QED BY <3>1, <3>2 DEF Shaped, Paired
  <2> HIDE DEF ready
  <2>3. Paired(ep')
    BY <2>1, <2>2, ScheduleKeepsPaired
  <2> QED BY <2>3 DEF WaitInv, NoDeadWait, Paired
<1>6. CASE HandleConfigChange
  BY <1>6 DEF HandleConfigChange, WaitInv, NoDeadWait, Shaped
<1>7. CASE BusReset
  BY <1>7 DEF BusReset, WaitInv, NoDeadWait, Shaped
<1>8. CASE HostTakesPacket
  BY <1>8 DEF HostTakesPacket, WaitInv, NoDeadWait, Shaped
<1>9. CASE \E n \in 1 .. MaxWrite : USBBufferWrite(n) \/ USBBufferDataWritten(n)
  BY <1>1, <1>9 DEF USBBufferWrite, USBBufferDataWritten, busVars
<1>10. CASE \/ StoreByte \/ AddToIndex \/ CorrectForWrap
             \/ AdvanceWrite \/ AdvanceWriteWraps
  BY <1>1, <1>10
     DEF StoreByte, AddToIndex, CorrectForWrap, AdvanceWrite, AdvanceWriteWraps, busVars
<1>11. CASE AskPacketAvailable \/ AskContigUsed \/ AskUsed
  BY <1>1, <1>11 DEF AskPacketAvailable, AskContigUsed, AskUsed, busVars
<1>12. CASE UNCHANGED vars
  BY <1>1, <1>12 DEF vars, busVars
<1> QED
  BY <1>3, <1>4, <1>5, <1>6, <1>7, <1>8, <1>9, <1>10, <1>11, <1>12
     DEF Next, Client, ClientStep

\* The driver never waits for a completion that cannot come, however often the
\* device is reset and configured and wherever the client is interrupted.
THEOREM NeverDeadWaits == Spec => []NoDeadWait
<1>1. Init => WaitInv
  BY DEF Init, WaitInv, Shaped, NoDeadWait
<1>2. WaitInv /\ [Next]_vars => WaitInv'
  BY NextKeepsWaitInv
<1>3. WaitInv => NoDeadWait
  BY DEF WaitInv
<1> QED BY <1>1, <1>2, <1>3, PTL DEF Spec
-----------------------------------------------------------------------------
(* Resets and any number of configurations, for a client in interrupt      *)
(* context.  usLastTxSize may be stale then, and the read index move too   *)
(* far: nothing is said of which bytes the ring holds.                     *)

\* The driver's record, with whatever count.
Counted(e) == Shaped(e) /\ e.usLastTxSize \in Nat

\* The write index is in the storage but between the two halves of an update, and
\* there not beyond what one correction brings back.
WriteIndexOK ==
    /\ ring = [ulReadIndex |-> ring.ulReadIndex, ulWriteIndex |-> ring.ulWriteIndex]
    /\ ring.ulReadIndex \in Index
    /\ IF pc \in Wrapping THEN Wrap(ring.ulWriteIndex) \in Index
       ELSE ring.ulWriteIndex \in Index
    /\ pc = "store" => ulDelta = 1
    /\ pc \in Adding \cup Wrapping => /\ ulDelta \in 0 .. ulSize
                                      /\ ulDelta = 1 \/ ulDelta = ulLength

\* The client has found an idle transmitter, and what it has read of the ring is so.
AttemptOK ==
    /\ Scheduling => ep.eBulkTxState = "IDLE" /\ ulPacket = MaxPacket
    /\ pc \in {"total", "transfer1", "transfer2"} => ulSpace = USBRingBufContigUsed(ring)
    /\ pc \in {"transfer1", "transfer2"} => ulTotal = USBRingBufUsed(ring) /\ ulTotal > 0
    /\ pc = "transfer2" => IsSplit(ulSpace, ulPacket, ulTotal)

ResetInv ==
    /\ Counted(ep) /\ WriteIndexOK /\ AttemptOK /\ NoDeadWait /\ NoStrandedData
    /\ configured => ep.eBulkTxState \in {"IDLE", "WAIT_DATA"}

\* A part that fits goes into the FIFO of an idle transmitter, or finds a packet there;
\* the last part leaves a packet in any case.
LEMMA PartCommits ==
    ASSUME NEW e, Counted(e), e.eBulkTxState = "IDLE", NEW bytes, Len(bytes) \in Nat,
           Len(bytes) <= MaxPacket, NEW bLast \in BOOLEAN,
           NEW f, f = USBDBulkPacketWrite(e, bytes, bLast)
    PROVE  /\ Counted(f) /\ f.eBulkTxState \in {"IDLE", "WAIT_DATA"}
           /\ bLast => f.txrdy
           /\ ~bLast => f.eBulkTxState = "IDLE"
<1>1. CASE e.txrdy
  BY <1>1 DEF USBDBulkPacketWrite
<1>2. CASE ~e.txrdy
  <2>1. f = [eBulkTxState |-> IF bLast THEN "WAIT_DATA" ELSE "IDLE",
             usLastTxSize |-> (e.usLastTxSize + Len(bytes)) % (USHRT_MAX + 1),
             fifo |-> e.fifo \o bytes, txrdy |-> bLast]
    <3>1. ~(Len(bytes) > MaxPacket)
      BY PacketIsShort
    <3> QED BY <1>2, <3>1 DEF USBDBulkPacketWrite
  <2>2. (e.usLastTxSize + Len(bytes)) % (USHRT_MAX + 1) \in Nat
    BY DEF Counted, USHRT_MAX
  <2> DEFINE n == (e.usLastTxSize + Len(bytes)) % (USHRT_MAX + 1)
             b == e.fifo \o bytes
  <2> HIDE DEF n, b
  <2>3. f = [eBulkTxState |-> IF bLast THEN "WAIT_DATA" ELSE "IDLE",
             usLastTxSize |-> n, fifo |-> b, txrdy |-> bLast] /\ n \in Nat
    BY <2>1, <2>2 DEF n, b
  <2> QED BY <2>3 DEF Counted, Shaped
<1> QED BY <1>1, <1>2 DEF Counted, Shaped

\* The block that is handed over has as many bytes as it should.
LEMMA BlockLength ==
    ASSUME NEW i, NEW n \in Nat
    PROVE  Len(Block(i, n)) = n
BY DEF Block

\* USBBufferEvent's attempt in the completion: if the ring has data, a packet waits.
LEMMA ScheduleCommits ==
    ASSUME NEW r \in RingObject, NEW e, Counted(e), e.eBulkTxState = "IDLE",
           NEW f, f = ScheduleNextTransmission(r, e)
    PROVE  /\ Counted(f) /\ f.eBulkTxState \in {"IDLE", "WAIT_DATA"}
           /\ USBRingBufUsed(r) > 0 => f.txrdy
<1> DEFINE space == USBRingBufContigUsed(r)
           total == USBRingBufUsed(r)
           split == IsSplit(space, MaxPacket, total)
           first == Block(r.ulReadIndex, FirstPart(space, MaxPacket))
           second == Block(0, SecondPart(space, MaxPacket, total))
           e1 == USBDBulkPacketWrite(e, first, ~split)
           e2 == USBDBulkPacketWrite(e1, second, TRUE)
<1>1. f = IF MaxPacket = 0 \/ space = 0 THEN e ELSE IF split THEN e2 ELSE e1
  BY DEF ScheduleNextTransmission, USBDBulkTxPacketAvailable
<1>2. total \in Nat /\ space \in 0 .. total /\ (total > 0 => space > 0) /\ MaxPacket # 0
  BY UsedAndFree, TwoBlocks, PacketIsShort
<1>3. CASE space = 0
  <2> HIDE DEF space, total, split, first, e1, e2
  <2> QED BY <1>1, <1>2, <1>3 DEF total
<1>4. CASE space # 0
  <2>1. total > 0
    <3> HIDE DEF space, total
    <3> QED BY <1>2, <1>4
  <2>2. /\ FirstPart(space, MaxPacket) \in 1 .. MaxPacket
        /\ split => SecondPart(space, MaxPacket, total) \in 1 .. (total - space)
                    /\ space + SecondPart(space, MaxPacket, total) <= MaxPacket
    BY <2>1, PartSizes
  <2>3. Len(first) \in Nat /\ Len(first) <= MaxPacket /\ (~split) \in BOOLEAN
    <3>1. FirstPart(space, MaxPacket) \in Nat /\ FirstPart(space, MaxPacket) <= MaxPacket
      BY <2>2, PacketIsShort
    <3>2. (~split) \in BOOLEAN
      BY DEF IsSplit
    <3> HIDE DEF split, space
    <3> QED BY <3>1, <3>2, BlockLength
  <2>4. /\ Counted(e1) /\ e1.eBulkTxState \in {"IDLE", "WAIT_DATA"}
        /\ ~split => e1.txrdy
        /\ split => e1.eBulkTxState = "IDLE"
    <3> HIDE DEF split, first
    <3> QED BY <2>3, PartCommits
  <2>5. CASE ~split
    <3> HIDE DEF split, e1, e2, space, total
    <3> QED BY <1>1, <1>2, <1>4, <2>4, <2>5
  <2>6. CASE split
    <3> DEFINE yes == TRUE
    <3>1. Len(second) \in Nat /\ Len(second) <= MaxPacket
      <4>1. SecondPart(space, MaxPacket, total) \in Nat
            /\ SecondPart(space, MaxPacket, total) <= MaxPacket
        <5> DEFINE n == SecondPart(space, MaxPacket, total)
        <5>1. n \in 1 .. (total - space) /\ space + n <= MaxPacket
          BY <2>2, <2>6
        <5> HIDE DEF n, space, total
        <5> QED BY <1>2, <5>1, PacketIsShort DEF n
      <4> HIDE DEF space, total
      <4> QED BY <4>1, BlockLength
    <3>2. e2 = USBDBulkPacketWrite(e1, second, yes) /\ yes \in BOOLEAN
      OBVIOUS
    <3> HIDE DEF e1, e2, second, yes
    <3>3. Counted(e2) /\ e2.eBulkTxState \in {"IDLE", "WAIT_DATA"} /\ (yes => e2.txrdy)
      BY <2>4, <2>6, <3>1, <3>2, PartCommits
    <3> HIDE DEF split, space, total
    <3> QED BY <1>1, <1>2, <1>4, <2>6, <3>3 DEF yes
  <2> QED BY <2>5, <2>6
<1> QED BY <1>3, <1>4

\* Outside an index update the ring is well formed.
LEMMA RingWellFormed ==
    ASSUME WriteIndexOK, pc \notin Wrapping
    PROVE  ring \in RingObject
<1>1. ring = [ulReadIndex |-> ring.ulReadIndex, ulWriteIndex |-> ring.ulWriteIndex]
      /\ ring.ulReadIndex \in Index /\ ring.ulWriteIndex \in Index
  BY DEF WriteIndexOK
<1>2. PICK r \in Index, w \in Index : ring = [ulReadIndex |-> r, ulWriteIndex |-> w]
  BY <1>1
<1> QED BY <1>2 DEF RingObject

\* ... and a well-formed ring is all that is asked of it between two calls.
LEMMA WellFormedIsOK ==
    ASSUME ring' \in RingObject, pc' \notin {"store"} \cup Adding \cup Wrapping
    PROVE  WriteIndexOK'
<1>1. PICK r \in Index, w \in Index : ring' = [ulReadIndex |-> r, ulWriteIndex |-> w]
  BY DEF RingObject
<1> QED BY <1>1 DEF WriteIndexOK

\* A client that begins a call, or ends one without a further attempt to send,
\* changes neither the endpoint nor the bus.
LEMMA WriteKeepsResetInv ==
    ASSUME ResetInv, NEW n \in 1 .. MaxWrite, USBBufferWrite(n) \/ USBBufferDataWritten(n)
    PROVE  ResetInv'
<1>1. /\ pc = "idle" /\ pc' \in {"avail", "store", "advance"}
      /\ UNCHANGED <<ring, ep, txIntr, busVars>>
      /\ pc' = "store" => ulDelta' = 1
      /\ pc' \in Adding => ulDelta' = n /\ ulLength' = n /\ n <= USBRingBufFree(ring)
  BY DEF USBBufferWrite, USBBufferDataWritten, bufVars
<1>2. ring \in RingObject
  BY <1>1, RingWellFormed DEF ResetInv
<1>3. pc' \in Adding => n \in 0 .. ulSize
  <2>1. USBRingBufFree(ring) \in 0 .. (ulSize - 1)
    BY <1>2, UsedAndFree
  <2> QED BY <1>1, <2>1, SizeAssumption, BoundsAssumption
<1>4. WriteIndexOK'
  BY <1>1, <1>3 DEF ResetInv, WriteIndexOK
<1>5. AttemptOK' /\ NoStrandedData'
  BY <1>1 DEF AttemptOK, NoStrandedData, Scheduling
<1>6. Counted(ep') /\ NoDeadWait'
      /\ (configured' => ep'.eBulkTxState \in {"IDLE", "WAIT_DATA"})
  BY <1>1 DEF ResetInv, NoDeadWait, busVars
<1> QED BY <1>4, <1>5, <1>6 DEF ResetInv

\* The bytes go in one by one or in a block; one correction is enough for either.
LEMMA StoringKeepsResetInv ==
    ASSUME ResetInv,
           \/ StoreByte \/ AddToIndex \/ CorrectForWrap
           \/ AdvanceWrite \/ AdvanceWriteWraps
    PROVE  ResetInv'
<1>1. UNCHANGED <<ep, txIntr, busVars>>
  BY DEF StoreByte, AddToIndex, CorrectForWrap, AdvanceWrite, AdvanceWriteWraps
<1>2. pc' \in {"avail", "store"} \cup Adding \cup Wrapping
  BY DEF StoreByte, AddToIndex, CorrectForWrap, AdvanceWrite, AdvanceWriteWraps
<1>3. WriteIndexOK'
  <2>1. CASE StoreByte
    <3>1. pc = "store" /\ pc' \in Adding /\ UNCHANGED <<ring, ulDelta, ulLength>>
      BY <2>1 DEF StoreByte, callVars
    <3>2. 1 \in 0 .. ulSize
      BY SizeAssumption
    <3> QED BY <3>1, <3>2 DEF ResetInv, WriteIndexOK
  <2>2. CASE AddToIndex \/ AdvanceWrite
    <3>1. /\ pc \in Adding /\ pc' \in Wrapping /\ UNCHANGED <<ulDelta, ulLength>>
          /\ ring' = [ring EXCEPT !.ulWriteIndex = @ + ulDelta]
      BY <2>2 DEF AddToIndex, AdvanceWrite, callVars
    <3>2. /\ ulDelta \in 0 .. ulSize /\ (ulDelta = 1 \/ ulDelta = ulLength)
          /\ ring.ulWriteIndex \in Index /\ ring.ulReadIndex \in Index
      BY <3>1 DEF ResetInv, WriteIndexOK
    <3>3. ring \in RingObject
      BY <3>1, RingWellFormed DEF ResetInv
    <3>4. ring' = [ulReadIndex |-> ring.ulReadIndex,
                   ulWriteIndex |-> ring.ulWriteIndex + ulDelta]
      BY <3>1, <3>3 DEF RingObject
    <3>5. Wrap(ring.ulWriteIndex + ulDelta) \in Index
      BY <3>2, UpdateIndexIsIndex DEF UpdateIndex
    <3> QED BY <3>1, <3>2, <3>4, <3>5 DEF WriteIndexOK
  <2>3. CASE CorrectForWrap \/ AdvanceWriteWraps
    <3>1. /\ pc \in Wrapping /\ UNCHANGED ulDelta /\ ulLength' = ulLength - ulDelta
          /\ pc' \in {"avail", "store"} /\ (pc' = "store" => ulLength' # 0)
          /\ ring' = [ring EXCEPT !.ulWriteIndex = Wrap(@)]
      BY <2>3 DEF CorrectForWrap, AdvanceWriteWraps
    <3>2. /\ ulDelta \in 0 .. ulSize /\ (ulDelta = 1 \/ ulDelta = ulLength)
          /\ Wrap(ring.ulWriteIndex) \in Index /\ ring.ulReadIndex \in Index
          /\ ring = [ulReadIndex |-> ring.ulReadIndex, ulWriteIndex |-> ring.ulWriteIndex]
      BY <3>1 DEF ResetInv, WriteIndexOK
    <3>3. ring' = [ulReadIndex |-> ring.ulReadIndex, ulWriteIndex |-> Wrap(ring.ulWriteIndex)]
      BY <3>1, <3>2
    <3>4. pc' = "store" => ulDelta = 1
      BY <3>1, <3>2, SizeAssumption
    <3> QED BY <3>1, <3>2, <3>3, <3>4 DEF WriteIndexOK
  <2> QED BY <2>1, <2>2, <2>3
<1>4. AttemptOK' /\ NoStrandedData'
  BY <1>2 DEF AttemptOK, NoStrandedData, Scheduling
<1>5. Counted(ep') /\ NoDeadWait'
      /\ (configured' => ep'.eBulkTxState \in {"IDLE", "WAIT_DATA"})
  BY <1>1 DEF ResetInv, NoDeadWait, busVars
<1> QED BY <1>3, <1>4, <1>5 DEF ResetInv

\* The client gives its attempt up only when the driver waits for a completion or
\* the ring is empty.
LEMMA AskingKeepsResetInv ==
    ASSUME ResetInv, AskPacketAvailable \/ AskContigUsed \/ AskUsed
    PROVE  ResetInv'
<1>1. UNCHANGED <<ring, ep, txIntr, busVars>>
  BY DEF AskPacketAvailable, AskContigUsed, AskUsed, bufVars
<1>2. /\ pc \in {"avail", "contig", "total"}
      /\ pc' \in {"idle", "contig", "total", "transfer1"}
  BY DEF AskPacketAvailable, AskContigUsed, AskUsed
<1>3. ring \in RingObject
  BY <1>2, RingWellFormed DEF ResetInv
<1>4. WriteIndexOK'
  BY <1>1, <1>2, <1>3, WellFormedIsOK
<1>5. Counted(ep') /\ NoDeadWait'
      /\ (configured' => ep'.eBulkTxState \in {"IDLE", "WAIT_DATA"})
  BY <1>1 DEF ResetInv, NoDeadWait, busVars
<1>6. AttemptOK' /\ NoStrandedData'
  <2>1. CASE AskPacketAvailable
    <3>1. /\ ulPacket' = IF ep.eBulkTxState = "IDLE" THEN MaxPacket ELSE 0
          /\ pc' = IF ulPacket' = 0 THEN "idle" ELSE "contig"
      BY <2>1 DEF AskPacketAvailable, USBDBulkTxPacketAvailable
    <3>2. MaxPacket # 0
      BY PacketIsShort
    <3>3. AttemptOK'
      BY <1>1, <3>1, <3>2 DEF AttemptOK, Scheduling
    <3>4. NoStrandedData'
      <4>1. configured /\ pc' = "idle" => ep.eBulkTxState = "WAIT_DATA"
        BY <3>1, <3>2 DEF ResetInv
      <4> QED BY <1>1, <4>1 DEF ResetInv, NoDeadWait, NoStrandedData, busVars
    <3> QED BY <3>3, <3>4
  <2>2. CASE AskContigUsed
    <3>1. /\ pc = "contig" /\ pc' = "total" /\ ulSpace' = USBRingBufContigUsed(ring)
          /\ UNCHANGED ulPacket
      BY <2>2 DEF AskContigUsed
    <3> QED
      BY <1>1, <3>1 DEF ResetInv, AttemptOK, NoStrandedData, Scheduling
  <2>3. CASE AskUsed
    <3>1. /\ pc = "total" /\ ulTotal' = USBRingBufUsed(ring)
          /\ pc' = IF ulSpace = 0 THEN "idle" ELSE "transfer1"
          /\ UNCHANGED <<ulPacket, ulSpace>>
      BY <2>3 DEF AskUsed
    <3>2. ulSpace = USBRingBufContigUsed(ring)
      BY <3>1 DEF ResetInv, AttemptOK
    <3>3. (ulSpace = 0) <=> ~(USBRingBufUsed(ring) > 0)
      BY <1>3, <3>2, UsedAndFree, TwoBlocks, SizeAssumption
    <3> QED
      BY <1>1, <3>1, <3>2, <3>3 DEF ResetInv, AttemptOK, NoStrandedData, Scheduling
  <2> QED BY <2>1, <2>2, <2>3
<1> QED BY <1>4, <1>5, <1>6 DEF ResetInv

\* What the client hands over at the two ends of the storage makes a packet: the
\* call ends with one in the FIFO.
LEMMA TransferKeepsResetInv ==
    ASSUME ResetInv, TransferFirst \/ TransferSecond
    PROVE  ResetInv'
<1> DEFINE split == IsSplit(ulSpace, ulPacket, ulTotal)
           first == Block(ring.ulReadIndex, FirstPart(ulSpace, ulPacket))
           second == Block(0, SecondPart(ulSpace, ulPacket, ulTotal))
<1>1. /\ pc \in {"transfer1", "transfer2"} /\ pc' \in {"idle", "transfer2"}
      /\ UNCHANGED <<ring, txIntr, busVars, schedVars>>
  BY DEF TransferFirst, TransferSecond, bufVars
<1>2. /\ Counted(ep) /\ ep.eBulkTxState = "IDLE" /\ ulPacket = MaxPacket
      /\ ulSpace = USBRingBufContigUsed(ring) /\ ulTotal = USBRingBufUsed(ring)
      /\ USBRingBufUsed(ring) > 0
      /\ pc = "transfer2" => split
  BY <1>1 DEF ResetInv, AttemptOK, Scheduling
<1>3. ring \in RingObject
  BY <1>1, RingWellFormed DEF ResetInv
<1>4. /\ ulSpace \in 1 .. ulTotal /\ ulTotal \in Nat
      /\ FirstPart(ulSpace, ulPacket) \in 1 .. MaxPacket
      /\ split => /\ SecondPart(ulSpace, ulPacket, ulTotal) \in 1 .. (ulTotal - ulSpace)
                  /\ ulSpace + SecondPart(ulSpace, ulPacket, ulTotal) <= MaxPacket
  <2>1. PICK s, t, p : s = ulSpace /\ t = ulTotal /\ p = ulPacket
    OBVIOUS
  <2>2. p = MaxPacket /\ s = USBRingBufContigUsed(ring) /\ t = USBRingBufUsed(ring)
    BY <1>2, <2>1
  <2>3. /\ s \in 1 .. t /\ t \in Nat
        /\ FirstPart(s, p) \in 1 .. MaxPacket
        /\ IsSplit(s, p, t) => /\ SecondPart(s, p, t) \in 1 .. (t - s)
                               /\ s + SecondPart(s, p, t) <= MaxPacket
    BY <1>2, <1>3, <2>2, PartSizes
  <2> QED BY <2>1, <2>3
<1>5. /\ Len(first) \in Nat /\ Len(first) <= MaxPacket
      /\ split => Len(second) \in Nat /\ Len(second) <= MaxPacket
  <2>1. FirstPart(ulSpace, ulPacket) \in Nat /\ FirstPart(ulSpace, ulPacket) <= MaxPacket
    BY <1>4, PacketIsShort
  <2>2. split => /\ SecondPart(ulSpace, ulPacket, ulTotal) \in Nat
                 /\ SecondPart(ulSpace, ulPacket, ulTotal) <= MaxPacket
    <3> DEFINE n == SecondPart(ulSpace, ulPacket, ulTotal)
    <3>1. split => n \in 1 .. (ulTotal - ulSpace) /\ ulSpace + n <= MaxPacket
      BY <1>4
    <3> HIDE DEF n, split
    <3>2. split => n \in Nat /\ n <= MaxPacket
      BY <1>4, <3>1, PacketIsShort
    <3> QED BY <3>2 DEF n
  <2> HIDE DEF split
  <2> QED BY <2>1, <2>2, BlockLength
<1>6. /\ Counted(ep') /\ ep'.eBulkTxState \in {"IDLE", "WAIT_DATA"}
      /\ pc' = "idle" => ep'.txrdy
      /\ pc' = "transfer2" => split /\ ep'.eBulkTxState = "IDLE"
  <2>1. CASE TransferFirst
    <3>1. /\ ep' = USBDBulkPacketWrite(ep, first, ~split)
          /\ pc' = IF split THEN "transfer2" ELSE "idle"
      BY <2>1 DEF TransferFirst
    <3>2. (~split) \in BOOLEAN
      BY DEF IsSplit
    <3> HIDE DEF split, first
    <3>3. /\ Counted(ep') /\ ep'.eBulkTxState \in {"IDLE", "WAIT_DATA"}
          /\ ~split => ep'.txrdy
          /\ split => ep'.eBulkTxState = "IDLE"
      BY <1>2, <1>5, <3>1, <3>2, PartCommits
    <3> QED BY <3>1, <3>3
  <2>2. CASE TransferSecond
    <3> DEFINE yes == TRUE
    <3>1. /\ pc = "transfer2" /\ pc' = "idle"
          /\ ep' = USBDBulkPacketWrite(ep, second, yes) /\ yes \in BOOLEAN
      BY <2>2 DEF TransferSecond
    <3> HIDE DEF split, second, yes
    <3>2. split
      BY <1>2, <3>1
    <3>3. Counted(ep') /\ ep'.eBulkTxState \in {"IDLE", "WAIT_DATA"} /\ (yes => ep'.txrdy)
      BY <1>2, <1>5, <3>1, <3>2, PartCommits
    <3> QED BY <3>1, <3>3 DEF yes
  <2> QED BY <2>1, <2>2
<1>7. WriteIndexOK'
  BY <1>1, <1>3, WellFormedIsOK
<1>8. AttemptOK'
  BY <1>1, <1>2, <1>6 DEF AttemptOK, Scheduling, schedVars
<1>9. NoStrandedData'
  BY <1>6 DEF NoStrandedData
<1>10. NoDeadWait'
  <2>1. WaitInv
    BY DEF ResetInv, WaitInv, Counted
  <2>2. [Next]_vars
    BY DEF Next, Client, ClientStep
  <2> QED BY <2>1, <2>2, NextKeepsWaitInv DEF WaitInv
<1> QED BY <1>6, <1>7, <1>8, <1>9, <1>10 DEF ResetInv

\* The completion starts the next packet when the ring has data.
LEMMA ProcessDataToHostKeepsResetInv ==
    ASSUME ResetInv, ProcessDataToHost, PreemptAt = {"idle"}
    PROVE  ResetInv'
<1> DEFINE ready == [ep EXCEPT !.eBulkTxState = "IDLE", !.usLastTxSize = 0]
<1>1. /\ pc = "idle" /\ UNCHANGED <<pc, configured>>
      /\ ring' = USBRingBufAdvanceRead(ring, ep.usLastTxSize)
      /\ ep' = ScheduleNextTransmission(ring', ready)
  BY DEF ProcessDataToHost, Interruptible, busVars
<1>2. ring' \in RingObject
  <2>1. ring \in RingObject
    BY <1>1, RingWellFormed DEF ResetInv
  <2>2. ep.usLastTxSize \in Nat
    BY DEF ResetInv, Counted
  <2> QED BY <1>1, <2>1, <2>2, AdvanceReadKeepsRing
<1>3. Counted(ready) /\ ready.eBulkTxState = "IDLE"
  <2>1. PICK s, n, b, t :
            ep = [eBulkTxState |-> s, usLastTxSize |-> n, fifo |-> b, txrdy |-> t]
            /\ t \in BOOLEAN
    BY DEF ResetInv, Counted, Shaped
  <2>2. ep \in [eBulkTxState : {s}, usLastTxSize : {n}, fifo : {b}, txrdy : {t}]
    BY <2>1
  <2>3. /\ ready \in [eBulkTxState : {"IDLE"}, usLastTxSize : {0}, fifo : {b}, txrdy : {t}]
    BY <2>2
  <2> HIDE DEF ready
  <2> QED BY <2>1, <2>3 DEF Counted, Shaped
<1> HIDE DEF ready
<1>4. /\ Counted(ep') /\ ep'.eBulkTxState \in {"IDLE", "WAIT_DATA"}
      /\ USBRingBufUsed(ring') > 0 => ep'.txrdy
  <2>1. PICK r, f : r = ring' /\ f = ep'
    OBVIOUS
  <2>2. f = ScheduleNextTransmission(r, ready) /\ r \in RingObject
    BY <1>1, <1>2, <2>1
  <2>3. /\ Counted(f) /\ f.eBulkTxState \in {"IDLE", "WAIT_DATA"}
        /\ USBRingBufUsed(r) > 0 => f.txrdy
    BY <1>3, <2>2, ScheduleCommits
  <2> QED BY <2>1, <2>3
<1>5. WriteIndexOK' /\ AttemptOK' /\ NoStrandedData'
  BY <1>1, <1>2, <1>4, WellFormedIsOK DEF AttemptOK, Scheduling, NoStrandedData
<1>6. NoDeadWait'
  <2>1. WaitInv
    BY DEF ResetInv, WaitInv, Counted
  <2>2. [Next]_vars
    BY DEF Next
  <2> QED BY <2>1, <2>2, NextKeepsWaitInv DEF WaitInv
<1> QED BY <1>4, <1>5, <1>6 DEF ResetInv

\* A reset leaves a device that is not configured, and a configuration an empty ring;
\* a packet the host takes becomes a completion.
LEMMA BusKeepsResetInv ==
    ASSUME ResetInv, HandleConfigChange \/ BusReset \/ HostTakesPacket,
           PreemptAt = {"idle"}
    PROVE  ResetInv'
<1>1. NoDeadWait'
  <2>1. WaitInv
    BY DEF ResetInv, WaitInv, Counted
  <2>2. [Next]_vars
    BY DEF Next
  <2> QED BY <2>1, <2>2, NextKeepsWaitInv DEF WaitInv
<1>2. CASE HandleConfigChange
  <2>1. /\ pc = "idle" /\ UNCHANGED pc
        /\ ep' = [ep EXCEPT !.eBulkTxState = "IDLE"]
        /\ ring' = [ring EXCEPT !.ulReadIndex = ring.ulWriteIndex]
    BY <1>2 DEF HandleConfigChange, Interruptible, USBRingBufFlush
  <2>2. ring \in RingObject
    BY <2>1, RingWellFormed DEF ResetInv
  <2>3. ring' \in RingObject /\ ring'.ulReadIndex = ring'.ulWriteIndex
    BY <2>1, <2>2 DEF RingObject
  <2>4. ~(USBRingBufUsed(ring') > 0)
    <3>1. ring'.ulWriteIndex \in Int
      BY <2>3 DEF RingObject, Index
    <3> QED BY <2>3, <3>1 DEF USBRingBufUsed
  <2>5. Counted(ep') /\ ep'.eBulkTxState = "IDLE"
    BY <2>1 DEF ResetInv, Counted, Shaped
  <2>6. WriteIndexOK' /\ AttemptOK' /\ NoStrandedData'
    BY <2>1, <2>3, <2>4, WellFormedIsOK DEF AttemptOK, Scheduling, NoStrandedData
  <2> QED BY <1>1, <2>5, <2>6 DEF ResetInv
<1>3. CASE BusReset \/ HostTakesPacket
  <2>1. /\ UNCHANGED <<ring, pc, callVars, schedVars>>
        /\ ep' = [ep EXCEPT !.fifo = << >>, !.txrdy = FALSE]
        /\ ~configured' \/ (UNCHANGED configured /\ txIntr')
    BY <1>3 DEF BusReset, HostTakesPacket, bufVars, busVars
  <2>2. Counted(ep') /\ ep'.eBulkTxState = ep.eBulkTxState
    BY <2>1 DEF ResetInv, Counted, Shaped
  <2>3. WriteIndexOK'
    BY <2>1 DEF ResetInv, WriteIndexOK, callVars
  <2>4. AttemptOK'
    BY <2>1, <2>2 DEF ResetInv, AttemptOK, Scheduling, schedVars
  <2>5. NoStrandedData' /\ (configured' => ep'.eBulkTxState \in {"IDLE", "WAIT_DATA"})
    BY <2>1, <2>2 DEF ResetInv, NoStrandedData
  <2> QED BY <1>1, <2>2, <2>3, <2>4, <2>5 DEF ResetInv
<1> QED BY <1>2, <1>3

\* One lemma for each kind of step.
LEMMA NextKeepsResetInv ==
    ASSUME ResetInv, [Next]_vars, PreemptAt = {"idle"}
    PROVE  ResetInv'
<1>1. CASE UNCHANGED vars
  BY <1>1
     DEF vars, bufVars, busVars, callVars, schedVars, ghostVars, ResetInv, WriteIndexOK,
         AttemptOK, Scheduling, NoDeadWait, NoStrandedData
<1>2. CASE Client
  BY <1>2, WriteKeepsResetInv, StoringKeepsResetInv, AskingKeepsResetInv,
     TransferKeepsResetInv
     DEF Client, ClientStep
<1> QED
  BY <1>1, <1>2, ProcessDataToHostKeepsResetInv, BusKeepsResetInv DEF Next

\* A client in interrupt context, as in the examples, leaves no byte in the ring that
\* nothing will send, however often the device is reset and configured.
THEOREM NothingStrandedByResets ==
    ASSUME PreemptAt = {"idle"}
    PROVE  Spec => []NoStrandedData
<1>1. Init => ResetInv
  <2> SUFFICES ASSUME Init PROVE ResetInv
    OBVIOUS
  <2>1. Counted(ep) /\ NoDeadWait /\ NoStrandedData /\ ~configured
    BY DEF Init, Counted, Shaped, NoDeadWait, NoStrandedData
  <2>2. WriteIndexOK
    BY SizeAssumption DEF Init, WriteIndexOK, USBRingBufInit, Index
  <2>3. AttemptOK
    BY DEF Init, AttemptOK, Scheduling
  <2> QED BY <2>1, <2>2, <2>3 DEF ResetInv
<1>2. ResetInv /\ [Next]_vars => ResetInv'
  BY NextKeepsResetInv
<1>3. ResetInv => NoStrandedData
  BY DEF ResetInv
<1> QED BY <1>1, <1>2, <1>3, PTL DEF Spec
=============================================================================
