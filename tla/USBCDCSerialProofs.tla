-------------------------- MODULE USBCDCSerialProofs --------------------------
(***************************************************************************)
(* Proofs about control requests against received data in the CDC driver,  *)
(* for every receive buffer, packet size, set of break durations and       *)
(* number of bytes and requests: the variables keep their types, data that *)
(* follows a line change does not overtake it, and a packet that waits is  *)
(* flagged for the tick.                                                   *)
(***************************************************************************)
EXTENDS USBCDCSerial, SequenceTheorems, TLAPS

-----------------------------------------------------------------------------
(* Sequences whose elements lie on one side of a bound.                    *)

Below(s, b) == \A i \in 1 .. Len(s) : s[i] < b
Above(s, b) == \A i \in 1 .. Len(s) : s[i] > b

\* A part of a sequence is a sequence of some of its elements.
LEMMA PartOfSeq ==
    ASSUME NEW S, NEW s \in Seq(S), NEW m \in 1 .. Len(s) + 1, NEW n \in 0 .. Len(s)
    PROVE  /\ SubSeq(s, m, n) \in Seq(S)
           /\ Len(SubSeq(s, m, n)) = IF m <= n THEN n - m + 1 ELSE 0
           /\ \A i \in 1 .. Len(SubSeq(s, m, n)) : SubSeq(s, m, n)[i] = s[m + i - 1]
<1>1. Len(s) \in Nat /\ \A i \in 1 .. Len(s) : s[i] \in S
  BY LenProperties, ElementOfSeq
<1>2. \A i \in m .. n : s[i] \in S
  BY <1>1
<1>3. m \in Int /\ n \in Int
  BY <1>1
<1>4. QED
  BY <1>1, <1>2, <1>3, SubSeqProperties

\* ... and on the same side of a bound.
LEMMA PartStaysBelow ==
    ASSUME NEW S, NEW s \in Seq(S), NEW m \in 1 .. Len(s) + 1, NEW n \in 0 .. Len(s),
           NEW b
    PROVE  /\ Below(s, b) => Below(SubSeq(s, m, n), b)
           /\ Above(s, b) => Above(SubSeq(s, m, n), b)
<1>1. Len(s) \in Nat
  BY LenProperties
<1>2. \A i \in 1 .. Len(SubSeq(s, m, n)) :
          /\ SubSeq(s, m, n)[i] = s[m + i - 1]
          /\ m + i - 1 \in 1 .. Len(s)
  <2>1. TAKE i \in 1 .. Len(SubSeq(s, m, n))
  <2>2. SubSeq(s, m, n)[i] = s[m + i - 1]
    BY PartOfSeq
  <2>3. Len(SubSeq(s, m, n)) = IF m <= n THEN n - m + 1 ELSE 0
    BY PartOfSeq
  <2>4. QED
    BY <1>1, <2>2, <2>3
<1>3. QED
  BY <1>2 DEF Below, Above

\* Two sequences below a bound, one after the other, stay below it.
LEMMA JoinStaysBelow ==
    ASSUME NEW S, NEW s \in Seq(S), NEW t \in Seq(S), NEW b, Below(s, b), Below(t, b)
    PROVE  Below(s \o t, b)
<1>1. Len(s) \in Nat /\ Len(t) \in Nat
  BY LenProperties
<1>2. /\ Len(s \o t) = Len(s) + Len(t)
      /\ \A i \in 1 .. Len(s) + Len(t) :
             (s \o t)[i] = IF i <= Len(s) THEN s[i] ELSE t[i - Len(s)]
  BY ConcatProperties
<1>3. SUFFICES ASSUME NEW i \in 1 .. Len(s) + Len(t) PROVE (s \o t)[i] < b
  BY <1>2 DEF Below
<1>4. CASE i <= Len(s)
  BY <1>1, <1>2, <1>4 DEF Below
<1>5. CASE ~(i <= Len(s))
  <2>1. i - Len(s) \in 1 .. Len(t)
    BY <1>1, <1>5
  <2>2. QED
    BY <1>2, <1>5, <2>1 DEF Below
<1>6. QED
  BY <1>4, <1>5

-----------------------------------------------------------------------------
(* The helpers: what they keep and what they change of what a handler      *)
(* collects.                                                               *)

Collected == [cdc : Instance, breaking : BOOLEAN, done : [Kinds -> 0 .. MaxSent]]

LineKinds == {"lineState", "lineCoding"}

\* The flags of d and e differ in the given ones only, and the packet's is not one.
SameBut(d, e, fs) ==
    \A f \in Flags \ fs : f \in d.cdc.usDeferredOpFlags <=> f \in e.cdc.usDeferredOpFlags

\* Each kind of change has a flag of its own.
LEMMA FlagsOfKinds ==
    /\ \A k \in Kinds : DeferFlag[k] \in RX_BLOCK_OPS /\ DeferFlag[k] \in Flags
    /\ DeferFlag["break"] = "SEND_BREAK"
    /\ DeferFlag["lineState"] = "LINE_STATE_CHANGE"
    /\ DeferFlag["lineCoding"] = "LINE_CODING_CHANGE"
    /\ RX_BLOCK_OPS = {"SEND_BREAK", "LINE_STATE_CHANGE", "LINE_CODING_CHANGE"}
    /\ Flags = {"SEND_BREAK", "LINE_STATE_CHANGE", "LINE_CODING_CHANGE",
                "CLEAR_BREAK", "PACKET_RX"}
    /\ LineKinds \subseteq Kinds
<1>1. RX_BLOCK_OPS = {"SEND_BREAK", "LINE_STATE_CHANGE", "LINE_CODING_CHANGE"}
  BY DEF RX_BLOCK_OPS, DeferFlag, Kinds
<1>2. QED
  BY <1>1 DEF DeferFlag, Kinds, LineKinds, Flags

\* SetDeferredOpFlag changes one flag and nothing else.
LEMMA SetFlagFacts ==
    ASSUME NEW d \in Collected, NEW f \in Flags
    PROVE  LET e == SetFlag(d, f)
           IN  /\ e \in Collected
               /\ e.cdc.usDeferredOpFlags = d.cdc.usDeferredOpFlags \cup {f}
               /\ e.cdc.bRxBlocked = d.cdc.bRxBlocked
               /\ e.breaking = d.breaking /\ e.done = d.done
<1>1. [d.cdc EXCEPT !.usDeferredOpFlags = @ \cup {f}] \in Instance
  BY DEF Instance, Collected
<1>2. SetFlag(d, f) = [d EXCEPT !.cdc = [d.cdc EXCEPT !.usDeferredOpFlags = @ \cup {f}]]
  BY DEF SetFlag, Collected, Instance
<1>3. QED
  BY <1>1, <1>2 DEF Collected, Instance

\* ... and so does clearing one.
LEMMA ClearFlagFacts ==
    ASSUME NEW d \in Collected, NEW f \in Flags
    PROVE  LET e == ClearFlag(d, f)
           IN  /\ e \in Collected
               /\ e.cdc.usDeferredOpFlags = d.cdc.usDeferredOpFlags \ {f}
               /\ e.cdc.bRxBlocked = d.cdc.bRxBlocked
               /\ e.breaking = d.breaking /\ e.done = d.done
<1>1. [d.cdc EXCEPT !.usDeferredOpFlags = @ \ {f}] \in Instance
  BY DEF Instance, Collected
<1>2. ClearFlag(d, f) = [d EXCEPT !.cdc = [d.cdc EXCEPT !.usDeferredOpFlags = @ \ {f}]]
  BY DEF ClearFlag, Collected, Instance
<1>3. QED
  BY <1>1, <1>2 DEF Collected, Instance

\* SendBreak clears both flags of a break, and sets the one that will end it.
LEMMA SendBreakFacts ==
    ASSUME NEW d \in Collected, NEW bSend \in BOOLEAN
    PROVE  LET e == SendBreak(d, bSend)
           IN  /\ e \in Collected
               /\ SameBut(d, e, {"SEND_BREAK", "CLEAR_BREAK"})
               /\ "SEND_BREAK" \notin e.cdc.usDeferredOpFlags
               /\ e.cdc.bRxBlocked = d.cdc.bRxBlocked
               /\ e.done = d.done
<1>1. PICK a : a = ClearFlag(d, "SEND_BREAK")
  OBVIOUS
<1>2. /\ a \in Collected
      /\ a.cdc.usDeferredOpFlags = d.cdc.usDeferredOpFlags \ {"SEND_BREAK"}
      /\ a.cdc.bRxBlocked = d.cdc.bRxBlocked /\ a.done = d.done
  BY <1>1, ClearFlagFacts, FlagsOfKinds
<1>3. PICK c : c = ClearFlag(a, "CLEAR_BREAK")
  OBVIOUS
<1>4. /\ c \in Collected
      /\ c.cdc.usDeferredOpFlags = a.cdc.usDeferredOpFlags \ {"CLEAR_BREAK"}
      /\ c.cdc.bRxBlocked = d.cdc.bRxBlocked /\ c.done = d.done
  BY <1>2, <1>3, ClearFlagFacts, FlagsOfKinds
<1>5. PICK g : g = IF bSend THEN SetFlag(c, "CLEAR_BREAK") ELSE c
  OBVIOUS
<1>6. /\ g \in Collected
      /\ g.cdc.usDeferredOpFlags \in {c.cdc.usDeferredOpFlags,
                                      c.cdc.usDeferredOpFlags \cup {"CLEAR_BREAK"}}
      /\ g.cdc.bRxBlocked = d.cdc.bRxBlocked /\ g.done = d.done
  <2>1. CASE bSend
    BY <1>4, <1>5, <2>1, SetFlagFacts, FlagsOfKinds
  <2>2. CASE ~bSend
    BY <1>4, <1>5, <2>2
  <2>3. QED
    BY <2>1, <2>2
<1>7. SendBreak(d, bSend) = [g EXCEPT !.breaking = bSend]
  BY <1>1, <1>3, <1>5 DEF SendBreak
<1>8. /\ SendBreak(d, bSend) \in Collected
      /\ SendBreak(d, bSend).cdc = g.cdc /\ SendBreak(d, bSend).done = g.done
  BY <1>6, <1>7 DEF Collected
<1>9. QED
  BY <1>2, <1>4, <1>6, <1>8 DEF SameBut

\* A line change that is passed on is the last one asked for.
LEMMA SendChangeFacts ==
    ASSUME NEW d \in Collected, NEW k \in LineKinds, want \in [Kinds -> 0 .. MaxSent]
    PROVE  LET e == SendChange(d, k)
           IN  /\ e \in Collected
               /\ e.cdc.usDeferredOpFlags = d.cdc.usDeferredOpFlags \ {DeferFlag[k]}
               /\ e.cdc.bRxBlocked = d.cdc.bRxBlocked
               /\ e.done = [d.done EXCEPT ![k] = want[k]]
<1>1. PICK c : c = ClearFlag(d, DeferFlag[k])
  OBVIOUS
<1>2. /\ c \in Collected
      /\ c.cdc.usDeferredOpFlags = d.cdc.usDeferredOpFlags \ {DeferFlag[k]}
      /\ c.cdc.bRxBlocked = d.cdc.bRxBlocked /\ c.done = d.done
  BY <1>1, ClearFlagFacts, FlagsOfKinds
<1>3. [c.done EXCEPT ![k] = want[k]] \in [Kinds -> 0 .. MaxSent]
  BY <1>2, FlagsOfKinds DEF Collected
<1>4. SendChange(d, k) = [c EXCEPT !.done = [c.done EXCEPT ![k] = want[k]]]
  BY <1>1, <1>2 DEF SendChange, Collected
<1>5. QED
  BY <1>2, <1>3, <1>4 DEF Collected

\* The client is told of the break it was asked for, and of no line change.
LEMMA SendBreakRequestFacts ==
    ASSUME NEW d \in Collected, want \in [Kinds -> 0 .. MaxSent]
    PROVE  LET e == SendBreakRequest(d, TRUE)
           IN  /\ e \in Collected
               /\ SameBut(d, e, {"SEND_BREAK", "CLEAR_BREAK"})
               /\ "SEND_BREAK" \notin e.cdc.usDeferredOpFlags
               /\ e.cdc.bRxBlocked = d.cdc.bRxBlocked
               /\ \A k \in LineKinds : e.done[k] = d.done[k]
<1>1. PICK b : b = SendBreak(d, TRUE)
  OBVIOUS
<1>2. /\ b \in Collected
      /\ SameBut(d, b, {"SEND_BREAK", "CLEAR_BREAK"})
      /\ "SEND_BREAK" \notin b.cdc.usDeferredOpFlags
      /\ b.cdc.bRxBlocked = d.cdc.bRxBlocked /\ b.done = d.done
  BY <1>1, SendBreakFacts
<1>3. [b.done EXCEPT !["break"] = want["break"]] \in [Kinds -> 0 .. MaxSent]
  BY <1>2 DEF Collected, Kinds
<1>4. SendBreakRequest(d, TRUE) = [b EXCEPT !.done = [b.done EXCEPT !["break"] = want["break"]]]
  BY <1>1, <1>2 DEF SendBreakRequest, Collected
<1>5. PICK done1 : done1 = [b.done EXCEPT !["break"] = want["break"]]
  OBVIOUS
<1>6. done1 \in [Kinds -> 0 .. MaxSent] /\ \A k \in LineKinds : done1[k] = d.done[k]
  BY <1>2, <1>3, <1>5 DEF Collected, LineKinds, Kinds
<1>7. SendBreakRequest(d, TRUE) = [b EXCEPT !.done = done1]
  BY <1>4, <1>5
<1>8. PICK e : e = SendBreakRequest(d, TRUE)
  OBVIOUS
<1>9. e \in Collected /\ e.cdc = b.cdc /\ e.done = done1
  BY <1>2, <1>6, <1>7, <1>8 DEF Collected
<1>10. SameBut(d, e, {"SEND_BREAK", "CLEAR_BREAK"})
  BY <1>2, <1>9, Zenon DEF SameBut
<1>11. /\ "SEND_BREAK" \notin e.cdc.usDeferredOpFlags
       /\ e.cdc.bRxBlocked = d.cdc.bRxBlocked
       /\ \A k \in LineKinds : e.done[k] = d.done[k]
  BY <1>2, <1>6, <1>9
<1>12. QED
  BY <1>8, <1>9, <1>10, <1>11

\* A duration of zero stops a break.
LEMMA ZeroIsWord == 0 \in Word16
<1>1. WordMax \in Nat
  BY DEF WordMax
<1>2. QED
  BY <1>1 DEF Word16

\* A break that is not over lasts one tick less.
LEMMA CountDown ==
    ASSUME NEW n \in Word16, ~(n <= 1)
    PROVE  n - 1 \in Word16
<1>1. WordMax \in Int
  BY DEF WordMax
<1>2. QED
  BY <1>1 DEF Word16

\* The first half of the tick touches only what belongs to the break.
LEMMA TickBreakFacts ==
    ASSUME NEW d \in Collected
    PROVE  LET e == TickBreak(d)
           IN  /\ e \in Collected
               /\ SameBut(d, e, {"SEND_BREAK", "CLEAR_BREAK"})
               /\ e.cdc.bRxBlocked = d.cdc.bRxBlocked
               /\ e.done = d.done
<1>1. CASE ~IsSet(d, "CLEAR_BREAK")
  BY <1>1 DEF TickBreak, SameBut
<1>2. CASE IsSet(d, "CLEAR_BREAK") /\ d.cdc.usBreakDuration <= 1
  <2>1. TickBreak(d) = SendBreak(d, FALSE)
    BY <1>2 DEF TickBreak
  <2>2. QED
    BY <2>1, SendBreakFacts
<1>3. CASE IsSet(d, "CLEAR_BREAK") /\ ~(d.cdc.usBreakDuration <= 1)
  <2>1. d.cdc \in Instance /\ d.cdc.usBreakDuration \in Word16
    BY DEF Collected, Instance
  <2>2. PICK n : n = d.cdc.usBreakDuration - 1
    OBVIOUS
  <2>3. n \in Word16
    BY <1>3, <2>1, <2>2, CountDown
  <2>4. TickBreak(d) = [d EXCEPT !.cdc = [d.cdc EXCEPT !.usBreakDuration = n]]
    BY <1>3, <2>2 DEF TickBreak, Collected, Instance
  <2>5. [d.cdc EXCEPT !.usBreakDuration = n] \in Instance
    BY <2>1, <2>3 DEF Instance
  <2>6. QED
    BY <2>1, <2>4, <2>5 DEF Collected, Instance, SameBut
<1>4. QED
  BY <1>1, <1>2, <1>3

\* A deferred line change is passed on; one that is not deferred is left alone.
LEMMA DeferredChangeFacts ==
    ASSUME NEW d \in Collected, NEW k \in LineKinds, want \in [Kinds -> 0 .. MaxSent],
           NEW e, e = IF IsSet(d, DeferFlag[k]) THEN SendChange(d, k) ELSE d
    PROVE  /\ e \in Collected
           /\ e.cdc.usDeferredOpFlags = d.cdc.usDeferredOpFlags \ {DeferFlag[k]}
           /\ e.cdc.bRxBlocked = d.cdc.bRxBlocked
           /\ e.done[k] = IF DeferFlag[k] \in d.cdc.usDeferredOpFlags THEN want[k] ELSE d.done[k]
           /\ \A j \in Kinds \ {k} : e.done[j] = d.done[j]
<1>1. d.done \in [Kinds -> 0 .. MaxSent] /\ k \in Kinds
  BY FlagsOfKinds DEF Collected
<1>2. CASE IsSet(d, DeferFlag[k])
  <2>1. /\ e \in Collected
        /\ e.cdc.usDeferredOpFlags = d.cdc.usDeferredOpFlags \ {DeferFlag[k]}
        /\ e.cdc.bRxBlocked = d.cdc.bRxBlocked
        /\ e.done = [d.done EXCEPT ![k] = want[k]]
    BY <1>2, SendChangeFacts
  <2>2. QED
    BY <1>1, <1>2, <2>1 DEF IsSet
<1>3. CASE ~IsSet(d, DeferFlag[k])
  BY <1>3 DEF IsSet
<1>4. QED
  BY <1>2, <1>3

\* The second half of the tick passes on every change that was deferred, and lets
\* reception go on.
LEMMA TickDeferredFacts ==
    ASSUME NEW d \in Collected, want \in [Kinds -> 0 .. MaxSent]
    PROVE  LET e == TickDeferred(d)
           IN  /\ e \in Collected
               /\ "PACKET_RX" \in e.cdc.usDeferredOpFlags
                      <=> "PACKET_RX" \in d.cdc.usDeferredOpFlags
               /\ ~e.cdc.bRxBlocked
               /\ \A k \in LineKinds :
                      e.done[k] = IF DeferFlag[k] \in d.cdc.usDeferredOpFlags
                                  THEN want[k] ELSE d.done[k]
<1>1. PICK d1 : d1 = IF IsSet(d, "SEND_BREAK") THEN SendBreakRequest(d, TRUE) ELSE d
  OBVIOUS
<1>2. /\ d1 \in Collected
      /\ SameBut(d, d1, {"SEND_BREAK", "CLEAR_BREAK"})
      /\ "SEND_BREAK" \notin d1.cdc.usDeferredOpFlags
      /\ d1.cdc.bRxBlocked = d.cdc.bRxBlocked
      /\ \A k \in LineKinds : d1.done[k] = d.done[k]
  <2>1. CASE IsSet(d, "SEND_BREAK")
    BY <1>1, <2>1, SendBreakRequestFacts
  <2>2. CASE ~IsSet(d, "SEND_BREAK")
    BY <1>1, <2>2 DEF IsSet, SameBut
  <2>3. QED
    BY <2>1, <2>2
<1>3. PICK d2 : d2 = IF IsSet(d1, "LINE_STATE_CHANGE") THEN SendChange(d1, "lineState") ELSE d1
  OBVIOUS
<1>4. PICK d3 : d3 = IF IsSet(d2, "LINE_CODING_CHANGE") THEN SendChange(d2, "lineCoding") ELSE d2
  OBVIOUS
<1>5. /\ d2 \in Collected
      /\ d2.cdc.usDeferredOpFlags = d1.cdc.usDeferredOpFlags \ {"LINE_STATE_CHANGE"}
      /\ d2.done["lineState"] = IF "LINE_STATE_CHANGE" \in d1.cdc.usDeferredOpFlags
                                THEN want["lineState"] ELSE d1.done["lineState"]
      /\ d2.done["lineCoding"] = d1.done["lineCoding"]
  BY <1>2, <1>3, DeferredChangeFacts, FlagsOfKinds DEF LineKinds, Kinds
<1>6. /\ d3 \in Collected
      /\ d3.cdc.usDeferredOpFlags = d2.cdc.usDeferredOpFlags \ {"LINE_CODING_CHANGE"}
      /\ d3.done["lineCoding"] = IF "LINE_CODING_CHANGE" \in d2.cdc.usDeferredOpFlags
                                 THEN want["lineCoding"] ELSE d2.done["lineCoding"]
      /\ d3.done["lineState"] = d2.done["lineState"]
  BY <1>4, <1>5, DeferredChangeFacts, FlagsOfKinds DEF LineKinds, Kinds
<1>7. /\ "PACKET_RX" \in d3.cdc.usDeferredOpFlags <=> "PACKET_RX" \in d.cdc.usDeferredOpFlags
      /\ d3.cdc.usDeferredOpFlags \cap RX_BLOCK_OPS = {}
  BY <1>2, <1>5, <1>6, FlagsOfKinds DEF SameBut
<1>8. \A k \in LineKinds :
          d3.done[k] = IF DeferFlag[k] \in d.cdc.usDeferredOpFlags THEN want[k] ELSE d.done[k]
  <2>1. /\ "LINE_STATE_CHANGE" \in d1.cdc.usDeferredOpFlags
               <=> "LINE_STATE_CHANGE" \in d.cdc.usDeferredOpFlags
        /\ "LINE_CODING_CHANGE" \in d2.cdc.usDeferredOpFlags
               <=> "LINE_CODING_CHANGE" \in d.cdc.usDeferredOpFlags
    BY <1>2, <1>5, FlagsOfKinds DEF SameBut
  <2>2. /\ d3.done["lineState"] = IF "LINE_STATE_CHANGE" \in d.cdc.usDeferredOpFlags
                                  THEN want["lineState"] ELSE d.done["lineState"]
        /\ d3.done["lineCoding"] = IF "LINE_CODING_CHANGE" \in d.cdc.usDeferredOpFlags
                                   THEN want["lineCoding"] ELSE d.done["lineCoding"]
    BY <1>2, <1>5, <1>6, <2>1 DEF LineKinds
  <2>3. QED
    BY <2>2, FlagsOfKinds DEF LineKinds
<1>9. TickDeferred(d) = [d3 EXCEPT !.cdc = [d3.cdc EXCEPT !.bRxBlocked = FALSE]]
  BY <1>1, <1>3, <1>4, <1>6, <1>7 DEF TickDeferred, Collected, Instance
<1>10. [d3.cdc EXCEPT !.bRxBlocked = FALSE] \in Instance
  BY <1>6 DEF Collected, Instance
<1>11. PICK e : e = TickDeferred(d)
  OBVIOUS
<1>12. /\ e \in Collected /\ ~e.cdc.bRxBlocked /\ e.done = d3.done
       /\ e.cdc.usDeferredOpFlags = d3.cdc.usDeferredOpFlags
  BY <1>6, <1>9, <1>10, <1>11 DEF Collected, Instance
<1>13. QED
  BY <1>7, <1>8, <1>11, <1>12

Bytes == 1 .. MaxSent
ClientType == [breaking : BOOLEAN, last : 0 .. MaxSent]

\* What the client takes comes from the receive buffer, and the rest stays there.
LEMMA ApplyFacts ==
    ASSUME NEW d \in Collected, NEW q \in Seq(Bytes), NEW n \in 0 .. Len(q),
           client \in ClientType, Apply(d, q, n)
    PROVE  /\ cdc' = d.cdc /\ done' = d.done
           /\ rx' \in Seq(Bytes) /\ Len(rx') = Len(q) - n
           /\ client' \in ClientType
           /\ \A b : Below(q, b) /\ client.last < b => Below(rx', b) /\ client'.last < b
<1>1. Len(q) \in Nat /\ \A i \in 1 .. Len(q) : q[i] \in Bytes
  BY LenProperties, ElementOfSeq
<1>2. n + 1 \in 1 .. Len(q) + 1 /\ Len(q) \in 0 .. Len(q)
  BY <1>1
<1>3. rx' = SubSeq(q, n + 1, Len(q))
  BY DEF Apply
<1>4. rx' \in Seq(Bytes) /\ Len(rx') = IF n + 1 <= Len(q) THEN Len(q) - (n + 1) + 1 ELSE 0
  BY <1>2, <1>3, PartOfSeq
<1>5. Len(rx') = Len(q) - n
  BY <1>1, <1>4
<1>6. PICK last : last = IF n = 0 THEN client.last ELSE q[n]
  OBVIOUS
<1>7. client' = [breaking |-> d.breaking, last |-> last]
  BY <1>6 DEF Apply
<1>8. last \in 0 .. MaxSent
  <2>1. CASE n = 0
    BY <1>6, <2>1 DEF ClientType
  <2>2. CASE n # 0
    <3>1. q[n] \in Bytes
      BY <1>1, <2>2
    <3>2. QED
      BY <1>6, <2>2, <3>1 DEF Bytes
  <2>3. QED
    BY <2>1, <2>2
<1>9. ASSUME NEW b, Below(q, b), client.last < b PROVE Below(rx', b) /\ client'.last < b
  <2>1. Below(rx', b)
    BY <1>2, <1>3, <1>9, PartStaysBelow
  <2>2. n # 0 => q[n] < b
    BY <1>1, <1>9 DEF Below
  <2>3. last < b
    BY <1>6, <1>9, <2>2
  <2>4. QED
    BY <1>7, <2>1, <2>3
<1>10. QED
  BY <1>4, <1>5, <1>7, <1>8, <1>9 DEF ClientType, Collected, Apply

\* Reading a packet: what fits goes into the receive buffer, and a packet that was
\* read whole, and only such a one, loses its flag.
LEMMA SignalFacts ==
    ASSUME TypeOK, NEW d \in Collected, SignalRxAvailable(d)
    PROVE  /\ cdc' \in Instance /\ done' = d.done
           /\ cdc'.bRxBlocked = d.cdc.bRxBlocked
           /\ cdc'.usDeferredOpFlags = d.cdc.usDeferredOpFlags
                \/ /\ ~rxrdy'
                   /\ cdc'.usDeferredOpFlags = d.cdc.usDeferredOpFlags \ {"PACKET_RX"}
           /\ rxrdy' \in BOOLEAN /\ (rxrdy' => rxrdy)
           /\ rxrdy => (rxrdy' <=> fifo' # << >>)
           /\ rxrdy /\ "PACKET_RX" \in cdc'.usDeferredOpFlags => rxrdy'
           /\ rx' \in Seq(Bytes) /\ Len(rx') <= RxCapacity
           /\ fifo' \in Seq(Bytes) /\ Len(fifo') <= MaxPacket
           /\ client' \in ClientType
           /\ \A b : Below(fifo, b) /\ Below(rx, b) /\ client.last < b
                     => Below(fifo', b) /\ Below(rx', b) /\ client'.last < b
<1>1. /\ rx \in Seq(Bytes) /\ fifo \in Seq(Bytes) /\ Len(rx) \in Nat /\ Len(fifo) \in Nat
      /\ Len(rx) <= RxCapacity /\ Len(fifo) <= MaxPacket
      /\ RxCapacity \in Nat /\ MaxPacket \in Nat
      /\ rxrdy \in BOOLEAN /\ client \in ClientType
  BY LenProperties, CapacityAssumption DEF TypeOK, Bytes, ClientType
<1>2. PICK n : n = IF RxCapacity - Len(rx) < Len(fifo) THEN RxCapacity - Len(rx) ELSE Len(fifo)
  OBVIOUS
<1>3. /\ n \in 0 .. Len(fifo) /\ n + Len(rx) <= RxCapacity
      /\ n + 1 \in 1 .. Len(fifo) + 1 /\ Len(fifo) \in 0 .. Len(fifo)
      /\ 1 \in 1 .. Len(fifo) + 1
  BY <1>1, <1>2
<1>4. PICK p : p = SubSeq(fifo, 1, n)
  OBVIOUS
<1>5. /\ p \in Seq(Bytes) /\ Len(p) = n
      /\ \A b : Below(fifo, b) => Below(p, b)
  <2>1. Len(p) = IF 1 <= n THEN n - 1 + 1 ELSE 0
    BY <1>1, <1>3, <1>4, PartOfSeq
  <2>2. Len(p) = n
    BY <1>3, <2>1
  <2>3. p \in Seq(Bytes)
    BY <1>1, <1>3, <1>4, PartOfSeq
  <2>4. \A b : Below(fifo, b) => Below(p, b)
    BY <1>1, <1>3, <1>4, PartStaysBelow
  <2>5. QED
    BY <2>2, <2>3, <2>4
<1>6. PICK q : q = rx \o p
  OBVIOUS
<1>7. /\ q \in Seq(Bytes) /\ Len(q) <= RxCapacity /\ Len(q) \in Nat
      /\ \A b : Below(rx, b) /\ Below(p, b) => Below(q, b)
  <2>1. q \in Seq(Bytes) /\ Len(q) = Len(rx) + Len(p)
    BY <1>1, <1>5, <1>6, ConcatProperties
  <2>2. Len(q) <= RxCapacity /\ Len(q) \in Nat
    BY <1>1, <1>3, <1>5, <2>1
  <2>3. \A b : Below(rx, b) /\ Below(p, b) => Below(q, b)
    BY <1>1, <1>5, <1>6, JoinStaysBelow
  <2>4. QED
    BY <2>1, <2>2, <2>3
<1>8. PICK e : e = IF rxrdy /\ n = Len(fifo) THEN ClearFlag(d, "PACKET_RX") ELSE d
  OBVIOUS
<1>9. PICK taken \in Takes(e, q) :
          Apply(e, q, taken) /\ fifo' = SubSeq(fifo, n + 1, Len(fifo))
          /\ rxrdy' = (rxrdy /\ n < Len(fifo))
  BY <1>2, <1>4, <1>6, <1>8, Zenon DEF SignalRxAvailable
<1>10. /\ e \in Collected /\ e.cdc.bRxBlocked = d.cdc.bRxBlocked /\ e.done = d.done
       /\ e.cdc.usDeferredOpFlags = d.cdc.usDeferredOpFlags
            \/ /\ n = Len(fifo)
               /\ e.cdc.usDeferredOpFlags = d.cdc.usDeferredOpFlags \ {"PACKET_RX"}
       /\ rxrdy /\ n = Len(fifo) => "PACKET_RX" \notin e.cdc.usDeferredOpFlags
  <2>1. CASE rxrdy /\ n = Len(fifo)
    BY <1>8, <2>1, ClearFlagFacts, FlagsOfKinds
  <2>2. CASE ~(rxrdy /\ n = Len(fifo))
    BY <1>8, <2>2
  <2>3. QED
    BY <2>1, <2>2
<1>11. taken \in 0 .. Len(q)
  BY <1>7, <1>9 DEF Takes
<1>12. /\ cdc' = e.cdc /\ done' = e.done
       /\ rx' \in Seq(Bytes) /\ Len(rx') = Len(q) - taken
       /\ client' \in ClientType
       /\ \A b : Below(q, b) /\ client.last < b => Below(rx', b) /\ client'.last < b
  BY <1>1, <1>7, <1>9, <1>10, <1>11, ApplyFacts
<1>13. Len(rx') <= RxCapacity
  BY <1>1, <1>7, <1>11, <1>12
<1>14. /\ fifo' \in Seq(Bytes)
       /\ Len(fifo') = IF n + 1 <= Len(fifo) THEN Len(fifo) - (n + 1) + 1 ELSE 0
       /\ \A b : Below(fifo, b) => Below(fifo', b)
  <2>1. /\ fifo' \in Seq(Bytes)
        /\ Len(fifo') = IF n + 1 <= Len(fifo) THEN Len(fifo) - (n + 1) + 1 ELSE 0
    BY <1>1, <1>3, <1>9, PartOfSeq
  <2>2. \A b : Below(fifo, b) => Below(fifo', b)
    BY <1>1, <1>3, <1>9, PartStaysBelow
  <2>3. QED
    BY <2>1, <2>2
<1>15. Len(fifo') = Len(fifo) - n
  BY <1>1, <1>3, <1>14
<1>16. fifo' # << >> <=> n < Len(fifo)
  <2>1. fifo' = << >> <=> Len(fifo') = 0
    BY <1>14, EmptySeq
  <2>2. QED
    BY <1>1, <1>3, <1>15, <2>1
<1>17. rxrdy' \in BOOLEAN /\ (rxrdy' => rxrdy) /\ (rxrdy => (rxrdy' <=> fifo' # << >>))
  BY <1>9, <1>16, Zenon
<1>18. n = Len(fifo) => ~rxrdy'
  <2>1. n = Len(fifo) => ~(n < Len(fifo))
    BY <1>1
  <2>2. QED
    BY <1>9, <2>1, Zenon
<1>19. Len(fifo') <= MaxPacket
  BY <1>1, <1>3, <1>15
<1>20. cdc' \in Instance
  BY <1>10, <1>12 DEF Collected
<1>21. \A b : Below(fifo, b) /\ Below(rx, b) /\ client.last < b
                  => Below(fifo', b) /\ Below(rx', b) /\ client'.last < b
  BY <1>5, <1>7, <1>12, <1>14, Zenon
<1>22. /\ done' = d.done /\ cdc'.bRxBlocked = d.cdc.bRxBlocked
       /\ cdc'.usDeferredOpFlags = d.cdc.usDeferredOpFlags
            \/ /\ ~rxrdy'
               /\ cdc'.usDeferredOpFlags = d.cdc.usDeferredOpFlags \ {"PACKET_RX"}
  BY <1>10, <1>12, <1>18, Zenon
<1>23. rxrdy /\ "PACKET_RX" \in cdc'.usDeferredOpFlags => rxrdy'
  <2>1. n # Len(fifo) => n < Len(fifo)
    BY <1>1, <1>3
  <2>2. QED
    BY <1>9, <1>10, <1>12, <2>1, Zenon
<1>24. QED
  BY <1>12, <1>13, <1>14, <1>17, <1>19, <1>20, <1>21, <1>22, <1>23, Zenon

-----------------------------------------------------------------------------
(* A request on endpoint 0.                                                *)

\* The request that waits is a request.
LEMMA RequestType ==
    ASSUME TypeOK, ep0 # << >>
    PROVE  ep0[1] \in Requests
<1>1. ep0 \in Seq(Requests) /\ Len(ep0) \in Nat \ {0}
  BY EmptySeq DEF TypeOK
<1>2. QED
  BY <1>1, ElementOfSeq

\* Of the changes, the client is told of the request's, of kind k, and no other.
Told(d, e, k) ==
    e.done[k] = ep0[1].id /\ \A j \in Kinds \ {k} : e.done[j] = d.done[j]

\* A change is passed on at once, and told with its number, when the receive buffer
\* is empty; otherwise it is flagged and blocks reception.
LEMMA CheckAndSendFacts ==
    ASSUME TypeOK, ep0 # << >>, NEW d \in Collected, NEW k \in Kinds, NEW bSend \in BOOLEAN,
           NEW e, e = CheckAndSend(d, k, bSend)
    PROVE  /\ e \in Collected
           /\ SameBut(d, e, {DeferFlag[k], "SEND_BREAK", "CLEAR_BREAK"} \ {"PACKET_RX"})
           /\ ~DeviceConsumedAllData =>
                            /\ DeferFlag[k] \in e.cdc.usDeferredOpFlags
                            /\ e.cdc.bRxBlocked /\ e.done = d.done
                            /\ d.cdc.usDeferredOpFlags \subseteq e.cdc.usDeferredOpFlags
           /\ DeviceConsumedAllData =>
                            /\ Told(d, e, k)
                            /\ e.cdc.bRxBlocked = d.cdc.bRxBlocked
<1>1. CASE ~DeviceConsumedAllData
  <2>1. PICK c : c = SetFlag(d, DeferFlag[k])
    OBVIOUS
  <2>2. /\ c \in Collected /\ c.done = d.done
        /\ c.cdc.usDeferredOpFlags = d.cdc.usDeferredOpFlags \cup {DeferFlag[k]}
    BY <2>1, SetFlagFacts, FlagsOfKinds
  <2>3. e = [c EXCEPT !.cdc = [c.cdc EXCEPT !.bRxBlocked = TRUE]]
    BY <1>1, <2>1, <2>2 DEF CheckAndSend, Collected, Instance
  <2>4. [c.cdc EXCEPT !.bRxBlocked = TRUE] \in Instance
    BY <2>2 DEF Collected, Instance
  <2>5. /\ e \in Collected /\ e.cdc.bRxBlocked /\ e.done = c.done
        /\ e.cdc.usDeferredOpFlags = c.cdc.usDeferredOpFlags
    BY <2>2, <2>3, <2>4 DEF Collected, Instance
  <2>6. SameBut(d, e, {DeferFlag[k]})
    BY <2>2, <2>5 DEF SameBut
  <2>7. DeferFlag[k] # "PACKET_RX"
    BY FlagsOfKinds
  <2>8. QED
    BY <1>1, <2>2, <2>5, <2>6, <2>7 DEF SameBut
<1>2. CASE DeviceConsumedAllData
  <2>1. PICK c : c = IF k = "break" THEN SendBreak(d, bSend) ELSE ClearFlag(d, DeferFlag[k])
    OBVIOUS
  <2>2. /\ c \in Collected /\ c.done = d.done /\ c.cdc.bRxBlocked = d.cdc.bRxBlocked
        /\ SameBut(d, c, {DeferFlag[k], "SEND_BREAK", "CLEAR_BREAK"} \ {"PACKET_RX"})
    <3>1. CASE k = "break"
      <4>1. c = SendBreak(d, bSend)
        BY <2>1, <3>1
      <4>2. {DeferFlag[k], "SEND_BREAK", "CLEAR_BREAK"} \ {"PACKET_RX"}
                = {"SEND_BREAK", "CLEAR_BREAK"}
        BY <3>1, FlagsOfKinds
      <4>3. QED
        BY <3>1, <4>1, <4>2, SendBreakFacts
    <3>2. CASE k # "break"
      <4>1. c = ClearFlag(d, DeferFlag[k])
        BY <2>1, <3>2
      <4>2. /\ c \in Collected /\ c.done = d.done /\ c.cdc.bRxBlocked = d.cdc.bRxBlocked
            /\ c.cdc.usDeferredOpFlags = d.cdc.usDeferredOpFlags \ {DeferFlag[k]}
        BY <4>1, ClearFlagFacts, FlagsOfKinds
      <4>3. DeferFlag[k] # "PACKET_RX"
        BY FlagsOfKinds
      <4>4. QED
        BY <4>2, <4>3 DEF SameBut
    <3>3. QED
      BY <3>1, <3>2
  <2>3. ep0[1].id \in 0 .. MaxSent
    BY RequestType DEF Requests
  <2>4. [c.done EXCEPT ![k] = ep0[1].id] \in [Kinds -> 0 .. MaxSent]
    BY <2>2, <2>3 DEF Collected
  <2>5. e = [c EXCEPT !.done = [c.done EXCEPT ![k] = ep0[1].id]]
    BY <1>2, <2>1, <2>2 DEF CheckAndSend, Collected
  <2>6. e \in Collected /\ e.cdc = c.cdc /\ e.done = [d.done EXCEPT ![k] = ep0[1].id]
    BY <2>2, <2>4, <2>5 DEF Collected
  <2>7. d.done \in [Kinds -> 0 .. MaxSent]
    BY DEF Collected
  <2>8. Told(d, e, k)
    BY <2>6, <2>7 DEF Told
  <2>9. QED
    BY <1>2, <2>2, <2>6, <2>8 DEF SameBut
<1>3. QED
  BY <1>1, <1>2

-----------------------------------------------------------------------------
(* What the handlers do, in the terms the invariants are stated in.        *)

\* A handler starts from the instance as it is.
LEMMA NowFacts ==
    ASSUME TypeOK
    PROVE  Now \in Collected /\ Now.cdc = cdc /\ Now.done = done
BY DEF TypeOK, Now, Collected, ClientType

\* The client takes nothing.
LEMMA ApplyNothing ==
    ASSUME TypeOK, NEW d \in Collected, Apply(d, rx, 0)
    PROVE  /\ cdc' = d.cdc /\ done' = d.done /\ rx' = rx
           /\ client' \in ClientType /\ client'.last = client.last
<1>1. rx \in Seq(Bytes) /\ client \in ClientType
  BY DEF TypeOK, Bytes, ClientType
<1>2. SubSeq(rx, 1, Len(rx)) = rx
  BY <1>1, SubSeqFull
<1>3. rx' = rx
  BY <1>2 DEF Apply
<1>4. client' = [breaking |-> d.breaking, last |-> client.last]
  BY DEF Apply
<1>5. QED
  BY <1>1, <1>3, <1>4 DEF Apply, Collected, ClientType

\* What the handler of a request and the handler of a data stage have in common: a
\* change of kind k is taken from endpoint 0 and checked.
Changes(k) ==
    /\ ep0 # << >> /\ ep0' = << >>
    /\ want' = [want EXCEPT ![k] = ep0[1].id]
    /\ \E d \in Collected, bSend \in BOOLEAN :
           /\ d.done = done /\ d.cdc.usDeferredOpFlags = cdc.usDeferredOpFlags
           /\ d.cdc.bRxBlocked = cdc.bRxBlocked
           /\ Apply(CheckAndSend(d, k, bSend), rx, 0)
    /\ UNCHANGED <<epVars, frames, sent, resets>>

\* Both handlers do just that.
LEMMA HandlersChange ==
    ASSUME TypeOK, HandleRequest, ~HandleSetLineCoding
    PROVE  \E k \in Kinds : Changes(k)
<1>1. Now \in Collected /\ Now.cdc = cdc /\ Now.done = done /\ cdc \in Instance
  BY NowFacts DEF TypeOK
<1>2. CASE HandleEP0Data
  <2>1. PICK d : d = [Now EXCEPT !.cdc.eCDCRequestState = "IDLE"]
    OBVIOUS
  <2>2. d = [Now EXCEPT !.cdc = [cdc EXCEPT !.eCDCRequestState = "IDLE"]]
    BY <1>1, <2>1 DEF Collected, Instance
  <2>3. [cdc EXCEPT !.eCDCRequestState = "IDLE"] \in Instance
    BY <1>1 DEF Instance
  <2>4. /\ d \in Collected /\ d.done = done
        /\ d.cdc.usDeferredOpFlags = cdc.usDeferredOpFlags
        /\ d.cdc.bRxBlocked = cdc.bRxBlocked
    BY <1>1, <2>2, <2>3 DEF Collected, Instance
  <2>5. Apply(CheckAndSend(d, "lineCoding", FALSE), rx, 0)
    BY <1>2, <2>1, Zenon DEF HandleEP0Data
  <2>6. Changes("lineCoding")
    BY <1>2, <2>4, <2>5 DEF HandleEP0Data, Changes
  <2>7. QED
    BY <2>6 DEF Kinds
<1>3. ASSUME NEW k \in {"break", "lineState"}, HandleChange(k) PROVE Changes(k)
  <2>1. PICK d : d = IF k = "break" THEN [Now EXCEPT !.cdc.usBreakDuration = ep0[1].duration]
                     ELSE Now
    OBVIOUS
  <2>2. ep0[1].duration \in Word16
    BY <1>3, RequestType DEF HandleChange, Requests
  <2>3. /\ d \in Collected /\ d.done = done
        /\ d.cdc.usDeferredOpFlags = cdc.usDeferredOpFlags
        /\ d.cdc.bRxBlocked = cdc.bRxBlocked
    <3>1. CASE k = "break"
      <4>1. d = [Now EXCEPT !.cdc = [cdc EXCEPT !.usBreakDuration = ep0[1].duration]]
        BY <1>1, <2>1, <3>1 DEF Collected, Instance
      <4>2. [cdc EXCEPT !.usBreakDuration = ep0[1].duration] \in Instance
        BY <1>1, <2>2 DEF Instance
      <4>3. QED
        BY <1>1, <4>1, <4>2 DEF Collected, Instance
    <3>2. CASE k # "break"
      BY <1>1, <2>1, <3>2
    <3>3. QED
      BY <3>1, <3>2
  <2>4. PICK bSend : bSend = (ep0[1].duration # 0)
    OBVIOUS
  <2>5. Apply(CheckAndSend(d, k, bSend), rx, 0)
    BY <1>3, <2>1, <2>4, Zenon DEF HandleChange
  <2>6. bSend \in BOOLEAN
    BY <2>4
  <2>7. QED
    BY <1>3, <2>3, <2>5, <2>6 DEF HandleChange, Changes
<1>4. QED
  BY <1>2, <1>3 DEF HandleRequest, Kinds

\* A change is recorded as wanted; it is told at once or deferred, and leaves the
\* flags of the packet and of the other line change alone.
LEMMA ChangesFacts ==
    ASSUME TypeOK, NEW k \in Kinds, Changes(k)
    PROVE  /\ cdc' \in Instance /\ done' \in [Kinds -> 0 .. MaxSent]
           /\ rx' = rx /\ client' \in ClientType /\ client'.last = client.last
           /\ "PACKET_RX" \in cdc'.usDeferredOpFlags <=> "PACKET_RX" \in cdc.usDeferredOpFlags
           /\ \A j \in LineKinds \ {k} :
                  /\ DeferFlag[j] \in cdc'.usDeferredOpFlags
                         <=> DeferFlag[j] \in cdc.usDeferredOpFlags
                  /\ done'[j] = done[j]
           /\ cdc.bRxBlocked => cdc'.bRxBlocked
           /\ \/ DeferFlag[k] \in cdc'.usDeferredOpFlags /\ cdc'.bRxBlocked
              \/ done'[k] = ep0[1].id
<1>1. ep0 # << >> /\ ep0[1] \in Requests
  BY RequestType DEF Changes
<1>2. PICK d \in Collected, bSend \in BOOLEAN :
          /\ d.done = done /\ d.cdc.usDeferredOpFlags = cdc.usDeferredOpFlags
          /\ d.cdc.bRxBlocked = cdc.bRxBlocked
          /\ Apply(CheckAndSend(d, k, bSend), rx, 0)
  BY DEF Changes
<1>3. /\ d \in Collected /\ d.done = done
      /\ d.cdc.usDeferredOpFlags = cdc.usDeferredOpFlags
      /\ d.cdc.bRxBlocked = cdc.bRxBlocked
  BY <1>2
<1>5. PICK e : e = CheckAndSend(d, k, bSend)
  OBVIOUS
<1>6. /\ e \in Collected
      /\ SameBut(d, e, {DeferFlag[k], "SEND_BREAK", "CLEAR_BREAK"} \ {"PACKET_RX"})
      /\ ~DeviceConsumedAllData =>
             /\ DeferFlag[k] \in e.cdc.usDeferredOpFlags
             /\ e.cdc.bRxBlocked /\ e.done = d.done
             /\ d.cdc.usDeferredOpFlags \subseteq e.cdc.usDeferredOpFlags
      /\ DeviceConsumedAllData =>
             /\ Told(d, e, k)
             /\ e.cdc.bRxBlocked = d.cdc.bRxBlocked
  <2>1. bSend \in BOOLEAN
    BY <1>2
  <2>2. TypeOK /\ ep0 # << >> /\ d \in Collected /\ k \in Kinds
    BY <1>1, <1>3
  <2>3. QED
    BY <1>5, <2>1, <2>2, CheckAndSendFacts, Zenon
<1>7. Apply(e, rx, 0)
  BY <1>2, <1>5, Zenon
<1>8. /\ cdc' = e.cdc /\ done' = e.done /\ rx' = rx
      /\ client' \in ClientType /\ client'.last = client.last
  BY <1>6, <1>7, ApplyNothing
<1>9. "PACKET_RX" \in cdc'.usDeferredOpFlags <=> "PACKET_RX" \in cdc.usDeferredOpFlags
  BY <1>3, <1>6, <1>8, FlagsOfKinds DEF SameBut
<1>10. ASSUME NEW j \in LineKinds \ {k}
       PROVE  /\ DeferFlag[j] \in cdc'.usDeferredOpFlags <=> DeferFlag[j] \in cdc.usDeferredOpFlags
              /\ done'[j] = done[j]
  <2>1. /\ DeferFlag[j] \in Flags
        /\ DeferFlag[j] \notin {DeferFlag[k], "SEND_BREAK", "CLEAR_BREAK"}
    BY FlagsOfKinds DEF LineKinds, Kinds
  <2>2. DeferFlag[j] \in cdc'.usDeferredOpFlags <=> DeferFlag[j] \in cdc.usDeferredOpFlags
    BY <1>3, <1>6, <1>8, <2>1 DEF SameBut
  <2>3. done \in [Kinds -> 0 .. MaxSent] /\ j \in Kinds /\ j # k
    BY FlagsOfKinds DEF TypeOK
  <2>4. done'[j] = done[j]
    BY <1>3, <1>6, <1>8, <2>3 DEF Told
  <2>5. QED
    BY <2>2, <2>4
<1>11. cdc.bRxBlocked => cdc'.bRxBlocked
  BY <1>3, <1>6, <1>8
<1>12. \/ DeferFlag[k] \in cdc'.usDeferredOpFlags /\ cdc'.bRxBlocked
       \/ done'[k] = ep0[1].id
  BY <1>3, <1>6, <1>8 DEF Told
<1>13. QED
  BY <1>6, <1>8, <1>9, <1>10, <1>11, <1>12 DEF Collected

\* The tick passes deferred changes on when the receive buffer is empty, and reads a
\* flagged packet when reception is not blocked.
LEMMA TickFacts ==
    ASSUME TypeOK, CDCTickHandler
    PROVE  \E d \in Collected :
               /\ "PACKET_RX" \in d.cdc.usDeferredOpFlags
                      <=> "PACKET_RX" \in cdc.usDeferredOpFlags
               /\ rx = << >> =>
                      /\ ~d.cdc.bRxBlocked
                      /\ \A k \in LineKinds :
                             d.done[k] = IF DeferFlag[k] \in cdc.usDeferredOpFlags
                                         THEN want[k] ELSE done[k]
               /\ rx # << >> =>
                      /\ d.cdc.bRxBlocked = cdc.bRxBlocked /\ d.done = done
                      /\ \A k \in LineKinds : DeferFlag[k] \in d.cdc.usDeferredOpFlags
                                                  <=> DeferFlag[k] \in cdc.usDeferredOpFlags
               /\ \/ /\ ~d.cdc.bRxBlocked /\ "PACKET_RX" \in d.cdc.usDeferredOpFlags
                     /\ SignalRxAvailable(d)
                  \/ Apply(d, rx, 0) /\ UNCHANGED <<fifo, rxrdy>>
<1>1. Now \in Collected /\ Now.cdc = cdc /\ Now.done = done /\ want \in [Kinds -> 0 .. MaxSent]
  BY NowFacts DEF TypeOK
<1>2. PICK d1 : d1 = TickBreak(Now)
  OBVIOUS
<1>3. /\ d1 \in Collected
      /\ SameBut(Now, d1, {"SEND_BREAK", "CLEAR_BREAK"})
      /\ d1.cdc.bRxBlocked = cdc.bRxBlocked /\ d1.done = done
  BY <1>1, <1>2, TickBreakFacts
<1>4. /\ "PACKET_RX" \in d1.cdc.usDeferredOpFlags <=> "PACKET_RX" \in cdc.usDeferredOpFlags
      /\ \A k \in LineKinds : DeferFlag[k] \in d1.cdc.usDeferredOpFlags
                                  <=> DeferFlag[k] \in cdc.usDeferredOpFlags
  BY <1>1, <1>3, FlagsOfKinds DEF SameBut, LineKinds
<1>5. PICK d : d = IF DeviceConsumedAllData THEN TickDeferred(d1) ELSE d1
  OBVIOUS
<1>6. CASE rx = << >>
  <2>1. d = TickDeferred(d1)
    BY <1>5, <1>6 DEF DeviceConsumedAllData
  <2>2. /\ d \in Collected
        /\ "PACKET_RX" \in d.cdc.usDeferredOpFlags <=> "PACKET_RX" \in d1.cdc.usDeferredOpFlags
        /\ ~d.cdc.bRxBlocked
        /\ \A k \in LineKinds : d.done[k] = IF DeferFlag[k] \in d1.cdc.usDeferredOpFlags
                                            THEN want[k] ELSE d1.done[k]
    BY <1>1, <1>3, <2>1, TickDeferredFacts
  <2>3. \/ /\ ~d.cdc.bRxBlocked /\ "PACKET_RX" \in d.cdc.usDeferredOpFlags
           /\ SignalRxAvailable(d)
        \/ Apply(d, rx, 0) /\ UNCHANGED <<fifo, rxrdy>>
    BY <1>2, <1>5, Zenon DEF CDCTickHandler, IsSet
  <2>4. \A k \in LineKinds : d.done[k] = IF DeferFlag[k] \in cdc.usDeferredOpFlags
                                         THEN want[k] ELSE done[k]
    BY <1>3, <1>4, <2>2
  <2>5. QED
    BY <1>4, <1>6, <2>2, <2>3, <2>4
<1>7. CASE rx # << >>
  <2>1. d = d1
    BY <1>5, <1>7 DEF DeviceConsumedAllData
  <2>2. \/ /\ ~d.cdc.bRxBlocked /\ "PACKET_RX" \in d.cdc.usDeferredOpFlags
           /\ SignalRxAvailable(d)
        \/ Apply(d, rx, 0) /\ UNCHANGED <<fifo, rxrdy>>
    BY <1>2, <1>5, Zenon DEF CDCTickHandler, IsSet
  <2>3. QED
    BY <1>3, <1>4, <1>7, <2>1, <2>2
<1>8. QED
  BY <1>6, <1>7

-----------------------------------------------------------------------------
(* Type correctness.                                                       *)

\* The driver starts with nothing received and nothing asked for ...
LEMMA InitTypeOK == Init => TypeOK
<1> SUFFICES ASSUME Init PROVE TypeOK
  OBVIOUS
<1>1. 0 \in 0 .. MaxSent /\ 0 \in 0 .. MaxResets /\ RxCapacity \in Nat /\ MaxPacket \in Nat
  BY BoundsAssumption, CapacityAssumption
<1>2. 0 \in Word16
  BY ZeroIsWord
<1>3. cdc \in Instance
  BY <1>2 DEF Init, Instance
<1>4. << >> \in Seq(1 .. MaxSent) /\ << >> \in Seq(Requests) /\ Len(<< >>) = 0
  BY EmptySeq
<1>5. /\ rx \in Seq(1 .. MaxSent) /\ Len(rx) <= RxCapacity
      /\ fifo \in Seq(1 .. MaxSent) /\ Len(fifo) <= MaxPacket
      /\ ep0 \in Seq(Requests) /\ Len(ep0) <= 1
  BY <1>1, <1>4 DEF Init
<1>6. /\ client \in [breaking : BOOLEAN, last : 0 .. MaxSent]
      /\ want \in [Kinds -> 0 .. MaxSent] /\ done \in [Kinds -> 0 .. MaxSent]
  BY <1>1 DEF Init
<1>7. QED
  BY <1>1, <1>3, <1>5, <1>6 DEF Init, TypeOK

\* A packet of the host is a sequence of the next numbers.
LEMMA PacketType ==
    ASSUME NEW n \in 1 .. MaxPacket, sent \in 0 .. MaxSent, sent + n <= MaxSent,
           NEW p, p = [i \in 1 .. n |-> sent + i]
    PROVE  /\ p \in Seq(Bytes) /\ Len(p) = n /\ p # << >>
           /\ \A i \in 1 .. n : p[i] = sent + i
<1>1. n \in Nat /\ MaxSent \in Nat /\ n >= 1
  BY CapacityAssumption, BoundsAssumption
<1>2. p \in [1 .. n -> Bytes]
  BY <1>1 DEF Bytes
<1>3. p \in Seq(Bytes)
  BY <1>1, <1>2, SeqDef
<1>4. Len(p) = n
  BY <1>1, <1>2, <1>3, LenProperties
<1>5. QED
  BY <1>1, <1>3, <1>4, EmptySeq

\* ... and each step keeps every variable in its type.
LEMMA NextTypeOK == TypeOK /\ [Next]_vars => TypeOK'
<1> SUFFICES ASSUME TypeOK, [Next]_vars PROVE TypeOK'
  OBVIOUS
<1>1. CASE HostSendsPacket
  <2>1. PICK n \in 1 .. MaxPacket : sent + n <= MaxSent
                                    /\ fifo' = [i \in 1 .. n |-> sent + i] /\ sent' = sent + n
    BY <1>1 DEF HostSendsPacket
  <2>2. fifo' \in Seq(Bytes) /\ Len(fifo') = n
    BY <2>1, PacketType DEF TypeOK
  <2>3. Len(fifo') <= MaxPacket /\ sent' \in 0 .. MaxSent
    BY <2>1, <2>2, CapacityAssumption, BoundsAssumption DEF TypeOK
  <2>4. QED
    BY <1>1, <2>2, <2>3 DEF HostSendsPacket, TypeOK, Bytes
<1>2. CASE HostSendsRequest
  <2>1. sent' \in 0 .. MaxSent /\ sent + 1 \in 1 .. MaxSent
    BY <1>2, BoundsAssumption DEF HostSendsRequest, TypeOK
  <2>2. PICK r \in Requests : ep0' = <<r>>
    <3>1. 0 \in Word16
      BY ZeroIsWord
    <3>2. \A k \in Kinds \cup {"setLineCoding"}, dur \in Word16 : Request(k, dur) \in Requests
      BY <2>1 DEF Request, Requests
    <3>3. PICK k \in Kinds \cup {"setLineCoding"}, dur \in Word16 : ep0' = <<Request(k, dur)>>
      BY <1>2, <3>1, BoundsAssumption DEF HostSendsRequest, Kinds
    <3>4. QED
      BY <3>2, <3>3
  <2>3. ep0' \in Seq(Requests) /\ Len(ep0') = 1
    BY <2>2
  <2>4. QED
    BY <1>2, <2>1, <2>3 DEF HostSendsRequest, TypeOK, epVars
<1>3. CASE ClientReads
  <2>1. PICK n \in 1 .. Len(rx) : Apply(Now, rx, n)
    BY <1>3 DEF ClientReads
  <2>2. rx \in Seq(Bytes) /\ Len(rx) \in Nat /\ Len(rx) <= RxCapacity /\ client \in ClientType
    BY LenProperties DEF TypeOK, Bytes, ClientType
  <2>3. n \in 0 .. Len(rx)
    BY <2>2
  <2>4. /\ cdc' = cdc /\ done' = done /\ rx' \in Seq(Bytes)
        /\ Len(rx') = Len(rx) - n /\ client' \in ClientType
    BY <2>1, <2>2, <2>3, NowFacts, ApplyFacts
  <2>5. Len(rx') <= RxCapacity
    BY <2>2, <2>3, <2>4, CapacityAssumption
  <2>6. QED
    BY <1>3, <2>4, <2>5 DEF ClientReads, TypeOK, Bytes, ClientType, epVars
<1>4. CASE ProcessDataFromHost
  <2>1. PICK d : d = SetFlag(Now, "PACKET_RX")
    OBVIOUS
  <2>2. d \in Collected /\ d.done = done
    BY <2>1, NowFacts, SetFlagFacts, FlagsOfKinds
  <2>3. CASE ~rxrdy
    BY <1>4, <2>3 DEF ProcessDataFromHost, TypeOK
  <2>4. CASE rxrdy /\ cdc.bRxBlocked
    <3>1. Apply(d, rx, 0) /\ UNCHANGED <<fifo, rxrdy>>
      BY <1>4, <2>1, <2>4 DEF ProcessDataFromHost
    <3>2. cdc' \in Instance /\ done' = done /\ rx' = rx /\ client' \in ClientType
      BY <2>2, <3>1, ApplyNothing DEF Collected
    <3>3. QED
      BY <1>4, <3>1, <3>2 DEF ProcessDataFromHost, TypeOK, ClientType
  <2>5. CASE rxrdy /\ ~cdc.bRxBlocked
    <3>1. SignalRxAvailable(d)
      BY <1>4, <2>1, <2>5 DEF ProcessDataFromHost
    <3>2. /\ cdc' \in Instance /\ done' = done /\ rxrdy' \in BOOLEAN
          /\ rx' \in Seq(Bytes) /\ Len(rx') <= RxCapacity
          /\ fifo' \in Seq(Bytes) /\ Len(fifo') <= MaxPacket
          /\ client' \in ClientType
      BY <2>2, <3>1, SignalFacts
    <3>3. QED
      BY <1>4, <3>2 DEF ProcessDataFromHost, TypeOK, Bytes, ClientType
  <2>6. QED
    BY <2>3, <2>4, <2>5
<1>5. CASE HandleSetLineCoding
  <2>1. [cdc EXCEPT !.eCDCRequestState = "WAIT_DATA"] \in Instance
    BY DEF TypeOK, Instance
  <2>2. << >> \in Seq(Requests) /\ Len(<< >>) <= 1
    BY EmptySeq
  <2>3. QED
    BY <1>5, <2>1, <2>2 DEF HandleSetLineCoding, TypeOK, epVars
<1>6. ASSUME NEW k \in Kinds, Changes(k) PROVE TypeOK'
  <2>1. /\ cdc' \in Instance /\ done' \in [Kinds -> 0 .. MaxSent]
        /\ rx' = rx /\ client' \in ClientType
    BY <1>6, ChangesFacts
  <2>2. ep0[1].id \in 0 .. MaxSent
    BY <1>6, RequestType DEF Changes, Requests
  <2>3. want' \in [Kinds -> 0 .. MaxSent]
    BY <1>6, <2>2 DEF Changes, TypeOK
  <2>4. << >> \in Seq(Requests) /\ Len(<< >>) <= 1
    BY EmptySeq
  <2>5. QED
    BY <1>6, <2>1, <2>3, <2>4 DEF Changes, TypeOK, ClientType, epVars
<1>7. CASE CDCTickHandler
  <2>1. PICK d \in Collected :
            SignalRxAvailable(d) \/ (Apply(d, rx, 0) /\ UNCHANGED <<fifo, rxrdy>>)
    BY <1>7, TickFacts
  <2>2. d.done \in [Kinds -> 0 .. MaxSent]
    BY DEF Collected
  <2>3. CASE SignalRxAvailable(d)
    <3>1. /\ cdc' \in Instance /\ done' = d.done /\ rxrdy' \in BOOLEAN
          /\ rx' \in Seq(Bytes) /\ Len(rx') <= RxCapacity
          /\ fifo' \in Seq(Bytes) /\ Len(fifo') <= MaxPacket
          /\ client' \in ClientType
      BY <2>3, SignalFacts
    <3>2. QED
      BY <1>7, <2>2, <3>1 DEF CDCTickHandler, TypeOK, Bytes, ClientType
  <2>4. CASE Apply(d, rx, 0) /\ UNCHANGED <<fifo, rxrdy>>
    <3>1. cdc' \in Instance /\ done' = d.done /\ rx' = rx /\ client' \in ClientType
      BY <2>4, ApplyNothing DEF Collected
    <3>2. QED
      BY <1>7, <2>2, <2>4, <3>1 DEF CDCTickHandler, TypeOK, ClientType
  <2>5. QED
    BY <2>1, <2>3, <2>4
<1>8. CASE HandleConfigChange
  <2>1. [cdc EXCEPT !.bConnected = TRUE, !.eCDCRequestState = "IDLE"] \in Instance
    BY DEF TypeOK, Instance
  <2>2. << >> \in Seq(1 .. MaxSent) /\ Len(<< >>) <= RxCapacity
    BY EmptySeq, CapacityAssumption
  <2>3. QED
    BY <1>8, <2>1, <2>2 DEF HandleConfigChange, TypeOK, epVars
<1>9. CASE HandleDisconnect \/ ResetAndReconfigure
  <2>1. \/ cdc' = [cdc EXCEPT !.bConnected = FALSE]
        \/ cdc' = [cdc EXCEPT !.eCDCRequestState = "IDLE"]
    BY <1>9 DEF HandleDisconnect, ResetAndReconfigure
  <2>2. cdc' \in Instance
    BY <2>1 DEF TypeOK, Instance
  <2>3. /\ << >> \in Seq(1 .. MaxSent) /\ Len(<< >>) <= MaxPacket
        /\ << >> \in Seq(Requests) /\ Len(<< >>) <= 1
    BY EmptySeq, CapacityAssumption
  <2>4. resets' \in 0 .. MaxResets
    BY <1>9, BoundsAssumption DEF HandleDisconnect, ResetAndReconfigure, TypeOK
  <2>5. QED
    BY <1>9, <2>2, <2>3, <2>4 DEF HandleDisconnect, ResetAndReconfigure, TypeOK
<1>10. CASE FramesComeOrGo \/ UNCHANGED vars
  BY <1>10 DEF FramesComeOrGo, vars, epVars, TypeOK
<1>11. CASE HandleRequest
  BY <1>5, <1>6, <1>11, HandlersChange
<1>12. QED
  BY <1>1, <1>2, <1>3, <1>4, <1>7, <1>8, <1>9, <1>10, <1>11 DEF Next

\* Whatever the host asks for and in whichever order packets, requests and ticks
\* come, the instance, the receive buffer and the FIFO keep their types and sizes.
THEOREM TypeCorrect == Spec => []TypeOK
<1>1. Init => TypeOK
  BY InitTypeOK
<1>2. TypeOK /\ [Next]_vars => TypeOK'
  BY NextTypeOK
<1>3. QED
  BY <1>1, <1>2, PTL DEF Spec

-----------------------------------------------------------------------------
(* A packet that waits is flagged.                                         *)

\* The endpoint is ready exactly while its FIFO holds something, and a packet whose
\* interrupt has been taken is flagged.
FifoOK ==
    /\ rxrdy <=> fifo # << >>
    /\ rxrdy /\ ~rxIntr => "PACKET_RX" \in cdc.usDeferredOpFlags

\* Only a packet that has been read whole loses its flag.
LEMMA NextFifoOK == TypeOK /\ FifoOK /\ [Next]_vars => FifoOK'
<1> SUFFICES ASSUME TypeOK, FifoOK, [Next]_vars PROVE FifoOK'
  OBVIOUS
<1>1. CASE HostSendsPacket
  <2>1. PICK n \in 1 .. MaxPacket : sent + n <= MaxSent /\ fifo' = [i \in 1 .. n |-> sent + i]
    BY <1>1 DEF HostSendsPacket
  <2>2. fifo' # << >>
    BY <2>1, PacketType DEF TypeOK
  <2>3. QED
    BY <1>1, <2>2 DEF HostSendsPacket, FifoOK
<1>2. CASE HostSendsRequest
  BY <1>2 DEF HostSendsRequest, FifoOK, epVars
<1>3. CASE ClientReads
  <2>1. cdc' = cdc
    BY <1>3, NowFacts DEF ClientReads, Apply
  <2>2. QED
    BY <1>3, <2>1 DEF ClientReads, FifoOK, epVars
<1>4. CASE ProcessDataFromHost
  <2>1. PICK d : d = SetFlag(Now, "PACKET_RX")
    OBVIOUS
  <2>2. d \in Collected /\ "PACKET_RX" \in d.cdc.usDeferredOpFlags
    BY <2>1, NowFacts, SetFlagFacts, FlagsOfKinds
  <2>3. CASE ~rxrdy
    BY <1>4, <2>3 DEF ProcessDataFromHost, FifoOK
  <2>4. CASE rxrdy /\ cdc.bRxBlocked
    <3>1. Apply(d, rx, 0) /\ UNCHANGED <<fifo, rxrdy>>
      BY <1>4, <2>1, <2>4 DEF ProcessDataFromHost
    <3>2. cdc' = d.cdc
      BY <3>1 DEF Apply
    <3>3. QED
      BY <2>2, <3>1, <3>2 DEF FifoOK
  <2>5. CASE rxrdy /\ ~cdc.bRxBlocked
    <3>1. SignalRxAvailable(d)
      BY <1>4, <2>1, <2>5 DEF ProcessDataFromHost
    <3>2. /\ rxrdy => (rxrdy' <=> fifo' # << >>)
          /\ rxrdy' => "PACKET_RX" \in cdc'.usDeferredOpFlags
      BY <2>2, <3>1, SignalFacts
    <3>3. QED
      BY <2>5, <3>2 DEF FifoOK
  <2>6. QED
    BY <2>3, <2>4, <2>5
<1>5. CASE HandleSetLineCoding
  <2>1. cdc'.usDeferredOpFlags = cdc.usDeferredOpFlags
    BY <1>5 DEF HandleSetLineCoding, TypeOK, Instance
  <2>2. QED
    BY <1>5, <2>1 DEF HandleSetLineCoding, FifoOK, epVars
<1>6. ASSUME NEW k \in Kinds, Changes(k) PROVE FifoOK'
  <2>1. "PACKET_RX" \in cdc'.usDeferredOpFlags <=> "PACKET_RX" \in cdc.usDeferredOpFlags
    BY <1>6, ChangesFacts
  <2>2. QED
    BY <1>6, <2>1 DEF Changes, FifoOK, epVars
<1>7. CASE CDCTickHandler
  <2>1. PICK d \in Collected :
            /\ "PACKET_RX" \in d.cdc.usDeferredOpFlags
                   <=> "PACKET_RX" \in cdc.usDeferredOpFlags
            /\ \/ "PACKET_RX" \in d.cdc.usDeferredOpFlags /\ SignalRxAvailable(d)
               \/ Apply(d, rx, 0) /\ UNCHANGED <<fifo, rxrdy>>
    BY <1>7, TickFacts
  <2>2. rxIntr' = rxIntr
    BY <1>7 DEF CDCTickHandler
  <2>3. CASE "PACKET_RX" \in d.cdc.usDeferredOpFlags /\ SignalRxAvailable(d)
    <3>1. /\ rxrdy' \in BOOLEAN /\ (rxrdy' => rxrdy)
          /\ rxrdy => (rxrdy' <=> fifo' # << >>)
          /\ rxrdy' => "PACKET_RX" \in cdc'.usDeferredOpFlags
      BY <2>3, SignalFacts
    <3>2. ~rxrdy => fifo' = << >>
      <4>1. SUFFICES ASSUME fifo = << >> PROVE fifo' = << >>
        BY DEF FifoOK
      <4>2. fifo' \in Seq(Bytes) /\ Len(fifo) = 0 /\ fifo \in Seq(Bytes)
        BY <2>3, <4>1, SignalFacts, EmptySeq DEF TypeOK, Bytes
      <4>3. PICK n : fifo' = SubSeq(fifo, n + 1, Len(fifo)) /\ n \in Nat
        <5>1. PICK n : /\ n = IF RxCapacity - Len(rx) < Len(fifo)
                              THEN RxCapacity - Len(rx) ELSE Len(fifo)
                       /\ fifo' = SubSeq(fifo, n + 1, Len(fifo))
          BY <2>3, Zenon DEF SignalRxAvailable
        <5>2. Len(rx) \in Nat /\ Len(rx) <= RxCapacity /\ RxCapacity \in Nat
          BY LenProperties, CapacityAssumption DEF TypeOK
        <5>3. n \in Nat
          BY <4>2, <5>1, <5>2
        <5>4. QED
          BY <5>1, <5>3
      <4>4. QED
        BY <4>2, <4>3, SubSeqEmpty
    <3>3. QED
      BY <3>1, <3>2 DEF FifoOK
  <2>4. CASE Apply(d, rx, 0) /\ UNCHANGED <<fifo, rxrdy>>
    <3>1. cdc' = d.cdc
      BY <2>4 DEF Apply
    <3>2. QED
      BY <2>1, <2>2, <2>4, <3>1 DEF FifoOK
  <2>5. QED
    BY <2>1, <2>3, <2>4
<1>8. CASE HandleConfigChange
  <2>1. cdc'.usDeferredOpFlags = cdc.usDeferredOpFlags
    BY <1>8 DEF HandleConfigChange, TypeOK, Instance
  <2>2. QED
    BY <1>8, <2>1 DEF HandleConfigChange, FifoOK, epVars
<1>9. CASE HandleDisconnect \/ ResetAndReconfigure
  BY <1>9 DEF HandleDisconnect, ResetAndReconfigure, FifoOK
<1>10. CASE FramesComeOrGo \/ UNCHANGED vars
  BY <1>10 DEF FramesComeOrGo, vars, epVars, FifoOK
<1>11. CASE HandleRequest
  BY <1>5, <1>6, <1>11, HandlersChange
<1>12. QED
  BY <1>1, <1>2, <1>3, <1>4, <1>7, <1>8, <1>9, <1>10, <1>11 DEF Next

\* Reception that is blocked with a packet in the FIFO whose interrupt is gone has a
\* flag set, so the tick looks at it: the driver does not fall asleep.
THEOREM BlockedFlagged == Spec => []BlockedIsFlagged
<1>1. Init => TypeOK /\ FifoOK
  BY InitTypeOK DEF Init, FifoOK
<1>2. TypeOK /\ FifoOK /\ [Next]_vars => (TypeOK /\ FifoOK)'
  BY NextTypeOK, NextFifoOK
<1>3. TypeOK /\ FifoOK => BlockedIsFlagged
  BY DEF FifoOK, BlockedIsFlagged
<1>4. QED
  BY <1>1, <1>2, <1>3, PTL DEF Spec

-----------------------------------------------------------------------------
(* Data and line changes keep their order.                                 *)

\* What the device has received, in the receive buffer and by the client.
DataBefore(b) == Below(rx, b) /\ client.last < b

\* The request on endpoint 0 is younger than what was received, and the packet in
\* the FIFO is either older, too, or younger and its interrupt still pending.
RequestInOrder ==
    ep0 # << >> =>
        /\ ep0[1].id < sent + 1 /\ DataBefore(ep0[1].id)
        /\ Below(fifo, ep0[1].id) \/ (Above(fifo, ep0[1].id) /\ rxIntr)

\* A line change the client has not been told of is flagged and blocks reception,
\* and all that was received is older.
ChangesInOrder ==
    \A k \in LineKinds : want[k] > done[k] =>
        DataBefore(want[k]) /\ DeferFlag[k] \in cdc.usDeferredOpFlags /\ cdc.bRxBlocked

\* Nothing is received that was not sent, and only a packet is flagged that is there
\* and whose interrupt has been taken.
DataInOrder ==
    /\ DataBefore(sent + 1) /\ Below(fifo, sent + 1)
    /\ "PACKET_RX" \in cdc.usDeferredOpFlags => rxrdy /\ ~rxIntr

InOrder == DataInOrder /\ RequestInOrder /\ ChangesInOrder

\* A bound may grow.
LEMMA BoundGrows ==
    ASSUME NEW s \in Seq(Bytes), NEW b \in Nat, NEW c \in Nat, b <= c, Below(s, b)
    PROVE  Below(s, c)
<1>1. \A i \in 1 .. Len(s) : s[i] \in Nat
  BY ElementOfSeq, BoundsAssumption DEF Bytes
<1>2. QED
  BY <1>1 DEF Below

\* The host's packet is younger than all that was received and than any request.
LEMMA PacketKeepsOrder ==
    ASSUME TypeOK, FifoOK, InOrder, HostSendsPacket
    PROVE  InOrder'
<1>1. PICK n \in 1 .. MaxPacket : /\ sent + n <= MaxSent
                                  /\ fifo' = [i \in 1 .. n |-> sent + i] /\ sent' = sent + n
  BY DEF HostSendsPacket
<1>2. /\ fifo' \in Seq(Bytes) /\ Len(fifo') = n
      /\ \A i \in 1 .. n : fifo'[i] = sent + i
  BY <1>1, PacketType DEF TypeOK
<1>3. /\ sent \in Nat /\ n \in Nat /\ n >= 1 /\ client.last \in Nat
      /\ rx \in Seq(Bytes) /\ sent' = sent + n /\ sent + 1 <= sent' + 1
  BY <1>1, CapacityAssumption, BoundsAssumption DEF TypeOK, Bytes
<1>4. /\ ~rxrdy /\ rxrdy' /\ rxIntr'
      /\ UNCHANGED <<cdc, rx, ep0, client, want, done, resets>>
  BY DEF HostSendsPacket
<1>5. DataInOrder'
  <2>1. Below(rx, sent' + 1)
    BY <1>3, BoundGrows DEF InOrder, DataInOrder, DataBefore
  <2>2. client.last < sent' + 1
    BY <1>3 DEF InOrder, DataInOrder, DataBefore
  <2>3. Below(fifo', sent' + 1)
    BY <1>2, <1>3 DEF Below
  <2>4. "PACKET_RX" \notin cdc'.usDeferredOpFlags
    BY <1>4 DEF InOrder, DataInOrder
  <2>5. QED
    BY <1>4, <2>1, <2>2, <2>3, <2>4 DEF DataInOrder, DataBefore
<1>6. RequestInOrder'
  <2>1. SUFFICES ASSUME ep0 # << >> PROVE RequestInOrder'
    BY <1>4 DEF RequestInOrder
  <2>2. ep0[1].id < sent + 1 /\ DataBefore(ep0[1].id)
    BY <2>1 DEF InOrder, RequestInOrder
  <2>3. ep0[1].id \in Nat
    BY <2>1, RequestType DEF Requests
  <2>4. PICK id : id = ep0[1].id
    OBVIOUS
  <2>5. id \in Nat /\ id < sent + 1
    BY <2>2, <2>3, <2>4
  <2>6. Above(fifo', id)
    BY <1>2, <1>3, <2>5 DEF Above
  <2>7. id < sent' + 1
    BY <1>3, <2>5
  <2>8. ep0'[1].id = id
    BY <1>4, <2>4
  <2>9. QED
    BY <1>4, <2>2, <2>4, <2>6, <2>7, <2>8, Zenon DEF RequestInOrder, DataBefore
<1>7. ChangesInOrder'
  BY <1>4 DEF InOrder, ChangesInOrder, DataBefore
<1>8. QED
  BY <1>5, <1>6, <1>7 DEF InOrder

\* A request is younger than all that was sent before it.
LEMMA RequestKeepsOrder ==
    ASSUME TypeOK, InOrder, HostSendsRequest
    PROVE  InOrder'
<1>1. /\ sent' = sent + 1 /\ sent \in Nat /\ client.last \in Nat
      /\ rx \in Seq(Bytes) /\ fifo \in Seq(Bytes)
      /\ UNCHANGED <<cdc, rx, fifo, rxrdy, rxIntr, client, want, done>>
  BY BoundsAssumption DEF HostSendsRequest, TypeOK, Bytes, epVars
<1>2. ep0'[1].id = sent + 1
  BY DEF HostSendsRequest, Request
<1>3. DataBefore(sent + 1) /\ Below(fifo, sent + 1)
  BY DEF InOrder, DataInOrder
<1>4. PICK b \in Nat : b = sent + 1 /\ b <= b + 1 /\ b + 1 \in Nat /\ b < b + 1
  BY <1>1
<1>5. Below(rx, b + 1) /\ Below(fifo, b + 1)
  BY <1>1, <1>3, <1>4, BoundGrows DEF DataBefore
<1>6. client.last < b + 1
  BY <1>1, <1>3, <1>4 DEF DataBefore
<1>7. DataInOrder'
  BY <1>1, <1>4, <1>5, <1>6, Zenon DEF InOrder, DataInOrder, DataBefore
<1>8. RequestInOrder'
  BY <1>1, <1>2, <1>3, <1>4, Zenon DEF RequestInOrder, DataBefore
<1>9. ChangesInOrder'
  BY <1>1 DEF InOrder, ChangesInOrder, DataBefore
<1>10. QED
  BY <1>7, <1>8, <1>9 DEF InOrder

\* A flagged packet is read only when it is older than the request, if there is one,
\* and no line change waits; then all that is received then is in order.
LEMMA ReadingKeepsOrder ==
    ASSUME TypeOK, InOrder, NEW d \in Collected, SignalRxAvailable(d), rxrdy,
           UNCHANGED <<ep0, want, sent>>, ~rxIntr',
           ep0 # << >> => Below(fifo, ep0[1].id),
           \A k \in LineKinds : ~(want[k] > d.done[k])
    PROVE  InOrder'
<1>1. \A b : Below(fifo, b) /\ DataBefore(b) => Below(fifo', b) /\ Below(rx', b) /\ client'.last < b
  BY SignalFacts DEF DataBefore
<1>2. /\ done' = d.done
      /\ "PACKET_RX" \in cdc'.usDeferredOpFlags => rxrdy'
  BY SignalFacts
<1>3. DataInOrder'
  <2>1. Below(fifo, sent + 1) /\ DataBefore(sent + 1)
    BY DEF InOrder, DataInOrder
  <2>2. Below(fifo', sent + 1) /\ Below(rx', sent + 1) /\ client'.last < sent + 1
    BY <1>1, <2>1
  <2>3. QED
    BY <1>2, <2>2, Zenon DEF DataInOrder, DataBefore
<1>4. RequestInOrder'
  <2>1. SUFFICES ASSUME ep0 # << >> PROVE RequestInOrder'
    BY DEF RequestInOrder
  <2>2. ep0[1].id < sent + 1 /\ DataBefore(ep0[1].id) /\ Below(fifo, ep0[1].id)
    BY <2>1 DEF InOrder, RequestInOrder
  <2>3. Below(fifo', ep0[1].id) /\ Below(rx', ep0[1].id) /\ client'.last < ep0[1].id
    BY <1>1, <2>2
  <2>4. QED
    BY <2>2, <2>3, Zenon DEF RequestInOrder, DataBefore
<1>5. ChangesInOrder'
  BY <1>2, Zenon DEF ChangesInOrder
<1>6. QED
  BY <1>3, <1>4, <1>5 DEF InOrder

\* The receive interrupt takes its turn only when the packet is older than the request.
LEMMA InterruptKeepsOrder ==
    ASSUME TypeOK, FifoOK, InOrder, ProcessDataFromHost
    PROVE  InOrder'
<1>1. ~rxIntr' /\ UNCHANGED <<ep0, want, sent, resets>>
  BY DEF ProcessDataFromHost
<1>2. ep0 # << >> /\ rxrdy => Below(fifo, ep0[1].id)
  <2>1. SUFFICES ASSUME ep0 # << >>, fifo # << >> PROVE ~Above(fifo, ep0[1].id)
    BY DEF FifoOK, InOrder, RequestInOrder
  <2>2. fifo[1] < ep0[1].id
    BY <2>1 DEF ProcessDataFromHost, EndpointTurn
  <2>3. 1 \in 1 .. Len(fifo) /\ fifo[1] \in Nat
    BY <2>1, EmptySeq, BoundsAssumption DEF TypeOK
  <2>4. ep0[1].id \in Nat
    BY <2>1, RequestType DEF Requests
  <2>5. PICK id \in Nat : id = ep0[1].id
    BY <2>4
  <2>6. QED
    BY <2>2, <2>3, <2>5 DEF Above
<1>3. PICK d : d = SetFlag(Now, "PACKET_RX")
  OBVIOUS
<1>4. /\ d \in Collected /\ d.done = done
      /\ d.cdc.bRxBlocked = cdc.bRxBlocked
      /\ d.cdc.usDeferredOpFlags = cdc.usDeferredOpFlags \cup {"PACKET_RX"}
  BY <1>3, NowFacts, SetFlagFacts, FlagsOfKinds
<1>5. CASE ~rxrdy
  <2>1. UNCHANGED <<cdc, rx, fifo, rxrdy, client, done>>
    BY <1>5 DEF ProcessDataFromHost
  <2>2. fifo = << >> /\ Len(fifo) = 0
    BY <1>5, EmptySeq DEF FifoOK
  <2>3. \A b : Below(fifo, b)
    BY <2>2 DEF Below
  <2>4. DataInOrder'
    BY <1>1, <2>1 DEF InOrder, DataInOrder, DataBefore
  <2>5. RequestInOrder'
    BY <1>1, <2>1, <2>3, Zenon DEF InOrder, RequestInOrder, DataBefore
  <2>6. ChangesInOrder'
    BY <1>1, <2>1 DEF InOrder, ChangesInOrder, DataBefore
  <2>7. QED
    BY <2>4, <2>5, <2>6 DEF InOrder
<1>6. CASE rxrdy /\ cdc.bRxBlocked
  <2>1. Apply(d, rx, 0) /\ UNCHANGED <<fifo, rxrdy>>
    BY <1>3, <1>6 DEF ProcessDataFromHost
  <2>2. cdc' = d.cdc /\ done' = done /\ rx' = rx /\ client'.last = client.last
    BY <1>4, <2>1, ApplyNothing
  <2>3. DataInOrder'
    BY <1>1, <1>6, <2>1, <2>2 DEF InOrder, DataInOrder, DataBefore
  <2>4. RequestInOrder'
    BY <1>1, <1>2, <1>6, <2>1, <2>2, Zenon DEF InOrder, RequestInOrder, DataBefore
  <2>5. ChangesInOrder'
    BY <1>1, <1>4, <1>6, <2>2 DEF InOrder, ChangesInOrder, DataBefore
  <2>6. QED
    BY <2>3, <2>4, <2>5 DEF InOrder
<1>7. CASE rxrdy /\ ~cdc.bRxBlocked
  <2>1. SignalRxAvailable(d)
    BY <1>3, <1>7 DEF ProcessDataFromHost
  <2>2. \A k \in LineKinds : ~(want[k] > d.done[k])
    BY <1>4, <1>7 DEF InOrder, ChangesInOrder
  <2>3. QED
    BY <1>1, <1>2, <1>4, <1>7, <2>1, <2>2, ReadingKeepsOrder
<1>8. QED
  BY <1>5, <1>6, <1>7

\* A change that has to wait blocks reception while only older data has been received.
LEMMA ChangeKeepsOrder ==
    ASSUME TypeOK, InOrder, NEW k \in Kinds, Changes(k)
    PROVE  InOrder'
<1>1. /\ UNCHANGED <<fifo, rxrdy, rxIntr, sent>> /\ ep0 # << >> /\ ep0' = << >>
      /\ want' = [want EXCEPT ![k] = ep0[1].id]
  BY DEF Changes, epVars
<1>2. /\ rx' = rx /\ client'.last = client.last
      /\ "PACKET_RX" \in cdc'.usDeferredOpFlags <=> "PACKET_RX" \in cdc.usDeferredOpFlags
      /\ \A j \in LineKinds \ {k} :
             /\ DeferFlag[j] \in cdc'.usDeferredOpFlags <=> DeferFlag[j] \in cdc.usDeferredOpFlags
             /\ done'[j] = done[j]
      /\ cdc.bRxBlocked => cdc'.bRxBlocked
      /\ (DeferFlag[k] \in cdc'.usDeferredOpFlags /\ cdc'.bRxBlocked) \/ done'[k] = ep0[1].id
  BY ChangesFacts
<1>3. DataInOrder'
  BY <1>1, <1>2 DEF InOrder, DataInOrder, DataBefore
<1>4. RequestInOrder'
  BY <1>1 DEF RequestInOrder
<1>5. ASSUME NEW j \in LineKinds, want'[j] > done'[j]
      PROVE  /\ Below(rx', want'[j]) /\ client'.last < want'[j]
            /\ DeferFlag[j] \in cdc'.usDeferredOpFlags /\ cdc'.bRxBlocked
  <2>1. want \in [Kinds -> 0 .. MaxSent] /\ j \in Kinds
    BY FlagsOfKinds DEF TypeOK
  <2>2. CASE j = k
    <3>1. want'[j] = ep0[1].id
      BY <1>1, <2>1, <2>2
    <3>2. ep0[1].id \in Nat
      BY <1>1, RequestType DEF Requests
    <3>3. done'[k] # ep0[1].id
      BY <1>5, <2>2, <3>1, <3>2
    <3>4. DataBefore(ep0[1].id)
      BY <1>1 DEF InOrder, RequestInOrder
    <3>5. QED
      BY <1>2, <2>2, <3>1, <3>3, <3>4 DEF DataBefore
  <2>3. CASE j # k
    <3>1. want'[j] = want[j] /\ done'[j] = done[j]
      BY <1>1, <1>2, <2>1, <2>3
    <3>2. DataBefore(want[j]) /\ DeferFlag[j] \in cdc.usDeferredOpFlags /\ cdc.bRxBlocked
      BY <1>5, <3>1 DEF InOrder, ChangesInOrder
    <3>3. QED
      BY <1>2, <2>3, <3>1, <3>2 DEF DataBefore
  <2>4. QED
    BY <2>2, <2>3
<1>6. ChangesInOrder'
  BY <1>5 DEF ChangesInOrder, DataBefore
<1>7. QED
  BY <1>3, <1>4, <1>6 DEF InOrder

\* The tick passes on all that waits before it lets a packet in.
LEMMA TickKeepsOrder ==
    ASSUME TypeOK, InOrder, CDCTickHandler
    PROVE  InOrder'
<1>1. UNCHANGED <<rxIntr, ep0, want, sent, resets>>
  BY DEF CDCTickHandler
<1>2. PICK d \in Collected :
          /\ "PACKET_RX" \in d.cdc.usDeferredOpFlags <=> "PACKET_RX" \in cdc.usDeferredOpFlags
          /\ rx = << >> =>
                 /\ ~d.cdc.bRxBlocked
                 /\ \A k \in LineKinds : d.done[k] = IF DeferFlag[k] \in cdc.usDeferredOpFlags
                                                     THEN want[k] ELSE done[k]
          /\ rx # << >> =>
                 /\ d.cdc.bRxBlocked = cdc.bRxBlocked /\ d.done = done
                 /\ \A k \in LineKinds : DeferFlag[k] \in d.cdc.usDeferredOpFlags
                                             <=> DeferFlag[k] \in cdc.usDeferredOpFlags
          /\ \/ /\ ~d.cdc.bRxBlocked /\ "PACKET_RX" \in d.cdc.usDeferredOpFlags
                /\ SignalRxAvailable(d)
             \/ Apply(d, rx, 0) /\ UNCHANGED <<fifo, rxrdy>>
  BY TickFacts
<1>3. \A k \in LineKinds : want[k] \in Nat
  BY FlagsOfKinds, BoundsAssumption DEF TypeOK
<1>4. ASSUME NEW k \in LineKinds, want[k] > d.done[k]
      PROVE  /\ rx # << >> /\ DataBefore(want[k])
             /\ DeferFlag[k] \in d.cdc.usDeferredOpFlags /\ d.cdc.bRxBlocked
  <2>1. CASE rx = << >>
    <3>1. d.done[k] = IF DeferFlag[k] \in cdc.usDeferredOpFlags THEN want[k] ELSE done[k]
      BY <1>2, <2>1
    <3>2. DeferFlag[k] \notin cdc.usDeferredOpFlags /\ d.done[k] = done[k]
      BY <1>3, <1>4, <3>1
    <3>3. QED
      BY <1>4, <3>2 DEF InOrder, ChangesInOrder
  <2>2. CASE rx # << >>
    BY <1>2, <1>4, <2>2 DEF InOrder, ChangesInOrder
  <2>3. QED
    BY <2>1, <2>2
<1>5. CASE ~d.cdc.bRxBlocked /\ "PACKET_RX" \in d.cdc.usDeferredOpFlags /\ SignalRxAvailable(d)
  <2>1. rxrdy /\ ~rxIntr
    BY <1>2, <1>5 DEF InOrder, DataInOrder
  <2>2. ep0 # << >> => Below(fifo, ep0[1].id)
    BY <2>1 DEF InOrder, RequestInOrder
  <2>3. \A k \in LineKinds : ~(want[k] > d.done[k])
    BY <1>4, <1>5
  <2>4. QED
    BY <1>1, <1>5, <2>1, <2>2, <2>3, ReadingKeepsOrder
<1>6. CASE Apply(d, rx, 0) /\ UNCHANGED <<fifo, rxrdy>>
  <2>1. cdc' = d.cdc /\ done' = d.done /\ rx' = rx /\ client'.last = client.last
    BY <1>6, ApplyNothing
  <2>2. DataInOrder'
    BY <1>1, <1>2, <1>6, <2>1 DEF InOrder, DataInOrder, DataBefore
  <2>3. RequestInOrder'
    BY <1>1, <1>6, <2>1 DEF InOrder, RequestInOrder, DataBefore
  <2>4. ChangesInOrder'
    BY <1>1, <1>4, <2>1 DEF ChangesInOrder, DataBefore
  <2>5. QED
    BY <2>2, <2>3, <2>4 DEF InOrder
<1>7. QED
  BY <1>2, <1>5, <1>6

\* The client moves data from the receive buffer to itself.
LEMMA ClientKeepsOrder ==
    ASSUME TypeOK, InOrder, ClientReads
    PROVE  InOrder'
<1>1. UNCHANGED <<fifo, rxrdy, rxIntr, ep0, want, sent, resets>>
  BY DEF ClientReads, epVars
<1>2. PICK n \in 1 .. Len(rx) : Apply(Now, rx, n)
  BY DEF ClientReads
<1>3. rx \in Seq(Bytes) /\ client \in ClientType /\ n \in 0 .. Len(rx)
  BY LenProperties DEF TypeOK, Bytes, ClientType
<1>4. /\ cdc' = cdc /\ done' = done
      /\ \A b : DataBefore(b) => Below(rx', b) /\ client'.last < b
  BY <1>2, <1>3, NowFacts, ApplyFacts DEF DataBefore
<1>5. DataInOrder'
  BY <1>1, <1>4, Zenon DEF InOrder, DataInOrder, DataBefore
<1>6. RequestInOrder'
  BY <1>1, <1>4, Zenon DEF InOrder, RequestInOrder, DataBefore
<1>7. ChangesInOrder'
  BY <1>1, <1>4, Zenon DEF InOrder, ChangesInOrder, DataBefore
<1>8. QED
  BY <1>5, <1>6, <1>7 DEF InOrder

Ordered == resets = 0 => InOrder

\* Before the first reset everything is in order: at the start ...
LEMMA InitOrdered == Init => Ordered
<1> SUFFICES ASSUME Init PROVE InOrder
  BY DEF Ordered
<1>1. Len(<< >>) = 0
  BY EmptySeq
<1>2. /\ Below(rx, 1) /\ Below(fifo, 1) /\ client.last < 1 /\ sent + 1 = 1
      /\ ep0 = << >> /\ cdc.usDeferredOpFlags = {}
      /\ \A k \in Kinds : want[k] = 0 /\ done[k] = 0
  BY <1>1 DEF Init, Below
<1>3. QED
  BY <1>2, FlagsOfKinds DEF InOrder, DataInOrder, RequestInOrder, ChangesInOrder, DataBefore

\* ... and after each step; every action is covered by one of the lemmas above.
LEMMA NextOrdered == TypeOK /\ FifoOK /\ Ordered /\ [Next]_vars => Ordered'
<1> SUFFICES ASSUME TypeOK, FifoOK, Ordered, [Next]_vars, resets' = 0 PROVE InOrder'
  BY DEF Ordered
<1>1. CASE HandleDisconnect \/ ResetAndReconfigure
  BY <1>1, BoundsAssumption DEF HandleDisconnect, ResetAndReconfigure, TypeOK
<1>2. CASE ~(HandleDisconnect \/ ResetAndReconfigure)
  <2>1. resets' = resets
    BY <1>2 DEF Next, vars, HostSendsPacket, HostSendsRequest, FramesComeOrGo, ClientReads,
                ProcessDataFromHost, HandleRequest, HandleSetLineCoding, HandleChange,
                HandleEP0Data, CDCTickHandler, HandleConfigChange
  <2>2. InOrder
    BY <2>1 DEF Ordered
  <2>3. CASE HandleSetLineCoding
    <3>1. /\ cdc'.usDeferredOpFlags = cdc.usDeferredOpFlags
          /\ cdc'.bRxBlocked = cdc.bRxBlocked /\ ep0' = << >>
          /\ UNCHANGED <<rx, fifo, rxrdy, rxIntr, client, want, done, sent>>
      BY <2>3 DEF HandleSetLineCoding, TypeOK, Instance, epVars
    <3>2. QED
      BY <2>2, <3>1 DEF InOrder, DataInOrder, RequestInOrder, ChangesInOrder, DataBefore
  <2>4. CASE HandleConfigChange
    <3>1. /\ cdc'.usDeferredOpFlags = cdc.usDeferredOpFlags
          /\ cdc'.bRxBlocked = cdc.bRxBlocked /\ rx' = << >>
          /\ UNCHANGED <<fifo, rxrdy, rxIntr, ep0, client, want, done, sent>>
      BY <2>4 DEF HandleConfigChange, TypeOK, Instance, epVars
    <3>2. \A b : Below(rx', b)
      BY <3>1, EmptySeq DEF Below
    <3>3. DataInOrder'
      BY <2>2, <3>1, <3>2, Zenon DEF InOrder, DataInOrder, DataBefore
    <3>4. RequestInOrder'
      BY <2>2, <3>1, <3>2, Zenon DEF InOrder, RequestInOrder, DataBefore
    <3>5. ChangesInOrder'
      BY <2>2, <3>1, <3>2, Zenon DEF InOrder, ChangesInOrder, DataBefore
    <3>6. QED
      BY <3>3, <3>4, <3>5 DEF InOrder
  <2>5. CASE FramesComeOrGo \/ UNCHANGED vars
    BY <2>2, <2>5 DEF FramesComeOrGo, vars, epVars, InOrder, DataInOrder, RequestInOrder, ChangesInOrder, DataBefore
  <2>6. CASE HandleRequest
    BY <2>2, <2>3, <2>6, HandlersChange, ChangeKeepsOrder
  <2>7. QED
    BY <1>2, <2>2, <2>4, <2>5, <2>6, PacketKeepsOrder, RequestKeepsOrder, ClientKeepsOrder,
       InterruptKeepsOrder, TickKeepsOrder DEF Next
<1>3. QED
  BY <1>1, <1>2

\* Whatever the host sends and in whichever order packets, requests and ticks come,
\* data that follows a line change does not reach the client before the change does.
THEOREM ControlKeepsItsPlace == Spec => []DataWaitsForControl
<1>1. Init => TypeOK /\ FifoOK /\ Ordered
  BY InitTypeOK, InitOrdered DEF Init, FifoOK
<1>2. TypeOK /\ FifoOK /\ Ordered /\ [Next]_vars => (TypeOK /\ FifoOK /\ Ordered)'
  BY NextTypeOK, NextFifoOK, NextOrdered
<1>3. Ordered => DataWaitsForControl
  BY DEF Ordered, InOrder, ChangesInOrder, DataBefore, Below, DataWaitsForControl, LineKinds
<1>4. QED
  BY <1>1, <1>2, <1>3, PTL DEF Spec
=============================================================================
