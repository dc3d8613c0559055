------------------------------ MODULE MCCPSWIf -------------------------------
(* Instances of CPSWIf: three descriptors to send, two to receive, and one *)
(* pbuf of the pool beyond the ring.                                         *)
EXTENDS CPSWIf

MCPool == 1 .. 3
MCHeap == {8, 9}

\* An environment of the timings t, the engines that read ahead or not, and the traffic.
Of(t, aheads, frames, packets, lengths) ==
    [ahead : aheads, slow : t.slow, swift : t.swift,
     frames : {frames}, packets : {packets}, lengths : {lengths}]

AsDocumented == [slow |-> {FALSE}, swift |-> {FALSE}]
MaybeSlow == [slow |-> BOOLEAN, swift |-> {FALSE}]
Slow == [slow |-> {TRUE}, swift |-> {FALSE}]
Swift == [slow |-> {FALSE}, swift |-> {TRUE}]

\* The stack sends packets of its own; it receives and keeps some; it receives and
\* may send one of the received pbufs back; it receives while it sends its own.
Sends == Of(MaybeSlow, BOOLEAN, FALSE, MCHeap, {1, 2})
Receives == Of(AsDocumented, BOOLEAN, TRUE, {}, {1})
Echoes == Of(AsDocumented, {FALSE}, TRUE, {1}, {1})
Both == Of(AsDocumented, {FALSE}, TRUE, {9}, {2})

MCEnvironments == Sends \cup Receives \cup Echoes \cup Both

ReceivesOnly == Of(AsDocumented, {FALSE}, TRUE, {}, {1})
SlowSends == Of(Slow, {FALSE}, FALSE, MCHeap, {1, 2})
SwiftReceives == Of(Swift, {FALSE}, TRUE, {}, {1})
=============================================================================
