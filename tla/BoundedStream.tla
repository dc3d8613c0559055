---------------------------- MODULE BoundedStream ----------------------------
(***************************************************************************)
(* What a usblib ring buffer promises its two users: a first-in first-out  *)
(* stream that holds at most Capacity bytes.  A writer that overruns it    *)
(* loses the oldest bytes, never the order.                                *)
(***************************************************************************)
EXTENDS Integers, Sequences

CONSTANTS Capacity,            \* bytes the stream can hold
          Bytes                \* the values a byte can take

VARIABLE stream

\* The newest Capacity elements of s.
Newest(s) ==
    IF Len(s) <= Capacity THEN s ELSE SubSeq(s, Len(s) - Capacity + 1, Len(s))

StreamInit == stream = << >>

\* A writer appends some bytes; an overrun keeps the newest.
Put == \E n \in 1 .. (Capacity + 1) : \E s \in [1 .. n -> Bytes] :
           stream' = Newest(stream \o s)

\* A reader removes a prefix (all of it for a flush).
Get == \E n \in 1 .. Len(stream) :
           stream' = SubSeq(stream, n + 1, Len(stream))

StreamNext == Put \/ Get

StreamSpec == StreamInit /\ [][StreamNext]_stream
=============================================================================
