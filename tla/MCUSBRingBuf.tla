---------------------------- MODULE MCUSBRingBuf -----------------------------
(* USBRingBuf with a ring of four slots and two byte values. *)
EXTENDS USBRingBuf

MCBytes == {0, 1}
=============================================================================
