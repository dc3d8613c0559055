--------------------------- MODULE MCUSBCDCNotify ----------------------------
(* Instances of USBCDCNotify: one error bit and two line bits. *)
EXTENDS USBCDCNotify

MCErrors == {"parity"}

MCLines == {"carrier", "ring"}
=============================================================================
