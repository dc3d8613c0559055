--------------------------- MODULE MCUSBCDCSerial ----------------------------
(* Instances of USBCDCSerial.  A duration of 0 is the host's "stop break". *)
EXTENDS USBCDCSerial

MCDurations == {0, 1, 2}
=============================================================================
