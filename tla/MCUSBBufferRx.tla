---------------------------- MODULE MCUSBBufferRx ----------------------------
(* Instances of USBBufferRx.  Each .cfg picks one of the interrupt sets. *)
EXTENDS USBBufferRx

\* The client runs in an interrupt handler of the same priority.
InterruptContext == {"idle"}

\* A main-loop client whose index update is not interrupted.
AtomicIndex == {"idle", "load", "add"}
=============================================================================
