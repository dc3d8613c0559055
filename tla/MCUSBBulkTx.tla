----------------------------- MODULE MCUSBBulkTx -----------------------------
(* Instances of USBBulkTx.  Each .cfg picks one of the interrupt sets. *)
EXTENDS USBBulkTx

\* The client is itself an interrupt handler of the same priority.
InterruptContext == {"idle"}

\* A main-loop client whose index updates are not interrupted.
AtomicIndex == ClientSteps \ Wrapping

\* A main-loop client whose UpdateIndexAtomic can be interrupted, as it is built.
SplitUpdate == ClientSteps \ {"correct"}
=============================================================================
