---------------------------- MODULE MCL4Workflow ----------------------------
(* Fault sets for L4Workflow. *)
EXTENDS L4Workflow

MCAllFaults == FaultKinds
MCTraceFault == {"trace"}
MCCallbackAndCrash == {"callback", "crash"}

=============================================================================
