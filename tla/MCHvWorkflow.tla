---------------------------- MODULE MCHvWorkflow ----------------------------
(* One workflow thread, which may be launched again and again, on one BMS  *)
(* and one PCS.  Several threads are the business of the proofs and of     *)
(* HvRegistry.                                                             *)
EXTENDS HvWorkflow

CONSTANT w1
MCWorkers == {w1}
=============================================================================
