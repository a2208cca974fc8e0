--------------------------- MODULE MCRunLifecycle ---------------------------
(* Instances of RunLifecycle for the model checker. *)
EXTENDS RunLifecycleInv
=============================================================================
