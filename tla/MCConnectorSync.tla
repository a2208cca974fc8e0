--------------------------- MODULE MCConnectorSync ---------------------------
(* Instances of ConnectorSync for the model checker. *)
EXTENDS ConnectorSync
=============================================================================
