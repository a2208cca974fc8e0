---------------------------- MODULE MCSessionWait ----------------------------
(* Instances of SessionWait for the model checker: run 1 asks for the same *)
(* session twice, as an agent does that retries after a crash; run 2 is a  *)
(* child run that asks for it once.                                        *)
EXTENDS SessionWait

MCRuns == {1, 2}
MCPlan == <<<<"code", "code">>, <<"code">>>>
=============================================================================
