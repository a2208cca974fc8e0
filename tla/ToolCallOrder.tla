---------------------------- MODULE ToolCallOrder ----------------------------
(***************************************************************************)
(* What the tool-calling loop promises about its tool calls, whatever      *)
(* happens to the goroutines that execute it: calls are executed in the    *)
(* order the model asked for them, each at most once, and a gated call     *)
(* only after it was approved.                                             *)
(***************************************************************************)
EXTENDS Integers

CONSTANTS Calls, Gated
VARIABLES executed, approved

Init ==
  /\ executed = [k \in 1..Calls |-> 0]
  /\ approved = {}

(* Skipped calls (rejected ones) leave gaps; the order is never reversed. *)
Execute(k) ==
  /\ \A j \in k..Calls : executed[j] = 0
  /\ k \in Gated => k \in approved
  /\ executed' = [executed EXCEPT ![k] = 1]
  /\ UNCHANGED approved

(* An approval always comes before the call it is for. *)
Approve(k) ==
  /\ executed[k] = 0
  /\ approved' = approved \cup {k}
  /\ UNCHANGED executed

Next == \E k \in 1..Calls : Execute(k) \/ Approve(k)

Spec == Init /\ [][Next]_<<executed, approved>>
=============================================================================
