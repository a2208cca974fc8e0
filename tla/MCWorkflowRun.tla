---------------------------- MODULE MCWorkflowRun ----------------------------
(* Graphs for the model checker: a parallel section with a webhook, and a  *)
(* supervisor; a loop and a condition; a condition that leads back; ways   *)
(* that meet again; a section inside a section.                            *)
EXTENDS WorkflowRun

To(a, b) == [from |-> a, to |-> b, label |-> "*"]
By(a, l, b) == [from |-> a, to |-> b, label |-> l]

(* 1 start, 2 parallel, 3 agent, 4 webhook, 5 join, 6 supervisor, 7 end *)
Diamond ==
  [kind |-> <<"start", "parallel", "agent", "webhook", "join", "supervisor", "end", "agentless">>,
   edges |-> <<To(1, 2), To(2, 3), To(2, 4), To(3, 5), To(4, 5), To(5, 6), By(6, "delegate", 3), To(6, 7), To(6, 8)>>]

(* 1 start, 2 agent, 3 loop back to 2, 4 condition, 5 gateway, 6 end *)
Cycle ==
  [kind |-> <<"start", "agent", "loop", "condition", "gateway", "tool">>,
   edges |-> <<To(1, 2), To(2, 3), By(3, "loop", 2), By(3, "exit", 4), By(4, "yes", 5), By(5, "*", 6)>>]

(* A condition that leads back to the agent: only the step limit ends it. *)
Circle ==
  [kind |-> <<"start", "agent", "condition", "end">>,
   edges |-> <<To(1, 2), To(2, 3), By(3, "yes", 2), By(3, "no", 4)>>]

(* 2 parallel to 3 parallel (4, 5 join at 6) and 7, both join at 8 *)
Nested ==
  [kind |-> <<"start", "parallel", "parallel", "agent", "agent", "join", "agent", "join", "webhook">>,
   edges |-> <<To(1, 2), To(2, 3), To(2, 7), To(3, 4), To(3, 5), To(4, 6), To(5, 6), To(6, 8), To(7, 8), To(8, 9)>>]

(* A condition whose ways meet again at the agent 5. *)
Meeting ==
  [kind |-> <<"start", "condition", "agent", "gateway", "agent", "end">>,
   edges |-> <<To(1, 2), By(2, "yes", 3), By(2, "no", 4), To(3, 5), To(4, 5), To(5, 6)>>]

(* A join that a section inside another one has for itself is queued by    *)
(* the outer section too, and leads to the outer join once more.           *)
ASSUME Shapes ==
  /\ Structured(Diamond) /\ Structured(Meeting) /\ \A g \in {Cycle, Circle, Nested} : ~Structured(g)
  /\ Required(Diamond) = {3, 6} /\ Required(Meeting) = {5}

MCGraphs == {Diamond, Cycle, Circle, Meeting}
MCNested == {Nested}
MCDiamond == {Diamond}
=============================================================================
