------------------------------ MODULE MCServices ------------------------------
(* Evaluations, the resources of a run, the editing of agents, MCP servers, and  *)
(* the git work of the runner's sessions: parts with a state of their own.       *)
(* `part` says which one moves, the others stay at their first state.            *)
EXTENDS Evals, Resources, AgentBuilder, McpServers, SessionWork, TLC
VARIABLE part

\* Three cases; two cases and an act; a save and an act; two evaluations and two saves.
MCStarts == {[cases |-> {1, 2, 3}, used |-> 1, agent |-> 2, acts |-> 1],
             [cases |-> {1, 2}, used |-> 1, agent |-> 2, acts |-> 0],
             [cases |-> {1}, used |-> 1, agent |-> 1, acts |-> 0],
             [cases |-> {1}, used |-> 0, agent |-> 0, acts |-> 1]}

Made(r) == [at |-> "there", src |-> r, eph |-> TRUE]
Agent == NewRun("agent", 0, "none", 0)
\* An agent that builds; a sub-agent that builds; a user's workflow; a parked run.
MCResources ==
  {[runs |-> (1 :> Agent), rows |-> ("a" :> Made(1)) @@ ("t" :> Made(1)), uses |-> {}, acts |-> 1],
   [runs |-> (1 :> Agent) @@ (2 :> NewRun("call", 1, "none", 1)),
    rows |-> ("a" :> Made(1)) @@ ("w" :> Made(2)), uses |-> {"a"}, acts |-> 1],
   [runs |-> (1 :> NewRun("flow", 0, "w", 0)),
    rows |-> ("w" :> [Made(0) EXCEPT !.eph = FALSE]) @@ ("a" :> [Made(0) EXCEPT !.eph = FALSE])
             @@ ("b" :> [Made(0) EXCEPT !.eph = FALSE]),
    uses |-> {"a", "b"}, acts |-> 1],
   [runs |-> (1 :> [Agent EXCEPT !.status = "parked"]), rows |-> ("s" :> Made(1)), uses |-> {}, acts |-> 1]}
MCKindOf == "a" :> "agent" @@ "b" :> "agent" @@ "s" :> "skill" @@ "t" :> "tool" @@ "w" :> "workflow"

\* Three jobs at a time: callers and a page; callers alone; two syncs and an edit; ...
MCJobs == {<<"call", "test", "sync">>, <<"start", "callback", "call">>, <<"call", "call", "start">>,
           <<"sync", "risk", "delete">>, <<"sync", "sync", "risk">>, <<"sync", "sync", "delete">>}

\* A retry overwrites the branch of the session before it; a review beside a session.
MCWork == {{1, 2}, {1, 3}}

Init ==
  /\ EvalsInit /\ ResourcesInit /\ BuilderInit /\ McpInit /\ SessionWorkInit
  /\ part \in {"evals", "resources", "builder", "mcp", "work"}
  /\ part = "evals" \/ cases = {1, 2}
  /\ part = "resources" \/ tree[1].kind = "flow"
  /\ part = "builder" \/ agentRow.there
  /\ part = "work" \/ work[3].at = "over"
  /\ part = "mcp" \/ (/\ server.auth = "config" /\ server.transport = "http" /\ job[1].kind = "call" /\ job[2].kind = "test"
                     /\ \A n \in Offered : mirror[n].of = "none")

Next ==
  \/ part = "evals" /\ EvalsNext /\ UNCHANGED <<part, resourcesVars, builderVars, mcpVars, workVars>>
  \/ part = "resources" /\ ResourcesNext /\ UNCHANGED <<part, evalsVars, builderVars, mcpVars, workVars>>
  \/ part = "builder" /\ BuilderNext /\ UNCHANGED <<part, evalsVars, resourcesVars, mcpVars, workVars>>
  \/ part = "mcp" /\ McpNext /\ UNCHANGED <<part, evalsVars, resourcesVars, builderVars, workVars>>
  \/ part = "work" /\ SessionWorkNext /\ UNCHANGED <<part, evalsVars, resourcesVars, builderVars, mcpVars>>

vars == <<part, evalsVars, resourcesVars, builderVars, mcpVars, workVars>>
\* EvalsFairness, for the part that moves.
FairSpec ==
  /\ Init /\ [][Next]_vars
  /\ WF_evalsVars(part = "evals" /\ \E e \in Evals : Advance(e))

\* Every variable of each part keeps its shape.
TypeOK == EvalsTypeOK /\ ResourcesTypeOK /\ BuilderTypeOK /\ McpTypeOK /\ SessionWorkTypeOK
===============================================================================
