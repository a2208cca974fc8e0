----------------------------- MODULE Resources -----------------------------
(* What agents build while they run: agents, skills, tools and workflows with  *)
(* the run that made them and a flag, ephemeral; the tree of runs that native   *)
(* tools grow (sub-agents, workflows, the nodes of a workflow); and the         *)
(* clean-up at the end of a run, which deletes the ephemeral rows of the run    *)
(* and of its descendants.  Source: tools/native, handler/invoke.go.            *)
EXTENDS Naturals, FiniteSets, Sequences

CONSTANTS
  Runs,         \* runs, numbered in the order of their creation
  Ids,          \* rows of agents, skills, tools and workflows
  KindOf,       \* the table an id belongs to
  MaxDepth,     \* maxInvokeDepth: how deep agents may call agents
  ResourceStarts,       \* to begin with: [runs, rows, uses, acts]
  MaxMoves       \* bound: creations, promotions, deletions, disturbances

Kinds == {"workflow", "agent", "skill", "tool"}
NoResource == [at |-> "unused", src |-> 0, eph |-> FALSE]
NoRun == [kind |-> "none", parent |-> 0, of |-> "none", depth |-> 0, status |-> "none"]
NewRun(k, p, o, d) == [kind |-> k, parent |-> p, of |-> o, depth |-> d, status |-> "running"]
Of(k) == {x \in Ids : KindOf[x] = k}

\* Users' and triggers' runs, under way or parked, and the sub-agents that they are calling;
\* whoever made what is there is among them.
Starting(s) ==
  LET run == s.runs
      There0 == DOMAIN run
  IN  /\ There0 \subseteq Runs /\ \A r \in There0, q \in Runs : q < r => q \in There0
      /\ \A r \in There0 :
           \/ run[r] = NewRun("agent", 0, "none", 0)
           \/ run[r] = [NewRun("agent", 0, "none", 0) EXCEPT !.status = "parked"]
           \/ \E w \in Of("workflow") : run[r] = NewRun("flow", 0, w, 0)
           \/ \E p \in There0 : /\ p < r /\ run[p].kind \in {"agent", "call"} /\ run[p].status = "running"
                                 /\ run[p].depth \in 0..(MaxDepth - 1) /\ run[r] = NewRun("call", p, "none", run[p].depth + 1)
      /\ DOMAIN s.rows \subseteq Ids
      /\ \A x \in DOMAIN s.rows : \E src \in There0 \cup {0}, eph \in BOOLEAN :
           /\ s.rows[x] = [at |-> "there", src |-> src, eph |-> eph]
           /\ src # 0 => run[src].kind # "flow"
      /\ s.uses \subseteq Of("agent") /\ s.acts \in 0..MaxMoves

ASSUME ResourcesAssumption ==
  /\ "none" \notin Ids
  /\ Runs \subseteq Nat \ {0} /\ KindOf \in [Ids -> Kinds] /\ MaxDepth \in Nat /\ MaxMoves \in Nat
  /\ \A s \in ResourceStarts : DOMAIN s = {"runs", "rows", "uses", "acts"} /\ Starting(s)

VARIABLES
  resource,        \* [at, src, eph]: unused, there or gone; source_run_id; ephemeral
  uses,       \* the agents in the nodes of a workflow
  tree,        \* rows of runs
  loop,         \* each run's goroutine: off, work (agents), load and walk (workflows), clean
  stage,      \* how many statements of the clean-up are done
  nodes,      \* agents of nodes a walk has still to start
  waits,      \* sub-runs a run is waiting for
  moves,
  detached,   \* history: runs nobody waits for, although they may still go on
  stranded,       \* history: runs that will never get to their clean-up
  deleted,    \* history: rows deleted by an explicit call
  kept        \* history: rows a tool call has reported as permanent

treeVars == <<tree, loop, stage, nodes, waits>>
resourceRows == <<resource, uses>>
resourceHist == <<detached, stranded, deleted, kept>>
resourcesVars == <<resourceRows, treeVars, moves, resourceHist>>

ResourcesInit ==
  /\ \E s \in ResourceStarts :
       /\ tree = [r \in Runs |-> IF r \in DOMAIN s.runs THEN s.runs[r] ELSE NoRun]
       /\ resource = [x \in Ids |-> IF x \in DOMAIN s.rows THEN s.rows[x] ELSE NoResource]
       /\ uses = [w \in Of("workflow") |-> s.uses] /\ moves = s.acts
  /\ loop = [r \in Runs |-> CASE tree[r].kind = "none" -> "off" [] tree[r].kind = "flow" -> "load"
                            [] tree[r].status = "parked" -> "off" [] OTHER -> "work"]
  /\ stage = [r \in Runs |-> 0] /\ nodes = [r \in Runs |-> {}]
  /\ waits = [r \in Runs |-> {c \in Runs : tree[c].parent = r /\ tree[c].kind # "node"}]
  /\ detached = {r \in Runs : tree[r].status = "parked"}
  /\ stranded = {} /\ deleted = {} /\ kept = {}

There(x) == resource[x].at = "there"
Move == moves < MaxMoves /\ moves' = moves + 1
Fresh(r) == tree[r].kind = "none" /\ \A q \in Runs : q < r => tree[q].kind # "none"
\* the run's loop is about to execute a tool call
Works(r) == loop[r] = "work" /\ waits[r] = {}

\* r and the runs above it: the least set with r that holds the parents of its members.
Upward(up) == \A q \in up : tree[q].parent # 0 => tree[q].parent \in up
Ancestors(r) == {q \in Runs : \A up \in SUBSET Runs : r \in up /\ Upward(up) => q \in up}
Tree(r) == {q \in Runs : r \in Ancestors(q)}

(* ------------------------- Faulty variants ------------------------------- *)
(* Plausible bugs, each a variant of one definition below.                     *)

\* the clean-up runs at the end of sub-agents' runs, too
EveryRun(r) == TRUE

(* --------------------- Native tools: resources --------------------------- *)

InsertResource(x, r, eph) ==
  /\ Works(r) /\ Move /\ resource[x].at = "unused"
  /\ resource' = [resource EXCEPT ![x] = [at |-> "there", src |-> r, eph |-> eph]]
  /\ kept' = IF eph THEN kept ELSE kept \cup {x}
  /\ UNCHANGED <<treeVars, detached, stranded, deleted>>

CreateAgent(r, x, eph) == KindOf[x] = "agent" /\ InsertResource(x, r, eph) /\ UNCHANGED uses
CreateSkill(r, x, eph) == KindOf[x] = "skill" /\ InsertResource(x, r, eph) /\ UNCHANGED uses

\* Names of tools are unique; all tools here have one name.
Taken == {x \in Of("tool") : There(x)}

CreateHttpTool(r, x, eph) == KindOf[x] = "tool" /\ Taken = {} /\ InsertResource(x, r, eph) /\ UNCHANGED uses

\* A code tool whose name is taken: the tool there is attached, whoever made it, and the
\* answer repeats the flag that was asked for.
AttachExisting(r, eph) ==
  /\ Works(r) /\ Move /\ Taken # {}
  /\ kept' = IF eph THEN kept ELSE kept \cup Taken
  /\ UNCHANGED <<resourceRows, treeVars, detached, stranded, deleted>>

CreateCodeTool(r, x, eph) ==
  \/ KindOf[x] = "tool" /\ Taken = {} /\ InsertResource(x, r, eph) /\ UNCHANGED uses
  \/ x \in Taken /\ AttachExisting(r, eph)

\* A node for every agent that was asked for and is there: errors are ignored.
CreateWorkflow(r, x, eph) ==
  /\ KindOf[x] = "workflow" /\ InsertResource(x, r, eph)
  /\ \E asked \in SUBSET Of("agent") \ {{}} :
       uses' = [uses EXCEPT ![x] = {a \in asked : There(a)}]

Promote(r, x) ==
  /\ Works(r) /\ Move /\ There(x)
  /\ resource' = [resource EXCEPT ![x].eph = FALSE]
  /\ kept' = kept \cup {x}
  /\ UNCHANGED <<uses, treeVars, detached, stranded, deleted>>

\* A deleted agent disappears from the nodes it is in.
Remove(X) ==
  /\ resource' = [x \in Ids |-> IF x \in X THEN [resource[x] EXCEPT !.at = "gone"] ELSE resource[x]]
  /\ uses' = [w \in DOMAIN uses |-> uses[w] \ X]

DeleteRow(r, x) ==
  /\ Works(r) /\ Move /\ There(x) /\ resource[x].src = r
  /\ Remove({x})
  /\ deleted' = deleted \cup {x}
  /\ UNCHANGED <<treeVars, detached, stranded, kept>>

DeleteAgent(r, x) == KindOf[x] = "agent" /\ DeleteRow(r, x)
DeleteSkill(r, x) == KindOf[x] = "skill" /\ DeleteRow(r, x)
DeleteTool(r, x) == KindOf[x] = "tool" /\ DeleteRow(r, x)
DeleteWorkflow(r, x) == KindOf[x] = "workflow" /\ DeleteRow(r, x)

(* ------------------------ The tree of runs ------------------------------- *)

Begin(r, new, at) ==
  /\ Fresh(r)
  /\ tree' = [tree EXCEPT ![r] = new]
  /\ loop' = [loop EXCEPT ![r] = at]

Invoke(r) ==   \* a user, a trigger or a channel starts an agent
  /\ Begin(r, NewRun("agent", 0, "none", 0), "work") /\ Move
  /\ UNCHANGED <<resourceRows, stage, nodes, waits, resourceHist>>

\* native_call_agent, alone or several at a time; the caller waits for all of them.
CallAgent(r, c) ==
  /\ loop[r] = "work" /\ \A w \in waits[r] : tree[w].kind = "call"
  /\ tree[r].depth < MaxDepth
  /\ Begin(c, NewRun("call", r, "none", tree[r].depth + 1), "work")
  /\ waits' = [waits EXCEPT ![r] = @ \cup {c}]
  /\ UNCHANGED <<resourceRows, stage, nodes, moves, resourceHist>>

RunWorkflow(r, f, w) ==
  /\ Works(r) /\ There(w)
  /\ Begin(f, NewRun("flow", r, w, 0), "load")
  /\ waits' = [waits EXCEPT ![r] = {f}]
  /\ UNCHANGED <<resourceRows, stage, nodes, moves, resourceHist>>

\* A sub-agent's goroutine is the caller's; a workflow is over when its row says so.
Over(c) == IF tree[c].kind = "call" THEN loop[c] = "off" ELSE tree[c].status # "running"

Return(r) ==
  /\ loop[r] = "work" /\ waits[r] # {} /\ \A c \in waits[r] : Over(c)
  /\ waits' = [waits EXCEPT ![r] = {}]
  /\ UNCHANGED <<resourceRows, tree, loop, stage, nodes, moves, resourceHist>>

\* 15 minutes have gone by, or the caller has been cancelled.
StopPolling(r) ==
  /\ loop[r] = "work" /\ \E f \in waits[r] : tree[f].kind = "flow" /\ detached' = detached \cup {f}
  /\ Move
  /\ waits' = [waits EXCEPT ![r] = {}]
  /\ UNCHANGED <<resourceRows, tree, loop, stage, nodes, stranded, deleted, kept>>

CleansUp(r) == tree[r].kind # "call"   \* invokeDepth = 0

\* The loop ends: an answer, an error, a cancellation.  Deferred: status, clean-up.
EndLoop(r) ==
  /\ Works(r)
  /\ tree' = [tree EXCEPT ![r].status = "ended"]
  /\ loop' = [loop EXCEPT ![r] = IF CleansUp(r) THEN "clean" ELSE "off"]
  /\ UNCHANGED <<resourceRows, stage, nodes, waits, moves, resourceHist>>

\* Waiting for an approval or a session with its state saved; a node's walk goes on.
Park(r) ==
  /\ Works(r) /\ tree[r].depth = 0 /\ Move
  /\ tree' = [tree EXCEPT ![r].status = "parked"]
  /\ loop' = [loop EXCEPT ![r] = "off"]
  /\ detached' = detached \cup {r}
  /\ UNCHANGED <<resourceRows, stage, nodes, waits, stranded, deleted, kept>>

Resume(r) ==
  /\ tree[r].status = "parked"
  /\ tree' = [tree EXCEPT ![r].status = "running"]
  /\ loop' = [loop EXCEPT ![r] = "work"]
  /\ UNCHANGED <<resourceRows, stage, nodes, waits, moves, resourceHist>>

\* There is no goroutine whose deferred calls could clean up.
CancelParked(r) ==
  /\ tree[r].status = "parked" /\ Move
  /\ tree' = [tree EXCEPT ![r].status = "ended"]
  /\ stranded' = stranded \cup {r}
  /\ UNCHANGED <<resourceRows, loop, stage, nodes, waits, detached, deleted, kept>>

(* ------------------------ A workflow's walk ------------------------------ *)

\* A graph without nodes fails the run.
LoadGraph(f) ==
  /\ loop[f] = "load"
  /\ LET w == tree[f].of
         there == There(w) /\ uses[w] # {}
     IN  /\ nodes' = [nodes EXCEPT ![f] = IF there THEN uses[w] ELSE {}]
         /\ tree' = [tree EXCEPT ![f].status = IF ~there /\ @ = "running" THEN "failed" ELSE @]
  /\ loop' = [loop EXCEPT ![f] = "walk"]
  /\ UNCHANGED <<resourceRows, stage, waits, moves, resourceHist>>

\* Nodes of parallel branches run side by side; a node without its agent is passed over.
StartNode(f, n, a) ==
  /\ loop[f] = "walk" /\ a \in nodes[f] /\ tree[f].status # "cancelled"
  /\ nodes' = [nodes EXCEPT ![f] = @ \ {a}]
  /\ IF There(a) THEN Begin(n, NewRun("node", f, a, 0), "work") ELSE Fresh(n) /\ UNCHANGED <<tree, loop>>
  /\ UNCHANGED <<resourceRows, stage, waits, moves, resourceHist>>

NodesOf(f) == {n \in Runs : tree[n].kind = "node" /\ tree[n].parent = f}

\* A failed node fails the workflow at once; other branches are still on their way.
FailWalk(f) ==
  /\ loop[f] = "walk" /\ tree[f].status = "running" /\ \E n \in NodesOf(f) : tree[n].status = "ended"
  /\ Move
  /\ tree' = [tree EXCEPT ![f].status = "failed"]
  /\ detached' = detached \cup {f}
  /\ UNCHANGED <<resourceRows, loop, stage, nodes, waits, stranded, deleted, kept>>

CancelFlow(f) ==
  /\ tree[f].kind = "flow" /\ tree[f].status = "running" /\ Move
  /\ tree' = [tree EXCEPT ![f].status = "cancelled"]
  /\ detached' = detached \cup {f}
  /\ UNCHANGED <<resourceRows, loop, stage, nodes, waits, stranded, deleted, kept>>

AllReturned(f) == \A n \in NodesOf(f) : loop[n] = "off"

EndWalk(f) ==
  /\ loop[f] = "walk" /\ AllReturned(f)
  /\ nodes[f] = {} \/ tree[f].status = "cancelled"
  /\ tree' = [tree EXCEPT ![f].status = IF @ = "running" THEN "ended" ELSE @]
  /\ nodes' = [nodes EXCEPT ![f] = {}]
  /\ loop' = [loop EXCEPT ![f] = "clean"]
  /\ UNCHANGED <<resourceRows, stage, waits, moves, resourceHist>>

(* --------------------------- The clean-up -------------------------------- *)

Order == <<"workflow", "agent", "skill", "tool">>
RunTree(r) == Tree(r)   \* the recursive query

\* One DELETE per table; its condition is evaluated when it runs.
Clean(r) ==
  /\ loop[r] = "clean"
  /\ LET below == RunTree(r)
     IN  Remove({x \in Of(Order[stage[r] + 1]) : There(x) /\ resource[x].eph /\ resource[x].src \in below})
  /\ stage' = [stage EXCEPT ![r] = IF @ + 1 = Len(Order) THEN 0 ELSE @ + 1]
  /\ loop' = [loop EXCEPT ![r] = IF stage[r] + 1 = Len(Order) THEN "off" ELSE @]
  /\ UNCHANGED <<tree, nodes, waits, moves, resourceHist>>

(* Goroutines die.  Runs that were parked stay so; workflows that users had     *)
(* started and that had got past a node are walked again; all others fail.       *)
ResourcesCrash ==
  /\ Move
  /\ \E again \in SUBSET {f \in Runs : /\ tree[f].kind = "flow" /\ tree[f].parent = 0
                                       /\ tree[f].status = "running"
                                       /\ \E n \in NodesOf(f) : loop[n] = "off"} :
       /\ loop' = [r \in Runs |-> IF r \in again THEN "load" ELSE "off"]
       /\ tree' = [r \in Runs |-> IF r \in again \/ tree[r].status # "running" THEN tree[r]
                                 ELSE [tree[r] EXCEPT !.status = "failed"]]
       /\ stranded' = stranded \cup {r \in Runs : loop[r] # "off" /\ r \notin again}
  /\ stage' = [r \in Runs |-> 0] /\ nodes' = [r \in Runs |-> {}] /\ waits' = [r \in Runs |-> {}]
  /\ UNCHANGED <<resourceRows, detached, deleted, kept>>

Tools(r) ==
  /\ loop[r] = "work"
  /\ \/ \E x \in Ids, eph \in BOOLEAN :
          \/ CreateAgent(r, x, eph) \/ CreateSkill(r, x, eph) \/ CreateHttpTool(r, x, eph)
          \/ CreateCodeTool(r, x, eph) \/ CreateWorkflow(r, x, eph)
     \/ \E x \in Ids : \/ Promote(r, x) \/ DeleteAgent(r, x) \/ DeleteSkill(r, x) \/ DeleteTool(r, x)
                      \/ DeleteWorkflow(r, x)
     \/ \E c \in Runs : CallAgent(r, c) \/ \E w \in Of("workflow") : RunWorkflow(r, c, w)

Walk(f) ==
  \/ LoadGraph(f) \/ FailWalk(f) \/ EndWalk(f)
  \/ \E n \in Runs, a \in nodes[f] : StartNode(f, n, a)

Loop(r) == Return(r) \/ EndLoop(r) \/ Clean(r) \/ Park(r) \/ Resume(r)

ResourcesNext ==
  \/ \E r \in Runs : Tools(r) \/ Walk(r) \/ Loop(r) \/ Invoke(r)
                     \/ StopPolling(r) \/ CancelParked(r) \/ CancelFlow(r)
  \/ ResourcesCrash

ResourcesSpec == ResourcesInit /\ [][ResourcesNext]_resourcesVars

(* ----------------------------- Properties -------------------------------- *)

\* Every variable keeps its shape.
ResourcesTypeOK ==
  /\ resource \in [Ids -> [at : {"unused", "there", "gone"}, src : Runs \cup {0}, eph : BOOLEAN]]
  /\ uses \in [Of("workflow") -> SUBSET Of("agent")]
  /\ tree \in [Runs -> [kind : {"none", "agent", "call", "flow", "node"}, parent : Runs \cup {0},
                       of : Ids \cup {"none"}, depth : 0..MaxDepth,
                       status : {"none", "running", "parked", "ended", "failed", "cancelled"}]]
  /\ loop \in [Runs -> {"off", "work", "load", "walk", "clean"}]
  /\ stage \in [Runs -> 0..(Len(Order) - 1)] /\ nodes \in [Runs -> SUBSET Of("agent")]
  /\ waits \in [Runs -> SUBSET Runs] /\ moves \in 0..MaxMoves
  /\ detached \subseteq Runs /\ stranded \subseteq Runs /\ deleted \subseteq Ids /\ kept \subseteq Ids

\* The run whose end is the first to delete what r makes.
Janitor(r) == CHOOSE j \in Ancestors(r) :
                /\ tree[j].kind # "call"
                /\ \A q \in Ancestors(r) : tree[q].kind # "call" => q <= j
StillToClean(j, k) ==
  \/ tree[j].status = "parked" \/ loop[j] \in {"work", "load", "walk"}
  \/ loop[j] = "clean" /\ \E i \in 1..Len(Order) : i > stage[j] /\ Order[i] = k

\* An ephemeral resource is not left behind: some run above its maker, or its maker, has
\* its clean-up still before it, unless that run died with the process or was cancelled
\* while it was parked (the deferred calls of executeRun and executeGroupRun).
NothingLeftBehind ==
  \A x \in Ids : There(x) /\ resource[x].eph /\ resource[x].src # 0 =>
    \E j \in Ancestors(resource[x].src) : StillToClean(j, KindOf[x]) \/ j \in stranded

\* Nobody above u has stopped waiting for what it has started.
Attached(u) == \A q \in Ancestors(u) : q \notin detached /\ q \notin stranded

\* What a run has made stays, unless somebody deletes it, for as long as anything goes on
\* below the run that cleans up after it, a sub-agent, a workflow, a workflow's node,
\* provided that everybody waits for what he has started.
KeptForTheTree ==
  \A x \in Ids : resource[x].at = "gone" /\ x \notin deleted /\ resource[x].src # 0 =>
    LET j == Janitor(resource[x].src)
    IN  loop[j] \in {"work", "walk"} =>
          ~ \E u \in Runs : loop[u] \in {"work", "walk"} /\ j \in Ancestors(u) /\ Attached(u)

\* What a tree of runs has made for itself goes at its end, neither before nor not at all.
CleanedWithTheTree == NothingLeftBehind /\ KeptForTheTree

\* A resource that was asked for with ephemeral=false, or promoted, stays until somebody
\* deletes it ("auto-delete when this run ends unless ephemeral=false is explicitly
\* provided", the description of native_create_code_tool).
KeptAsAsked == \A x \in kept : There(x) \/ x \in deleted
============================================================================
