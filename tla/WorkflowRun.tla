------------------------------ MODULE WorkflowRun ------------------------------
(***************************************************************************)
(* A workflow run: executeGroupRun walks the graph, one goroutine per      *)
(* branch of a parallel section, checkpoints after every node, and is      *)
(* taken up from its checkpoint by RecoverInterruptedWorkflowRuns after    *)
(* the API process died.                                                   *)
(*                                                                         *)
(* What a node computes is left out: an output is there or not, a          *)
(* condition or a loop's exit condition holds or not.  An agent node's run *)
(* is a sub-run (modules RunLifecycle and SessionWait): it never parks,    *)
(* and ends.                                                               *)
(***************************************************************************)
EXTENDS WorkflowGraph, SequencesExt

CONSTANTS
  Graphs,      \* the workflows a run may be of
  MaxSteps,    \* maxTotalSteps, 100 in the code
  MaxLoop,     \* max_iterations of every loop node; a lower one acts as 1
  MaxFaults,   \* bound on cancels, disconnects and restarts
  Overlap      \* the run may be started between a boot and its recovery

ASSUME GraphsAssumption == \A g \in Graphs : IsGraph(g)
ASSUME BoundsAssumption == {MaxSteps, MaxFaults} \subseteq Nat /\ MaxLoop \in Nat \ {0}
ASSUME OverlapAssumption == Overlap \in BOOLEAN

VARIABLES
  (* PostgreSQL *)
  status,      \* runs.status of the workflow's run
  checkpoint,  \* workflow_checkpoints: the outputs and loop counts, or none
  sub,         \* runs.status of the newest sub-run of a node
  (* memory of the API process *)
  recovery,    \* how far the recovery after a boot is
  walk,        \* the walks of the run and what their branches share
  branch,      \* the branches of a walk: goroutines in walkBranch
  cancelling,  \* Cancel has written the status and not yet signalled
  (* fixed when the run is created *)
  graph, nested,
  (* history *)
  walks,       \* how many walks the run has had
  basis,       \* the nodes in the checkpoint a walk has started from
  taken,       \* the nodes a walk has come to
  fired,       \* how often a walk has executed a node
  finished,    \* the nodes a checkpoint has ever held
  faults,
  touched      \* somebody cancelled the run or a sub-run, or left

dbVars == <<status, checkpoint, sub>>
constVars == <<graph, nested>>
histVars == <<walks, basis, taken, fired, finished, touched>>
vars == <<dbVars, recovery, walk, branch, cancelling, constVars, histVars, faults>>

Walks == 1..(MaxFaults + 2)   \* one, and one per recovery
Nodes == DOMAIN graph.kind
Kind(n) == graph.kind[n]

NoCheckpoint == [out |-> {}, iter |-> <<>>]

Asleep == [at |-> "off", out |-> {}, cached |-> {}, iter |-> [n \in Nodes |-> 0],
           steps |-> 0, marked |-> FALSE, ctx |-> FALSE, client |-> FALSE]
NewBranch(n, stop) == [at |-> "head", queue |-> <<n>>, node |-> n, stop |-> stop, copy |-> NoCheckpoint]

FirstWalk(client) ==
  walk = [w \in Walks |-> IF w = 1 THEN [Asleep EXCEPT !.at = "new", !.client = client] ELSE Asleep]

(* Group streams to a client or not; runWorkflowInline is called by the    *)
(* run of an agent, and makes the workflow's run a child of it.            *)
Group == ~nested /\ \E client \in BOOLEAN : FirstWalk(client)
RunWorkflowInline == nested /\ FirstWalk(FALSE)

Init ==
  /\ graph \in Graphs /\ nested \in BOOLEAN
  /\ status = "running" /\ checkpoint = NoCheckpoint /\ sub = [n \in Nodes |-> "none"]
  /\ recovery \in IF Overlap THEN {"due"} ELSE {"idle"}
  /\ Group \/ RunWorkflowInline
  /\ branch = [w \in Walks |-> <<>>]
  /\ cancelling = FALSE
  /\ walks = 1 /\ basis = [w \in Walks |-> {}]
  /\ taken = [w \in Walks |-> {}] /\ fired = [w \in Walks |-> [n \in Nodes |-> 0]]
  /\ finished = {} /\ faults = 0 /\ touched = FALSE

Fault == faults < MaxFaults /\ faults' = faults + 1

With(f, x, value) == [y \in DOMAIN f \cup {x} |-> IF y = x THEN value ELSE f[y]]
Put(w, b, br) == branch' = [branch EXCEPT ![w] = With(@, b, br)]
EndBranch(w, b) == branch' = [branch EXCEPT ![w] = Restrict(@, DOMAIN @ \ {b})]
FailRun(s) == IF s = "cancelled" THEN s ELSE "failed"

-----------------------------------------------------------------------------
(* Faulty variants: bugs this code could plausibly have. *)

(* The parallel node does not wait for its branches. *)
WaitForNone(w, b) == TRUE

(* The walk marches on after a failed node. *)
MarchOn(o) == FALSE

(* The outputs of the checkpoint are not consulted. *)
NeverResumed(w, n) == FALSE

(* The recovery looks for workflow runs the boot sweep has failed. *)
FailedOnes == status = "failed" /\ ~nested

(* A loop goes round once more than its limit. *)
OneMoreRound(w, n) == walk[w].iter[n] >= MaxLoop

-----------------------------------------------------------------------------
(* The start of a walk *)

(* registerRunCancel; then the graph is loaded, or a statement fails. *)
LoadGraph(w) ==
  /\ walk[w].at = "new"
  /\ \/ /\ walk' = [walk EXCEPT ![w].at = "walking"]
        /\ Put(w, <<>>, NewBranch(Start(graph), {}))
        /\ UNCHANGED <<status, faults>>
     \/ /\ Fault
        /\ walk' = [walk EXCEPT ![w].at = "clean", ![w].marked = TRUE]
        /\ status' = FailRun(status)
        /\ UNCHANGED branch
  /\ UNCHANGED <<checkpoint, sub, recovery, cancelling, constVars, histVars>>

-----------------------------------------------------------------------------
(* walkBranch: the head of its loop *)

Exceeded(w) == walk[w].steps >= MaxSteps
HandedOff(w, b) == Head(branch[w][b].queue) \in branch[w][b].stop

At(w, b, where) == b \in DOMAIN branch[w] /\ branch[w][b].at = where

(* Nothing is left to do, here or, after a failure, in the whole walk. *)
BranchEnds(w, b) ==
  /\ At(w, b, "head")
  /\ branch[w][b].queue = <<>> \/ walk[w].marked
  /\ EndBranch(w, b)
  /\ UNCHANGED <<dbVars, recovery, walk, cancelling, constVars, histVars, faults>>

Ready(w, b) == At(w, b, "head") /\ branch[w][b].queue # <<>> /\ ~walk[w].marked

(* failWorkflow: the context is cancelled, or the walk takes too long. *)
AbortWalk(w, b) ==
  /\ Ready(w, b)
  /\ walk[w].ctx \/ Exceeded(w)
  /\ walk' = [walk EXCEPT ![w].marked = TRUE]
  /\ status' = FailRun(status)
  /\ EndBranch(w, b)
  /\ UNCHANGED <<checkpoint, sub, recovery, cancelling, constVars, histVars, faults>>

(* The join of this section is the parent's; else the node is next. *)
TakeNode(w, b) ==
  LET br == branch[w][b]
  IN  /\ Ready(w, b) /\ ~walk[w].ctx /\ ~Exceeded(w)
      /\ walk' = [walk EXCEPT ![w].steps = @ + 1]
      /\ IF HandedOff(w, b) THEN EndBranch(w, b) /\ UNCHANGED taken
         ELSE /\ Put(w, b, [br EXCEPT !.at = "visit", !.node = Head(br.queue), !.queue = Tail(br.queue)])
              /\ taken' = [taken EXCEPT ![w] = @ \cup {Head(br.queue)}]
      /\ UNCHANGED <<dbVars, recovery, cancelling, constVars, walks, basis, fired, finished, touched, faults>>

-----------------------------------------------------------------------------
(* The node itself *)

Visiting(w, b, kinds) == At(w, b, "visit") /\ Kind(branch[w][b].node) \in kinds

(* The node is done with: its successors are queued, a checkpoint is next. *)
Completed(br, next) == [br EXCEPT !.at = "copy", !.queue = @ \o next]

PassOn(w, b, kind) ==
  LET n == branch[w][b].node
  IN  /\ Visiting(w, b, {kind})
      /\ walk' = [walk EXCEPT ![w].out = @ \cup {n}]
      /\ Put(w, b, Completed(branch[w][b], Successors(graph, n)))
      /\ UNCHANGED <<dbVars, recovery, cancelling, constVars, histVars, faults>>

(* The input, the outputs that are joined, or, from a node of an unknown   *)
(* type, the last output are passed on.                                    *)
StartNode(w, b) == PassOn(w, b, "start")
JoinNode(w, b) == PassOn(w, b, "join")
UnknownNode(w, b) == PassOn(w, b, "tool")

(* An end node delivers, again after a resume, and leads nowhere. *)
DeliverEnd(w, b) ==
  LET n == branch[w][b].node
  IN  /\ Visiting(w, b, {"end"})
      /\ walk' = [walk EXCEPT ![w].out = @ \cup {n}]
      /\ fired' = [fired EXCEPT ![w][n] = @ + 1]
      /\ Put(w, b, Completed(branch[w][b], <<>>))
      /\ UNCHANGED <<dbVars, recovery, cancelling, constVars, walks, basis, taken, finished, touched, faults>>

(* consumeResumed: the checkpointed output is used, once. *)
Resumes(w, n) == n \in walk[w].cached

Reuse(w, b) ==
  LET n == branch[w][b].node
  IN  /\ Visiting(w, b, Resumable) /\ Resumes(w, n)
      /\ walk' = [walk EXCEPT ![w].out = @ \cup {n}, ![w].cached = @ \ {n}]
      /\ Put(w, b, Completed(branch[w][b], Successors(graph, n)))
      /\ UNCHANGED <<dbVars, recovery, cancelling, constVars, histVars, faults>>

Execute(w, b, kind) ==
  LET n == branch[w][b].node
  IN  /\ Visiting(w, b, {kind}) /\ ~Resumes(w, n)
      /\ fired' = [fired EXCEPT ![w][n] = @ + 1]
      /\ Put(w, b, [branch[w][b] EXCEPT !.at = "busy"])
      /\ UNCHANGED <<status, checkpoint, recovery, walk, cancelling, constVars, walks, basis, taken, finished, touched, faults>>

(* The row is inserted with ctx: without it, executeRun finds no run.      *)
StartSubRun(w, n) == sub' = [sub EXCEPT ![n] = IF walk[w].ctx THEN "none" ELSE "running"]

(* The sub-run of an agent, or of a supervisor and its delegates, starts;  *)
(* the webhook or the message goes out.                                    *)
RunAgent(w, b) == Execute(w, b, "agent") /\ StartSubRun(w, branch[w][b].node)
Supervise(w, b) == Execute(w, b, "supervisor") /\ StartSubRun(w, branch[w][b].node)
CallWebhook(w, b) == Execute(w, b, "webhook") /\ UNCHANGED sub
SendMessage(w, b) == Execute(w, b, "gateway") /\ UNCHANGED sub

(* The sub-run's final status o is read back.  A failed one fails the      *)
(* workflow; a cancelled or missing one counts as done.                    *)
FailsWorkflow(o) == o = "failed"

Outcomes(n) ==
  IF Kind(n) \notin SubKinds \/ sub[n] = "none" THEN {"none"} ELSE {"success", "failed", "cancelled"}

Return(w, b) ==
  LET n == branch[w][b].node
  IN  /\ At(w, b, "busy")
      /\ \E o \in Outcomes(n) :
           /\ IF o = "cancelled" THEN Fault /\ touched' = TRUE ELSE UNCHANGED <<faults, touched>>
           /\ sub' = [sub EXCEPT ![n] = o]
           /\ IF FailsWorkflow(o)
              THEN /\ walk' = [walk EXCEPT ![w].marked = TRUE]
                   /\ status' = FailRun(status)
                   /\ EndBranch(w, b)
              ELSE /\ walk' = [walk EXCEPT ![w].out = @ \cup {n}]
                   /\ Put(w, b, Completed(branch[w][b], Successors(graph, n)))
                   /\ UNCHANGED status
      /\ UNCHANGED <<checkpoint, recovery, cancelling, constVars, walks, basis, taken, fired, finished>>

(* A branch without an edge to take stops here, and saves nothing. *)
FollowRoute(w, b) ==
  LET br == branch[w][b]
  IN  /\ Visiting(w, b, {"condition"})
      /\ \E met \in BOOLEAN :
           LET next == Route(graph, br.node, met)
           IN  Put(w, b, IF next = <<>> THEN [br EXCEPT !.at = "head"] ELSE Completed(br, next))
      /\ UNCHANGED <<dbVars, recovery, walk, cancelling, constVars, histVars, faults>>

(* An agent node whose agent is missing stops its branch the same way. *)
SkipNode(w, b) ==
  /\ Visiting(w, b, {"agentless"})
  /\ Put(w, b, [branch[w][b] EXCEPT !.at = "head"])
  /\ UNCHANGED <<dbVars, recovery, walk, cancelling, constVars, histVars, faults>>

Count(w, n) == walk[w].iter[n] + 1
LastRound(w, n) == Count(w, n) >= MaxLoop

Loop(w, b) ==
  LET n == branch[w][b].node
  IN  /\ Visiting(w, b, {"loop"})
      /\ \E met \in BOOLEAN :
           LET done == met \/ LastRound(w, n)
           IN  /\ walk' = [walk EXCEPT ![w].iter[n] = IF done THEN 0 ELSE Count(w, n)]
               /\ Put(w, b, Completed(branch[w][b], Round(graph, n, done)))
      /\ UNCHANGED <<dbVars, recovery, cancelling, constVars, histVars, faults>>

-----------------------------------------------------------------------------
(* parallel *)

(* One goroutine per edge; the parent waits. *)
Fork(w, b) ==
  LET n == branch[w][b].node
      starts == Branches(graph, n)
      forked == {Append(b, i) : i \in DOMAIN starts}
  IN  /\ Visiting(w, b, {"parallel"})
      /\ branch' = [branch EXCEPT ![w] = [c \in DOMAIN branch[w] \cup forked |->
                     IF c \in forked THEN NewBranch(starts[Last(c)], SectionJoins(graph, n))
                     ELSE IF c = b THEN [branch[w][b] EXCEPT !.at = "fork"] ELSE branch[w][c]]]
      /\ UNCHANGED <<dbVars, recovery, walk, cancelling, constVars, histVars, faults>>

BranchesDone(w, b) == \A c \in DOMAIN branch[w] : ~IsStrictPrefix(b, c)

(* wg.Wait, and the joins in the order of their ids. *)
Join(w, b) ==
  LET br == branch[w][b]
  IN  /\ At(w, b, "fork") /\ BranchesDone(w, b)
      /\ Put(w, b, Completed(br, Sorted(SectionJoins(graph, br.node))))
      /\ UNCHANGED <<dbVars, recovery, walk, cancelling, constVars, histVars, faults>>

-----------------------------------------------------------------------------
(* saveCheckpoint: a copy under the locks, written after they are released *)

CopyProgress(w, b) ==
  /\ At(w, b, "copy")
  /\ Put(w, b, [branch[w][b] EXCEPT !.at = "write", !.copy = [out |-> walk[w].out, iter |-> walk[w].iter]])
  /\ UNCHANGED <<dbVars, recovery, walk, cancelling, constVars, histVars, faults>>

WriteCheckpoint(w, b) ==
  LET br == branch[w][b]
  IN  /\ At(w, b, "write")
      /\ checkpoint' = br.copy
      /\ finished' = finished \cup br.copy.out
      /\ Put(w, b, [br EXCEPT !.at = "head", !.copy = NoCheckpoint])
      /\ UNCHANGED <<status, sub, recovery, walk, cancelling, constVars, walks, basis, taken, fired, touched, faults>>

-----------------------------------------------------------------------------
(* The end of a walk: success unless it is marked, then the deferred calls *)

Settle(w) == status' = IF walk[w].marked \/ status = "cancelled" THEN status ELSE "success"

FinishWalk(w) ==
  /\ walk[w].at = "walking" /\ <<>> \notin DOMAIN branch[w]
  /\ Settle(w)
  /\ walk' = [walk EXCEPT ![w].at = "clean"]
  /\ UNCHANGED <<checkpoint, sub, recovery, branch, cancelling, constVars, histVars, faults>>

DeleteCheckpoint(w) ==
  /\ walk[w].at = "clean"
  /\ checkpoint' = NoCheckpoint
  /\ walk' = [walk EXCEPT ![w] = Asleep]
  /\ UNCHANGED <<status, sub, recovery, branch, cancelling, constVars, histVars, faults>>

-----------------------------------------------------------------------------
(* Cancel, a client that leaves, a restart and its recovery *)

CancelStatus ==
  /\ Fault /\ status = "running" /\ ~cancelling
  /\ status' = "cancelled" /\ cancelling' = TRUE /\ touched' = TRUE
  /\ UNCHANGED <<checkpoint, sub, recovery, walk, branch, constVars, walks, basis, taken, fired, finished>>

(* Only a walk that has registered can be told. *)
CancelRun ==
  /\ cancelling /\ cancelling' = FALSE
  /\ walk' = [w \in Walks |-> [walk[w] EXCEPT !.ctx = @ \/ walk[w].at = "walking"]]
  /\ UNCHANGED <<dbVars, recovery, branch, constVars, histVars, faults>>

Disconnect(w) ==
  /\ Fault
  /\ walk[w].client /\ walk[w].at \in {"new", "walking"}
  /\ walk' = [walk EXCEPT ![w].client = FALSE, ![w].ctx = TRUE]
  /\ touched' = TRUE
  /\ UNCHANGED <<dbVars, recovery, branch, cancelling, constVars, walks, basis, taken, fired, finished>>

(* The sweep of main fails the sub-runs and leaves the run itself alone,   *)
(* unless it has a parent.                                                 *)
FailSubRuns == sub' = [n \in Nodes |-> IF sub[n] = "running" THEN "failed" ELSE sub[n]]

Restart ==
  /\ Fault
  /\ FailSubRuns
  /\ status' = IF nested /\ status = "running" THEN "failed" ELSE status
  /\ recovery' = "due"
  /\ walk' = [w \in Walks |-> Asleep] /\ branch' = [w \in Walks |-> <<>>]
  /\ cancelling' = FALSE
  /\ UNCHANGED <<checkpoint, constVars, histVars>>

Interrupted == status = "running" /\ ~nested

ListInterrupted ==
  /\ recovery = "due"
  /\ recovery' = IF Interrupted THEN "listed" ELSE "idle"
  /\ UNCHANGED <<dbVars, walk, branch, cancelling, constVars, histVars, faults>>

(* Without a checkpoint the run fails, with one it walks on. *)
RecoverRun ==
  /\ recovery = "listed" /\ recovery' = "idle"
  /\ FailSubRuns
  /\ IF checkpoint = NoCheckpoint THEN status' = FailRun(status) /\ UNCHANGED <<walk, walks, basis>>
     ELSE /\ walks' = walks + 1
          /\ walk' = [walk EXCEPT ![walks'] = [Asleep EXCEPT !.at = "new", !.cached = checkpoint.out,
                                                             !.iter = checkpoint.iter]]
          /\ basis' = [basis EXCEPT ![walks'] = checkpoint.out]
          /\ UNCHANGED status
  /\ UNCHANGED <<checkpoint, branch, cancelling, constVars, taken, fired, finished, touched, faults>>

-----------------------------------------------------------------------------
BranchStep(w, b) ==
  \/ BranchEnds(w, b) \/ AbortWalk(w, b) \/ TakeNode(w, b)
  \/ StartNode(w, b) \/ JoinNode(w, b) \/ UnknownNode(w, b) \/ DeliverEnd(w, b) \/ Reuse(w, b)
  \/ RunAgent(w, b) \/ Supervise(w, b) \/ CallWebhook(w, b) \/ SendMessage(w, b) \/ Return(w, b)
  \/ FollowRoute(w, b) \/ SkipNode(w, b) \/ Loop(w, b) \/ Fork(w, b) \/ Join(w, b)
  \/ CopyProgress(w, b) \/ WriteCheckpoint(w, b)

Work ==
  \/ \E w \in Walks : LoadGraph(w) \/ FinishWalk(w) \/ DeleteCheckpoint(w)
  \/ \E w \in Walks : \E b \in DOMAIN branch[w] : BranchStep(w, b)
  \/ CancelRun \/ ListInterrupted \/ RecoverRun

Next == Work \/ CancelStatus \/ Restart \/ \E w \in Walks : Disconnect(w)

Spec == Init /\ [][Next]_vars

(* Goroutines are scheduled, sub-runs and statements come back; no step    *)
(* can be postponed for ever by the others, which end.                     *)
Fairness == WF_vars(Work)

FairSpec == Spec /\ Fairness

-----------------------------------------------------------------------------
(* Correctness *)

(* The shape of every variable. *)
TypeOK ==
  /\ status \in {"running", "success", "failed", "cancelled"}
  /\ checkpoint.out \subseteq Nodes
  /\ sub \in [Nodes -> {"none", "running", "success", "failed", "cancelled"}]
  /\ recovery \in {"idle", "due", "listed"} /\ cancelling \in BOOLEAN
  /\ \A w \in Walks :
       /\ walk[w].at \in {"off", "new", "walking", "clean"}
       /\ walk[w].out \cup walk[w].cached \subseteq Nodes
       /\ walk[w].iter \in [Nodes -> 0..(MaxLoop - 1)]
       /\ walk[w].steps \in 0..MaxSteps
       /\ \A b \in DOMAIN branch[w] :
            /\ branch[w][b].at \in {"head", "visit", "busy", "fork", "copy", "write"}
            /\ branch[w][b].queue \in Seq(Nodes) /\ branch[w][b].stop \subseteq Nodes
  /\ walks \in Walks /\ finished \subseteq Nodes /\ {basis, taken} \subseteq [Walks -> SUBSET Nodes]

(* A join is worked on when no branch of its section is left.             *)
JoinWaits ==
  \A w \in Walks : \A b, c \in DOMAIN branch[w] :
    branch[w][b].at = "visit" => branch[w][b].node \notin branch[w][c].stop

(* The graphs that lead a walk to every node at most once, and what they require. *)
StructuredGraphs == {g \in Graphs : Structured(g)}
RequiredIn == [g \in StructuredGraphs |-> Required(g)]

(* A workflow that is reported as a success has the result of every agent  *)
(* that is on every way through the graph, over all its walks; when nobody *)
(* cancels a part of it or leaves.                                         *)
SuccessIsComplete ==
  status = "success" /\ ~touched /\ graph \in StructuredGraphs =>
    \A n \in RequiredIn[graph] : sub[n] = "success" /\ \E w \in Walks : fired[w][n] > 0

(* What a resumed walk found in its checkpoint it does not execute, where  *)
(* no loop leads back to it.                                               *)
ResumedNotRerun ==
  graph \in StructuredGraphs =>
    \A w \in Walks : \A n \in basis[w] : Kind(n) \in Resumable => fired[w][n] = 0

(* Every workflow run ends: walked to its end, stopped at the step limit,  *)
(* or recovered after a restart.                                           *)
RunEnds == <>[](status # "running")

(* The checkpoint is kept "so a crashed run can be resumed without         *)
(* re-executing finished agent/supervisor nodes".                          *)
FinishedNotRerun ==
  [][\A w \in Walks, n \in Nodes :
       fired'[w][n] > fired[w][n] /\ Kind(n) \in Resumable => n \notin finished]_vars

=============================================================================
