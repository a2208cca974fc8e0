---------------------------- MODULE RunLifecycle ----------------------------
(***************************************************************************)
(* The life of one top-level agent run of the Agent Nexus API service:     *)
(* the tool-calling loop (executeRun), its human-approval gate, the        *)
(* durable snapshot that lets a waiting run outlive its goroutine, and the *)
(* HTTP handlers Approve and Cancel that act on the run concurrently.      *)
(*                                                                         *)
(* Every database statement, registry operation and channel operation of   *)
(* the code is a step of its own, because that is where the goroutines     *)
(* interleave.  What a tool or the model computes is abstracted away: the  *)
(* model asks for tool calls 1, 2, ..., Calls in turn (it may stop earlier *)
(* with a reply or an error), and the calls in Gated need an approval.     *)
(***************************************************************************)
EXTENDS Integers, Sequences, FiniteSets

CONSTANTS
  Loops,          \* goroutine identities; one is taken per executeRun
  NoLoop,         \* "no goroutine"
  OtherRun,       \* another run of the same conversation, holding its mutex
  FirstLoop,      \* the goroutine that starts the run
  Approvers,      \* concurrent POST /runs/{id}/approve requests
  Calls,          \* bound: number of tool calls the model asks for
  Gated,          \* the calls whose tool has requires_approval
  MaxSteps,       \* agent.max_steps
  CanPark,        \* invokeDepth == 0 && !noApprovalPark
  Streaming,      \* the run was started by an SSE request (ctx = r.Context())
  SaveMayFail,    \* saveWaitState can return an error
  SendMayStall,   \* a claimed channel send can take longer than 5 seconds
  MaxCancels,     \* bound: cancels that take effect
  MaxRestarts     \* bound: crashes of the API process

ASSUME LoopsAssumption ==
  /\ FirstLoop \in Loops
  /\ NoLoop \notin Loops
  /\ OtherRun \notin Loops
  /\ OtherRun # NoLoop
ASSUME CallsAssumption == Calls \in Nat /\ Gated \subseteq 1..Calls
ASSUME StepsAssumption == MaxSteps \in Nat
ASSUME FlagsAssumption ==
  /\ {CanPark, Streaming, SaveMayFail, SendMayStall} \subseteq BOOLEAN
  /\ MaxCancels \in Nat
  /\ MaxRestarts \in Nat

VARIABLES
  (* PostgreSQL *)
  status,         \* runs.status
  snapshot,       \* the run's row of run_wait_states, or NoSnapshot
  requests,       \* the run's rows of approval_requests, oldest first
  (* memory of the API process *)
  registry,       \* approvalRegistry: whose channel is registered
  chan,           \* the buffer (capacity 1) of each goroutine's channel
  mutex,          \* conversationLocks[convID]: its holder
  cancelFn,       \* runCancels: the goroutine that Cancel would stop
  client,         \* the goroutine whose ctx is the request of a live client
  (* the goroutines executing the run *)
  pc, call, steps, decision, ctxDone,
  (* the Approve requests *)
  apc, choice, row, target, held,
  (* the Cancel request, and what is left of the budgets *)
  cpc, cancels, restarts,
  (* history *)
  executed        \* how often each call's tool was executed

dbVars == <<status, snapshot, requests>>
memVars == <<registry, chan, mutex, cancelFn, client>>
loopVars == <<pc, call, steps, decision, ctxDone>>
approveVars == <<apc, choice, row, target, held>>
cancelVars == <<cpc, cancels>>
vars == <<dbVars, memVars, loopVars, approveVars, cancelVars, restarts, executed>>

-----------------------------------------------------------------------------
(* Values *)

Verdict == {"approved", "rejected"}
Status == {"pending", "running", "approval_wait", "success", "failed", "cancelled"}
Active == {"pending", "running", "approval_wait"}  \* what Cancel accepts
Snapshot == [call: 0..Calls, steps: 0..(MaxSteps + 1)]
NoSnapshot == [call |-> 0, steps |-> 0]
Request == [call: 1..Calls, status: {"pending"} \cup Verdict]

LoopPC == {"idle", "start", "queued", "claim", "think", "dispatch", "insert", "mark",
           "save", "register", "await", "inflight", "resolve", "unmark", "decide",
           "exec", "reply", "fail", "exit"}
ApprovePC == {"idle", "pick", "record", "send", "deliver", "claim", "revive", "spawn", "fallback"}
CancelPC == {"idle", "stop", "purge"}

Idle == {t \in Loops : pc[t] = "idle"}
Pending == {i \in DOMAIN requests : requests[i].status = "pending"}

Init ==
  /\ status \in {"pending", "running"}
  /\ snapshot = NoSnapshot
  /\ requests = <<>>
  /\ registry = NoLoop
  /\ chan = [t \in Loops |-> "none"]
  /\ mutex \in {NoLoop, OtherRun}
  /\ cancelFn = NoLoop
  /\ client = IF Streaming THEN FirstLoop ELSE NoLoop
  /\ pc = [t \in Loops |-> IF t = FirstLoop THEN "start" ELSE "idle"]
  /\ call = [t \in Loops |-> 0]
  /\ steps = [t \in Loops |-> 0]
  /\ decision = [t \in Loops |-> "none"]
  /\ ctxDone = [t \in Loops |-> FALSE]
  /\ apc = [a \in Approvers |-> "idle"]
  /\ choice = [a \in Approvers |-> "none"]
  /\ row = [a \in Approvers |-> 0]
  /\ target = [a \in Approvers |-> NoLoop]
  /\ held = [a \in Approvers |-> NoSnapshot]
  /\ cpc = "idle"
  /\ cancels = 0
  /\ restarts = 0
  /\ executed = [k \in 1..Calls |-> 0]

Goto(t, from, to) == pc[t] = from /\ pc' = [pc EXCEPT ![t] = to]

-----------------------------------------------------------------------------
(* Faulty variants of actions below: bugs this code could plausibly have.  *)
(* No behaviour of Spec uses them; each breaks a property stated below.    *)

(* The deferred function forgets failRun. *)
AbortSilently(t) ==
  /\ pc[t] \in {"think", "dispatch"}
  /\ pc' = [pc EXCEPT ![t] = "exit"]
  /\ UNCHANGED <<dbVars, memVars, call, steps, decision, ctxDone,
                 approveVars, cancelVars, restarts, executed>>

(* The deferred function forgets convMu.Unlock. *)
ExitLocked(t) ==
  /\ Goto(t, "exit", "idle")
  /\ cancelFn' = IF cancelFn = t THEN NoLoop ELSE cancelFn
  /\ client' = IF client = t THEN NoLoop ELSE client
  /\ call' = [call EXCEPT ![t] = 0]
  /\ steps' = [steps EXCEPT ![t] = 0]
  /\ decision' = [decision EXCEPT ![t] = "none"]
  /\ ctxDone' = [ctxDone EXCEPT ![t] = FALSE]
  /\ UNCHANGED <<dbVars, registry, chan, mutex, approveVars, cancelVars, restarts, executed>>

(* resumeDecision is not limited to the call the run parked at. *)
ApplyDecisionForever(t) ==
  /\ pc[t] = "decide"
  /\ pc' = [pc EXCEPT ![t] = IF decision[t] = "rejected" THEN "think" ELSE "exec"]
  /\ UNCHANGED <<dbVars, memVars, call, steps, decision, ctxDone,
                 approveVars, cancelVars, restarts, executed>>

(* The max-steps check reads the count from before the increment. *)
ExecuteToolOffByOne(t) ==
  /\ pc[t] = "exec"
  /\ executed' = [executed EXCEPT ![call[t]] = @ + 1]
  /\ steps' = [steps EXCEPT ![t] = @ + 1]
  /\ pc' = [pc EXCEPT ![t] = IF steps[t] > MaxSteps THEN "fail" ELSE "think"]
  /\ UNCHANGED <<dbVars, memVars, call, decision, ctxDone,
                 approveVars, cancelVars, restarts>>

(* The snapshot leaves StepCount out. *)
SaveWithoutSteps(t) ==
  /\ Goto(t, "save", "register")
  /\ \/ snapshot' = [call |-> call[t], steps |-> 0]
     \/ SaveMayFail /\ UNCHANGED snapshot
  /\ UNCHANGED <<status, requests, memVars, call, steps, decision, ctxDone,
                 approveVars, cancelVars, restarts, executed>>

(* The fast path forgets deleteWaitState. *)
KeepWaitState(t) ==
  /\ Goto(t, "resolve", "unmark")
  /\ UNCHANGED <<dbVars, memVars, call, steps, decision, ctxDone,
                 approveVars, cancelVars, restarts, executed>>

(* The resumed loop starts at the first call instead of CallIndex. *)
SpawnAtFirstCall(a) ==
  /\ apc[a] = "spawn" /\ apc' = [apc EXCEPT ![a] = "idle"]
  /\ \E t \in Idle :
       /\ pc' = [pc EXCEPT ![t] = "start"]
       /\ call' = [call EXCEPT ![t] = 1]
       /\ steps' = [steps EXCEPT ![t] = held[a].steps]
       /\ decision' = [decision EXCEPT ![t] = choice[a]]
  /\ UNCHANGED <<dbVars, memVars, ctxDone, choice, row, target, held,
                 cancelVars, restarts, executed>>

(* Approve knows the channel only: a parked run is not resumed. *)
ClaimChannelOnly(a) ==
  /\ apc[a] = "send"
  /\ \/ /\ registry # NoLoop
        /\ target' = [target EXCEPT ![a] = registry]
        /\ apc' = [apc EXCEPT ![a] = "deliver"]
     \/ /\ registry = NoLoop
        /\ apc' = [apc EXCEPT ![a] = "idle"]
        /\ UNCHANGED target
  /\ registry' = NoLoop
  /\ UNCHANGED <<dbVars, chan, mutex, cancelFn, client, loopVars, choice, row, held,
                 cancelVars, restarts, executed>>

-----------------------------------------------------------------------------
(* executeRun: entering and leaving *)

(* registerRunCancel: a newer goroutine's cancel func replaces an older one. *)
RegisterRunCancel(t) ==
  /\ Goto(t, "start", "queued")
  /\ cancelFn' = t
  /\ UNCHANGED <<dbVars, registry, chan, mutex, client, call, steps, decision, ctxDone,
                 approveVars, cancelVars, restarts, executed>>

(* convMu.Lock(): not interruptible by ctx. *)
LockConversation(t) ==
  /\ Goto(t, "queued", "claim")
  /\ mutex = NoLoop
  /\ mutex' = t
  /\ UNCHANGED <<dbVars, registry, chan, cancelFn, client, call, steps, decision, ctxDone,
                 approveVars, cancelVars, restarts, executed>>

(* UPDATE runs SET status='running' ... AND status<>'cancelled'.  A resumed *)
(* goroutine re-enters the loop at its pending call, without a model call.  *)
ClaimRun(t) ==
  /\ pc[t] = "claim"
  /\ \/ /\ status = "cancelled"
        /\ pc' = [pc EXCEPT ![t] = "exit"]
        /\ UNCHANGED status
     \/ /\ status # "cancelled"
        /\ pc' = [pc EXCEPT ![t] = IF decision[t] = "none" THEN "think" ELSE "dispatch"]
        /\ status' = "running"
  /\ UNCHANGED <<snapshot, requests, memVars, call, steps, decision, ctxDone,
                 approveVars, cancelVars, restarts, executed>>

(* A step of the loop that ends the run: no provider, a model call that    *)
(* fails (always, once ctx is done), an empty reply, or the ctx.Err check  *)
(* in front of a tool call.                                                *)
Abort(t) ==
  /\ pc[t] \in {"think", "dispatch"}
  /\ pc' = [pc EXCEPT ![t] = "fail"]
  /\ UNCHANGED <<dbVars, memVars, call, steps, decision, ctxDone,
                 approveVars, cancelVars, restarts, executed>>

(* failRun through dbCtx, from the deferred function. *)
FailRun(t) ==
  /\ Goto(t, "fail", "exit")
  /\ status' = IF status = "cancelled" THEN status ELSE "failed"
  /\ UNCHANGED <<snapshot, requests, memVars, call, steps, decision, ctxDone,
                 approveVars, cancelVars, restarts, executed>>

(* The final UPDATE to success, also guarded and through dbCtx. *)
Succeed(t) ==
  /\ Goto(t, "reply", "exit")
  /\ status' = IF status = "cancelled" THEN status ELSE "success"
  /\ UNCHANGED <<snapshot, requests, memVars, call, steps, decision, ctxDone,
                 approveVars, cancelVars, restarts, executed>>

(* The deferred unlock and the CompareAndDelete of the cancel func. *)
Exit(t) ==
  /\ Goto(t, "exit", "idle")
  /\ mutex' = NoLoop
  /\ cancelFn' = IF cancelFn = t THEN NoLoop ELSE cancelFn
  /\ client' = IF client = t THEN NoLoop ELSE client
  /\ call' = [call EXCEPT ![t] = 0]
  /\ steps' = [steps EXCEPT ![t] = 0]
  /\ decision' = [decision EXCEPT ![t] = "none"]
  /\ ctxDone' = [ctxDone EXCEPT ![t] = FALSE]
  /\ UNCHANGED <<dbVars, registry, chan, approveVars, cancelVars, restarts, executed>>

-----------------------------------------------------------------------------
(* executeRun: the tool-calling loop *)

(* A model call that succeeds asks for the next tool call or replies. *)
CallModel(t) ==
  /\ pc[t] = "think"
  /\ ~ctxDone[t]
  /\ \/ /\ call[t] < Calls
        /\ call' = [call EXCEPT ![t] = @ + 1]
        /\ pc' = [pc EXCEPT ![t] = "dispatch"]
     \/ /\ pc' = [pc EXCEPT ![t] = "reply"]
        /\ UNCHANGED call
  /\ UNCHANGED <<dbVars, memVars, steps, decision, ctxDone,
                 approveVars, cancelVars, restarts, executed>>

(* Once the ctx.Err check has passed: the decision a resumed goroutine     *)
(* carries is applied to the pending call, an ungated call runs, a gated   *)
(* one waits.                                                              *)
Dispatch(t) ==
  /\ pc[t] = "dispatch"
  /\ ~ctxDone[t]
  /\ pc' = [pc EXCEPT ![t] = IF decision[t] # "none" THEN "decide"
                             ELSE IF call[t] \in Gated THEN "insert" ELSE "exec"]
  /\ UNCHANGED <<dbVars, memVars, call, steps, decision, ctxDone,
                 approveVars, cancelVars, restarts, executed>>

(* A rejected call only leaves a tool message behind. *)
ApplyDecision(t) ==
  /\ pc[t] = "decide"
  /\ pc' = [pc EXCEPT ![t] = IF decision[t] = "rejected" THEN "think" ELSE "exec"]
  /\ decision' = [decision EXCEPT ![t] = "none"]
  /\ UNCHANGED <<dbVars, memVars, call, steps, ctxDone,
                 approveVars, cancelVars, restarts, executed>>

(* invokeToolByType, then stepCount++ and the max-steps check. *)
ExecuteTool(t) ==
  /\ pc[t] = "exec"
  /\ executed' = [executed EXCEPT ![call[t]] = @ + 1]
  /\ steps' = [steps EXCEPT ![t] = @ + 1]
  /\ pc' = [pc EXCEPT ![t] = IF steps[t] + 1 > MaxSteps THEN "fail" ELSE "think"]
  /\ UNCHANGED <<dbVars, memVars, call, decision, ctxDone,
                 approveVars, cancelVars, restarts>>

-----------------------------------------------------------------------------
(* executeRun: the approval gate.  Statements that use ctx do nothing once *)
(* it is done; the ones that use dbCtx always run.                         *)

InsertRequest(t) ==
  /\ Goto(t, "insert", "mark")
  /\ requests' = IF ctxDone[t] THEN requests
                 ELSE Append(requests, [call |-> call[t], status |-> "pending"])
  /\ UNCHANGED <<status, snapshot, memVars, call, steps, decision, ctxDone,
                 approveVars, cancelVars, restarts, executed>>

(* UPDATE runs SET status='approval_wait' WHERE id=...: no guard. *)
MarkWaiting(t) ==
  /\ Goto(t, "mark", IF CanPark THEN "save" ELSE "register")
  /\ status' = IF ctxDone[t] THEN status ELSE "approval_wait"
  /\ UNCHANGED <<snapshot, requests, memVars, call, steps, decision, ctxDone,
                 approveVars, cancelVars, restarts, executed>>

(* saveWaitState (dbCtx); an error is only logged. *)
SaveWaitState(t) ==
  /\ Goto(t, "save", "register")
  /\ \/ snapshot' = [call |-> call[t], steps |-> steps[t]]
     \/ SaveMayFail /\ UNCHANGED snapshot
  /\ UNCHANGED <<status, requests, memVars, call, steps, decision, ctxDone,
                 approveVars, cancelVars, restarts, executed>>

RegisterApprovalWait(t) ==
  /\ Goto(t, "register", "await")
  /\ registry' = t
  /\ chan' = [chan EXCEPT ![t] = "none"]
  /\ UNCHANGED <<dbVars, mutex, cancelFn, client, call, steps, decision, ctxDone,
                 approveVars, cancelVars, restarts, executed>>

(* awaitApprovalDecision: a decision arrives, before the deadline or, when *)
(* a sender had claimed the channel, within the grace period.              *)
ReceiveDecision(t) ==
  /\ pc[t] \in {"await", "inflight"}
  /\ chan[t] # "none"
  /\ decision' = [decision EXCEPT ![t] = chan[t]]
  /\ chan' = [chan EXCEPT ![t] = "none"]
  /\ pc' = [pc EXCEPT ![t] = "resolve"]
  /\ UNCHANGED <<dbVars, registry, mutex, cancelFn, client, call, steps, ctxDone,
                 approveVars, cancelVars, restarts, executed>>

(* A goroutine that got no decision parks with its snapshot, or fails.     *)
ParkOrFail == IF CanPark THEN "exit" ELSE "fail"

(* The 10-minute timer or ctx fires: LoadAndDelete the registry entry.  If *)
(* it was there no sender can appear any more; if not, one is on its way.  *)
ExpireWait(t) ==
  /\ pc[t] = "await"
  /\ \/ /\ registry = NoLoop
        /\ pc' = [pc EXCEPT ![t] = "inflight"]
        /\ UNCHANGED <<chan, decision>>
     \/ /\ registry # NoLoop
        /\ pc' = [pc EXCEPT ![t] = IF chan[t] = "none" THEN ParkOrFail ELSE "resolve"]
        /\ decision' = [decision EXCEPT ![t] = chan[t]]
        /\ chan' = [chan EXCEPT ![t] = "none"]
  /\ registry' = NoLoop
  /\ UNCHANGED <<dbVars, mutex, cancelFn, client, call, steps, ctxDone,
                 approveVars, cancelVars, restarts, executed>>

(* The send did not land within 5 seconds: the channel is abandoned, and a *)
(* sender that still holds it sends into the void.                         *)
GiveUpOnSender(t) ==
  /\ SendMayStall
  /\ Goto(t, "inflight", ParkOrFail)
  /\ chan[t] = "none"
  /\ target' = [a \in Approvers |-> IF target[a] = t THEN NoLoop ELSE target[a]]
  /\ UNCHANGED <<dbVars, memVars, call, steps, decision, ctxDone, apc, choice, row, held,
                 cancelVars, restarts, executed>>

(* deleteWaitState(dbCtx) on the fast path. *)
DropWaitState(t) ==
  /\ Goto(t, "resolve", "unmark")
  /\ snapshot' = NoSnapshot
  /\ UNCHANGED <<status, requests, memVars, call, steps, decision, ctxDone,
                 approveVars, cancelVars, restarts, executed>>

(* UPDATE runs SET status='running' WHERE id=...: no guard. *)
UnmarkWaiting(t) ==
  /\ Goto(t, "unmark", "decide")
  /\ status' = IF ctxDone[t] THEN status ELSE "running"
  /\ UNCHANGED <<snapshot, requests, memVars, call, steps, decision, ctxDone,
                 approveVars, cancelVars, restarts, executed>>

-----------------------------------------------------------------------------
(* POST /runs/{id}/approve *)

AGoto(a, from, to) == apc[a] = from /\ apc' = [apc EXCEPT ![a] = to]

ReadStatus(a) ==
  /\ AGoto(a, "idle", "pick")
  /\ status = "approval_wait"
  /\ \E v \in Verdict : choice' = [choice EXCEPT ![a] = v]
  /\ UNCHANGED <<dbVars, memVars, loopVars, row, target, held, cancelVars, restarts, executed>>

(* The oldest pending approval_requests row of the run, or a 404. *)
PickRequest(a) ==
  /\ apc[a] = "pick"
  /\ \/ /\ \E i \in Pending :
             /\ \A j \in Pending : i <= j
             /\ row' = [row EXCEPT ![a] = i]
        /\ apc' = [apc EXCEPT ![a] = "record"]
     \/ /\ Pending = {}
        /\ apc' = [apc EXCEPT ![a] = "idle"]
        /\ UNCHANGED row
  /\ UNCHANGED <<dbVars, memVars, loopVars, choice, target, held, cancelVars, restarts, executed>>

(* UPDATE approval_requests SET status=$2 WHERE id=...: no pending guard. *)
RecordDecision(a) ==
  /\ AGoto(a, "record", "send")
  /\ requests' = [requests EXCEPT ![row[a]].status = choice[a]]
  /\ UNCHANGED <<status, snapshot, memVars, loopVars, choice, row, target, held,
                 cancelVars, restarts, executed>>

(* SendApprovalDecision: LoadAndDelete, then the buffered send. *)
ClaimChannel(a) ==
  /\ apc[a] = "send"
  /\ \/ /\ registry # NoLoop
        /\ target' = [target EXCEPT ![a] = registry]
        /\ apc' = [apc EXCEPT ![a] = "deliver"]
     \/ /\ registry = NoLoop
        /\ apc' = [apc EXCEPT ![a] = "claim"]
        /\ UNCHANGED target
  /\ registry' = NoLoop
  /\ UNCHANGED <<dbVars, chan, mutex, cancelFn, client, loopVars, choice, row, held,
                 cancelVars, restarts, executed>>

Deliver(a) ==
  /\ AGoto(a, "deliver", "idle")
  /\ chan' = [t \in Loops |-> IF t = target[a] THEN choice[a] ELSE chan[t]]
  /\ target' = [target EXCEPT ![a] = NoLoop]
  /\ UNCHANGED <<dbVars, registry, mutex, cancelFn, client, loopVars, choice, row, held,
                 cancelVars, restarts, executed>>

(* ResumeApprovedRun: claimWaitState, an atomic DELETE ... RETURNING. *)
ClaimWaitState(a) ==
  /\ apc[a] = "claim"
  /\ apc' = [apc EXCEPT ![a] = IF snapshot = NoSnapshot THEN "fallback" ELSE "revive"]
  /\ held' = [held EXCEPT ![a] = snapshot]
  /\ snapshot' = NoSnapshot
  /\ UNCHANGED <<status, requests, memVars, loopVars, choice, row, target,
                 cancelVars, restarts, executed>>

(* ResumeApprovedRun: the agent is gone, or UPDATE ... status<>'cancelled'. *)
Revive(a) ==
  /\ apc[a] = "revive"
  /\ \/ /\ status # "cancelled"
        /\ status' = "failed"
        /\ apc' = [apc EXCEPT ![a] = "idle"]
     \/ /\ status = "cancelled"
        /\ apc' = [apc EXCEPT ![a] = "idle"]
        /\ UNCHANGED status
     \/ /\ status # "cancelled"
        /\ status' = "running"
        /\ apc' = [apc EXCEPT ![a] = "spawn"]
  /\ UNCHANGED <<snapshot, requests, memVars, loopVars, choice, row, target, held,
                 cancelVars, restarts, executed>>

(* go h.executeRun(context.Background(), ..., resume: st, resumeDecision). *)
Spawn(a) ==
  /\ AGoto(a, "spawn", "idle")
  /\ \E t \in Idle :
       /\ pc' = [pc EXCEPT ![t] = "start"]
       /\ call' = [call EXCEPT ![t] = held[a].call]
       /\ steps' = [steps EXCEPT ![t] = held[a].steps]
       /\ decision' = [decision EXCEPT ![t] = choice[a]]
  /\ UNCHANGED <<dbVars, memVars, ctxDone, choice, row, target, held,
                 cancelVars, restarts, executed>>

(* "Approval received but run goroutine no longer active": no guard. *)
FailUnresumable(a) ==
  /\ AGoto(a, "fallback", "idle")
  /\ status' = "failed"
  /\ UNCHANGED <<snapshot, requests, memVars, loopVars, choice, row, target, held,
                 cancelVars, restarts, executed>>

-----------------------------------------------------------------------------
(* POST /runs/{id}/cancel *)

CancelStatus ==
  /\ cpc = "idle" /\ cpc' = "stop"
  /\ cancels < MaxCancels /\ cancels' = cancels + 1
  /\ status \in Active
  /\ status' = "cancelled"
  /\ UNCHANGED <<snapshot, requests, memVars, loopVars, approveVars, restarts, executed>>

(* cancelRun(runID) *)
CancelGoroutine ==
  /\ cpc = "stop" /\ cpc' = "purge"
  /\ ctxDone' = [t \in Loops |-> ctxDone[t] \/ t = cancelFn]
  /\ cancelFn' = NoLoop
  /\ UNCHANGED <<dbVars, registry, chan, mutex, client, pc, call, steps, decision,
                 approveVars, cancels, restarts, executed>>

(* deleteWaitState *)
CancelPurge ==
  /\ cpc = "purge" /\ cpc' = "idle"
  /\ snapshot' = NoSnapshot
  /\ UNCHANGED <<status, requests, memVars, loopVars, approveVars, cancels, restarts, executed>>

-----------------------------------------------------------------------------
(* The environment *)

(* The SSE client goes away: r.Context() is cancelled. *)
ClientDisconnects ==
  /\ client # NoLoop
  /\ client' = NoLoop
  /\ ctxDone' = [ctxDone EXCEPT ![client] = TRUE]
  /\ UNCHANGED <<dbVars, registry, chan, mutex, cancelFn, pc, call, steps, decision,
                 approveVars, cancelVars, restarts, executed>>

(* Another run of the conversation takes and releases its mutex. *)
OtherRunLocks ==
  /\ mutex = NoLoop
  /\ mutex' = OtherRun
  /\ UNCHANGED <<dbVars, registry, chan, cancelFn, client, loopVars, approveVars,
                 cancelVars, restarts, executed>>

OtherRunUnlocks ==
  /\ mutex = OtherRun
  /\ mutex' = NoLoop
  /\ UNCHANGED <<dbVars, registry, chan, cancelFn, client, loopVars, approveVars,
                 cancelVars, restarts, executed>>

(* The API process dies, and the next one sweeps orphaned runs at boot:    *)
(* running and pending runs fail, and so do waiting runs with no snapshot. *)
Restart ==
  /\ restarts < MaxRestarts /\ restarts' = restarts + 1
  /\ status' = IF \/ status \in {"pending", "running"}
                  \/ status = "approval_wait" /\ snapshot = NoSnapshot
               THEN "failed" ELSE status
  /\ registry' = NoLoop
  /\ chan' = [t \in Loops |-> "none"]
  /\ mutex' = NoLoop
  /\ cancelFn' = NoLoop
  /\ client' = NoLoop
  /\ pc' = [t \in Loops |-> "idle"]
  /\ call' = [t \in Loops |-> 0]
  /\ steps' = [t \in Loops |-> 0]
  /\ decision' = [t \in Loops |-> "none"]
  /\ ctxDone' = [t \in Loops |-> FALSE]
  /\ apc' = [a \in Approvers |-> "idle"]
  /\ target' = [a \in Approvers |-> NoLoop]
  /\ cpc' = "idle"
  /\ UNCHANGED <<snapshot, requests, choice, row, held, cancels, executed>>

-----------------------------------------------------------------------------
(* What a scheduled goroutine or handler does next; the lock apart. *)
LoopStep(t) ==
  \/ RegisterRunCancel(t) \/ ClaimRun(t) \/ Abort(t) \/ FailRun(t) \/ Succeed(t) \/ Exit(t)
  \/ CallModel(t) \/ Dispatch(t) \/ ApplyDecision(t) \/ ExecuteTool(t)
  \/ InsertRequest(t) \/ MarkWaiting(t) \/ SaveWaitState(t) \/ RegisterApprovalWait(t)
  \/ ReceiveDecision(t) \/ ExpireWait(t) \/ GiveUpOnSender(t)
  \/ DropWaitState(t) \/ UnmarkWaiting(t)

ApproveStep(a) ==
  \/ PickRequest(a) \/ RecordDecision(a) \/ ClaimChannel(a) \/ Deliver(a)
  \/ ClaimWaitState(a) \/ Revive(a) \/ Spawn(a) \/ FailUnresumable(a)

CancelStep == CancelGoroutine \/ CancelPurge

Next ==
  \/ \E t \in Loops : LoopStep(t) \/ LockConversation(t)
  \/ \E a \in Approvers : ReadStatus(a) \/ ApproveStep(a)
  \/ CancelStatus \/ CancelStep
  \/ ClientDisconnects \/ OtherRunLocks \/ OtherRunUnlocks \/ Restart

Spec == Init /\ [][Next]_vars

(* Goroutines and handlers are scheduled and timers fire; sync.Mutex hands *)
(* over to a starved waiter, so a queued run gets its turn; other runs of  *)
(* the conversation end.  Nobody has to approve, cancel or disconnect.     *)
Fairness ==
  /\ \A t \in Loops : WF_vars(LoopStep(t)) /\ SF_vars(LockConversation(t))
  /\ \A a \in Approvers : WF_vars(ApproveStep(a))
  /\ WF_vars(CancelStep)
  /\ WF_vars(OtherRunUnlocks)

FairSpec == Spec /\ Fairness
-----------------------------------------------------------------------------
(* Correctness *)

(* The shape of every variable: database rows, goroutine positions, the    *)
(* handlers and the history.                                               *)
TypeOK ==
  /\ status \in Status
  /\ snapshot \in Snapshot
  /\ requests \in Seq(Request)
  /\ registry \in Loops \cup {NoLoop}
  /\ chan \in [Loops -> Verdict \cup {"none"}]
  /\ mutex \in Loops \cup {NoLoop, OtherRun}
  /\ cancelFn \in Loops \cup {NoLoop}
  /\ client \in Loops \cup {NoLoop}
  /\ pc \in [Loops -> LoopPC]
  /\ call \in [Loops -> 0..Calls]
  /\ steps \in [Loops -> 0..(MaxSteps + 1)]
  /\ decision \in [Loops -> Verdict \cup {"none"}]
  /\ ctxDone \in [Loops -> BOOLEAN]
  /\ apc \in [Approvers -> ApprovePC]
  /\ choice \in [Approvers -> Verdict \cup {"none"}]
  /\ row \in [Approvers -> Nat]
  /\ target \in [Approvers -> Loops \cup {NoLoop}]
  /\ held \in [Approvers -> Snapshot]
  /\ cpc \in CancelPC
  /\ cancels \in Nat /\ restarts \in Nat
  /\ executed \in [1..Calls -> Nat]

(* A tool call of the run is executed at most once, however often the run  *)
(* parks, is resumed, is cancelled or loses its process around the call:   *)
(* the channel and the claim of the snapshot never both hand it on.        *)
AtMostOnce == \A k \in 1..Calls : executed[k] <= 1

(* A tool with requires_approval runs only once a human has approved that  *)
(* very call: the decision that reached the gate is the one on record.     *)
ApprovedFirst ==
  \A k \in Gated : executed[k] > 0 =>
    \E i \in DOMAIN requests : requests[i].call = k /\ requests[i].status = "approved"

(* max_steps bounds the whole run, across parks and resumes: the snapshot  *)
(* carries the step count on.  (The check comes after the step, so one     *)
(* call more than max_steps is executed.)                                  *)
StepBudget == Cardinality({k \in 1..Calls : executed[k] > 0}) <= MaxSteps + 1

(* The run keeps the promise of ToolCallOrder: its calls are executed in   *)
(* the order the model asked for them, across every park and resume.       *)
ApprovedCalls ==
  {requests[i].call : i \in {j \in DOMAIN requests : requests[j].status = "approved"}}
Promise == INSTANCE ToolCallOrder WITH approved <- ApprovedCalls
KeepsCallOrder == Promise!Spec

(* A run shown as running is being executed, or is about to be: a          *)
(* goroutine exists, or the handler that resumes the run is to start it.   *)
(* (Not so once the loop's ctx was cancelled: the statements of the gate   *)
(* then do nothing, and a run can park while it is shown as running.)      *)
Interrupted == cancels > 0 \/ (Streaming /\ client = NoLoop)

RunningIsLive ==
  status \in {"pending", "running"} /\ ~Interrupted =>
    \/ \E t \in Loops : pc[t] # "idle"
    \/ \E a \in Approvers : apc[a] = "spawn"

(* A run left in approval_wait, with no goroutine and no decision under    *)
(* way, still has a pending approval request, so that somebody can decide. *)
WaitingIsDecidable ==
  (/\ status = "approval_wait"
   /\ Idle = Loops
   /\ \A a \in Approvers : apc[a] \in {"idle", "pick"}) => Pending # {}

(* "Cancel is terminal: never resurrect a cancelled run with a later       *)
(* status write."                                                          *)
CancelIsTerminal == [][status = "cancelled" => status' = "cancelled"]_status

(* "No goroutine is waiting": when Approve gives a run up because it found *)
(* neither a channel nor a snapshot, no goroutine is executing the run.    *)
GivesUpOnlyTheDead == [][(\E a \in Approvers : FailUnresumable(a)) => Idle = Loops]_vars

(* Every goroutine ends: it is never stuck behind the conversation mutex,  *)
(* at the gate, or waiting for a send that never comes.                    *)
LoopsFinish == \A t \in Loops : pc[t] # "idle" ~> pc[t] = "idle"

(* Once a decision is on record the run leaves approval_wait, whichever of *)
(* the channel, the snapshot and the fallback carries the decision on.     *)
DecisionTakesEffect == \A a \in Approvers : apc[a] = "send" ~> status # "approval_wait"
=============================================================================
