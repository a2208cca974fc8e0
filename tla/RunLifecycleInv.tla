-------------------------- MODULE RunLifecycleInv --------------------------
(***************************************************************************)
(* The inductive invariants behind the safety properties of RunLifecycle.  *)
(*                                                                         *)
(* The right to go on with the run is a token.  It is with the goroutine   *)
(* that executes the run, or it lies in the snapshot, or it is with the    *)
(* Approve handler that claimed the snapshot.  A goroutine at the gate and *)
(* its snapshot both hold it, until the decision on the pending request    *)
(* goes to one of them.  That there is one such decision depends on the    *)
(* approvals being serial; see RunDoubleApprove.cfg for what happens       *)
(* otherwise.                                                              *)
(***************************************************************************)
EXTENDS RunLifecycle

(* No two Approve requests are handled at a time. *)
SerialApprovals == \A a, b \in Approvers : a = b

-----------------------------------------------------------------------------
(* Part 1, for any number of approvers: the type invariant, strengthened   *)
(* by the ranges it depends on.                                            *)

Waiting == {"start", "queued"}
AtCall == {"dispatch", "insert", "mark", "save", "register", "await", "inflight",
           "resolve", "unmark", "decide", "exec"}

LoopRanges ==
  \A t \in Loops :
    /\ pc[t] \in AtCall => call[t] >= 1
    /\ pc[t] \in Waiting \cup {"claim"} /\ decision[t] # "none" => call[t] >= 1
    /\ pc[t] \notin {"fail", "exit"} => steps[t] <= MaxSteps
    /\ pc[t] \in {"resolve", "unmark", "decide"} => decision[t] # "none"

SnapshotRange(s) == s.steps <= MaxSteps /\ (s # NoSnapshot => s.call >= 1)

ApproveRanges ==
  \A a \in Approvers :
    /\ SnapshotRange(held[a])
    /\ apc[a] # "idle" => choice[a] \in Verdict
    /\ apc[a] \in {"revive", "spawn"} => held[a] # NoSnapshot

TypeInv == TypeOK /\ LoopRanges /\ SnapshotRange(snapshot) /\ ApproveRanges

-----------------------------------------------------------------------------
(* Part 2, for serial approvals: where the token is. *)

Stopped == {"register", "await", "inflight", "fail", "exit"}  \* cannot go on unaided
AtGate == {"mark", "save", "register", "await", "inflight"}
Sole == Waiting \cup {"claim", "think", "dispatch", "insert", "resolve", "unmark",
                      "decide", "exec", "reply"}   \* no decision is outstanding

NoOneDecides == Pending = {} /\ \A a \in Approvers : apc[a] \in {"idle", "pick"}

(* Goroutines: one holds the mutex, at most one more waits for it, and that *)
(* one took the token from the first.                                       *)
MutexInv == \A t \in Loops : pc[t] \notin Waiting \cup {"idle"} => mutex = t

SuccessorInv ==
  \A t \in Loops : pc[t] \in Waiting =>
    \A u \in Loops \ {t} : pc[u] \in Stopped \cup {"idle"} /\ chan[u] = "none"

SoleInv == \A t \in Loops : pc[t] \in Sole => NoOneDecides

ConsumedInv ==
  \A t \in Loops : pc[t] \notin Stopped \cup {"idle", "resolve"} => snapshot = NoSnapshot

UndecidedInv ==
  \A t \in Loops :
    pc[t] \in AtGate \cup {"think", "insert", "exec"} => decision[t] = "none"

LoopInv == MutexInv /\ SuccessorInv /\ SoleInv /\ ConsumedInv /\ UndecidedInv

(* The channel: registered by the goroutine that awaits it, empty until the *)
(* only sender has used it.                                                 *)
ChannelInv ==
  /\ registry # NoLoop => pc[registry] = "await" /\ chan[registry] = "none"
  /\ \A t \in Loops : chan[t] # "none" =>
       pc[t] \in {"await", "inflight"} /\ registry = NoLoop /\ NoOneDecides

(* The snapshot and the rows of approval_requests. *)
RequestInv ==
  /\ \A i, j \in Pending : i = j
  /\ \A i \in Pending :
       /\ snapshot # NoSnapshot => snapshot.call = requests[i].call
       /\ \A t \in Loops : pc[t] \in AtGate => call[t] = requests[i].call

Deciding == {"send", "deliver", "claim", "revive", "spawn", "fallback"}

(* The Approve handler, from picking the request to handing the decision on. *)
RecordInv ==
  \A a \in Approvers :
    /\ apc[a] = "record" => row[a] \in Pending
    /\ apc[a] \in Deciding =>
         /\ Pending = {}
         /\ row[a] \in DOMAIN requests
         /\ requests[row[a]].status = choice[a]

CarryInv ==
  \A a \in Approvers : apc[a] \in {"send", "claim"} =>
    /\ snapshot # NoSnapshot => snapshot.call = requests[row[a]].call
    /\ \A t \in Loops : pc[t] \in AtGate => call[t] = requests[row[a]].call

DeliverInv ==
  \A a \in Approvers : target[a] # NoLoop =>
    /\ apc[a] = "deliver"
    /\ pc[target[a]] \in {"await", "inflight"}
    /\ registry = NoLoop
    /\ call[target[a]] = requests[row[a]].call

ReviveInv ==
  \A a \in Approvers : apc[a] \in {"revive", "spawn"} =>
    /\ snapshot = NoSnapshot
    /\ \A t \in Loops : pc[t] \in Stopped \cup {"idle"}
    /\ held[a].call = requests[row[a]].call

ApproveInv == RecordInv /\ CarryInv /\ DeliverInv /\ ReviveInv

HasApproval(k) ==
  \E i \in DOMAIN requests : requests[i].call = k /\ requests[i].status = "approved"

(* An approval that travels is an approval on record. *)
ApprovalInv ==
  \A t \in Loops :
    /\ decision[t] = "approved" => HasApproval(call[t])
    /\ chan[t] = "approved" => HasApproval(call[t])
    /\ pc[t] = "exec" /\ call[t] \in Gated => HasApproval(call[t])

(* Nothing from call k on has been executed, and the n steps counted so far *)
(* cover what was.                                                          *)
Done == {k \in 1..Calls : executed[k] > 0}
Untouched(k, n) == (\A j \in 1..Calls : j >= k => executed[j] = 0) /\ Cardinality(Done) <= n

(* Whoever holds the token goes on behind everything that was executed. *)
FrontierInv ==
  /\ \A t \in Loops :
       /\ pc[t] \in Waiting \cup {"claim"} \cup AtCall => Untouched(call[t], steps[t])
       /\ pc[t] = "think" => Untouched(call[t] + 1, steps[t])
  /\ snapshot # NoSnapshot => Untouched(snapshot.call, snapshot.steps)
  /\ \A a \in Approvers :
       apc[a] \in {"revive", "spawn"} => Untouched(held[a].call, held[a].steps)
  /\ \A i \in Pending : executed[requests[i].call] = 0

TokenInv ==
  /\ LoopInv /\ ChannelInv /\ RequestInv /\ ApproveInv
  /\ ApprovalInv /\ FrontierInv
  /\ AtMostOnce /\ ApprovedFirst /\ StepBudget
-----------------------------------------------------------------------------
(* Part 3, for any number of approvers: who answers for a run that is shown *)
(* as running, as long as nothing has interrupted it.                      *)

(* A goroutine in one of these places will write the status again.         *)
InCharge == Waiting \cup {"claim", "think", "dispatch", "insert", "mark", "resolve",
                          "unmark", "decide", "exec", "reply", "fail"}

Undisturbed == cancels = 0 /\ ~Streaming

LiveInv ==
  /\ cpc = "stop" => cancels > 0
  /\ ~Streaming => client = NoLoop
  /\ client # NoLoop => pc[client] # "idle"
  /\ Undisturbed => \A t \in Loops : ~ctxDone[t]
  /\ status \in {"pending", "running"} /\ Undisturbed =>
       \/ \E t \in Loops : pc[t] \in InCharge
       \/ \E a \in Approvers : apc[a] = "spawn"
=============================================================================
