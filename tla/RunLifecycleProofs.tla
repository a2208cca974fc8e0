------------------------- MODULE RunLifecycleProofs -------------------------
(***************************************************************************)
(* Type correctness of RunLifecycle for any number of approvers; the token  *)
(* invariant, and what follows from it: while approvals are serial every   *)
(* tool call is executed at most once, after its approval, within the step *)
(* budget and in the order of the model's requests, for every number of    *)
(* goroutines, calls, cancels and crashes; and a run shown as running is   *)
(* in somebody's charge, approvals in series or not.                       *)
(***************************************************************************)
EXTENDS RunLifecycleInv, SequenceTheorems, FiniteSetTheorems, TLAPS

-----------------------------------------------------------------------------
(* Type correctness *)

(* Deciding a request leaves a sequence of requests. *)
LEMMA ExceptReq ==
  ASSUME NEW s \in Seq(Request), NEW i \in Nat, NEW v \in Verdict
  PROVE  [s EXCEPT ![i].status = v] \in Seq(Request)
<1>1. CASE i \in DOMAIN s
  <2>1. i \in 1..Len(s)
    BY <1>1
  <2>2. [s[i] EXCEPT !.status = v] \in Request
    <3>1. s[i] \in Request
      BY <2>1
    <3> QED BY <3>1 DEF Request, Verdict
  <2> QED BY <2>1, <2>2, ExceptSeq
<1>2. CASE i \notin DOMAIN s
  <2>1. [s EXCEPT ![i].status = v] = s
    BY <1>2
  <2> QED BY <2>1
<1> QED BY <1>1, <1>2

(* The initial states are typed. *)
LEMMA TypeInit == ASSUME Init PROVE TypeInv
<1>1. snapshot \in Snapshot /\ requests \in Seq(Request)
  BY CallsAssumption, StepsAssumption DEF Init, Snapshot, NoSnapshot
<1>2. TypeOK
  BY <1>1, LoopsAssumption, CallsAssumption, StepsAssumption
  DEF Init, TypeOK, Status, Verdict, LoopPC, ApprovePC, CancelPC, NoSnapshot, Snapshot
<1>3. LoopRanges /\ SnapshotRange(snapshot) /\ ApproveRanges
  BY StepsAssumption, LoopsAssumption
  DEF Init, LoopRanges, ApproveRanges, SnapshotRange, NoSnapshot, AtCall, Waiting
<1> QED BY <1>2, <1>3 DEF TypeInv

(* Every action keeps the types and the ranges they rest on. *)
LEMMA TypeStep == ASSUME TypeInv, [Next]_vars PROVE TypeInv'
<1> USE DEF TypeInv, dbVars, memVars, loopVars, approveVars, cancelVars
<1>1. ASSUME NEW t \in Loops, RegisterRunCancel(t) PROVE TypeInv'
  <2> USE <1>1 DEF RegisterRunCancel, Goto
  <2>1. TypeOK'
    <3>1. pc' \in [Loops -> LoopPC]
      BY DEF TypeOK, LoopPC
    <3> QED BY <3>1 DEF TypeOK
  <2>2. LoopRanges'
    BY DEF TypeOK, LoopRanges, AtCall, Waiting
  <2>3. SnapshotRange(snapshot)' /\ ApproveRanges'
    BY DEF ApproveRanges, SnapshotRange
  <2> QED BY <2>1, <2>2, <2>3
<1>2. ASSUME NEW t \in Loops, LockConversation(t) PROVE TypeInv'
  <2> USE <1>2 DEF LockConversation, Goto
  <2>1. TypeOK'
    <3>1. pc' \in [Loops -> LoopPC]
      BY DEF TypeOK, LoopPC
    <3> QED BY <3>1 DEF TypeOK
  <2>2. LoopRanges'
    BY DEF TypeOK, LoopRanges, AtCall, Waiting
  <2>3. SnapshotRange(snapshot)' /\ ApproveRanges'
    BY DEF ApproveRanges, SnapshotRange
  <2> QED BY <2>1, <2>2, <2>3
<1>3. ASSUME NEW t \in Loops, ClaimRun(t) PROVE TypeInv'
  <2> USE <1>3 DEF ClaimRun
  <2>1. TypeOK'
    <3>1. pc' \in [Loops -> LoopPC]
      BY DEF TypeOK, LoopPC
    <3>2. status' \in Status
      BY DEF TypeOK, Status
    <3> QED BY <3>1, <3>2 DEF TypeOK
  <2>2. LoopRanges'
    BY DEF TypeOK, LoopRanges, AtCall, Waiting
  <2>3. SnapshotRange(snapshot)' /\ ApproveRanges'
    BY DEF ApproveRanges, SnapshotRange
  <2> QED BY <2>1, <2>2, <2>3
<1>4. ASSUME NEW t \in Loops, Abort(t) PROVE TypeInv'
  <2> USE <1>4 DEF Abort
  <2>1. TypeOK'
    <3>1. pc' \in [Loops -> LoopPC]
      BY DEF TypeOK, LoopPC
    <3> QED BY <3>1 DEF TypeOK
  <2>2. LoopRanges'
    BY DEF TypeOK, LoopRanges, AtCall, Waiting
  <2>3. SnapshotRange(snapshot)' /\ ApproveRanges'
    BY DEF ApproveRanges, SnapshotRange
  <2> QED BY <2>1, <2>2, <2>3
<1>5. ASSUME NEW t \in Loops, FailRun(t) PROVE TypeInv'
  <2> USE <1>5 DEF FailRun, Goto
  <2>1. TypeOK'
    <3>1. pc' \in [Loops -> LoopPC]
      BY DEF TypeOK, LoopPC
    <3>2. status' \in Status
      BY DEF TypeOK, Status
    <3> QED BY <3>1, <3>2 DEF TypeOK
  <2>2. LoopRanges'
    BY DEF TypeOK, LoopRanges, AtCall, Waiting
  <2>3. SnapshotRange(snapshot)' /\ ApproveRanges'
    BY DEF ApproveRanges, SnapshotRange
  <2> QED BY <2>1, <2>2, <2>3
<1>6. ASSUME NEW t \in Loops, Succeed(t) PROVE TypeInv'
  <2> USE <1>6 DEF Succeed, Goto
  <2>1. TypeOK'
    <3>1. pc' \in [Loops -> LoopPC]
      BY DEF TypeOK, LoopPC
    <3>2. status' \in Status
      BY DEF TypeOK, Status
    <3> QED BY <3>1, <3>2 DEF TypeOK
  <2>2. LoopRanges'
    BY DEF TypeOK, LoopRanges, AtCall, Waiting
  <2>3. SnapshotRange(snapshot)' /\ ApproveRanges'
    BY DEF ApproveRanges, SnapshotRange
  <2> QED BY <2>1, <2>2, <2>3
<1>7. ASSUME NEW t \in Loops, Exit(t) PROVE TypeInv'
  <2> USE <1>7 DEF Exit, Goto
  <2>1. TypeOK'
    <3>1. pc' \in [Loops -> LoopPC]
      BY DEF TypeOK, LoopPC
    <3>2. call' \in [Loops -> 0..Calls]
      BY CallsAssumption DEF TypeOK
    <3>3. steps' \in [Loops -> 0..(MaxSteps + 1)]
      BY StepsAssumption DEF TypeOK
    <3>4. decision' \in [Loops -> Verdict \cup {"none"}]
      BY DEF TypeOK
    <3>5. ctxDone' \in [Loops -> BOOLEAN]
      BY DEF TypeOK
    <3> QED BY <3>1, <3>2, <3>3, <3>4, <3>5 DEF TypeOK
  <2>2. LoopRanges'
    BY StepsAssumption DEF TypeOK, LoopRanges, AtCall, Waiting
  <2>3. SnapshotRange(snapshot)' /\ ApproveRanges'
    BY DEF ApproveRanges, SnapshotRange
  <2> QED BY <2>1, <2>2, <2>3
<1>8. ASSUME NEW t \in Loops, CallModel(t) PROVE TypeInv'
  <2> USE <1>8 DEF CallModel
  <2>1. TypeOK'
    <3>1. pc' \in [Loops -> LoopPC]
      BY DEF TypeOK, LoopPC
    <3>2. call' \in [Loops -> 0..Calls]
      BY SMTT(30), CallsAssumption DEF TypeOK
    <3> QED BY <3>1, <3>2 DEF TypeOK
  <2>2. LoopRanges'
    BY DEF TypeOK, LoopRanges, AtCall, Waiting
  <2>3. SnapshotRange(snapshot)' /\ ApproveRanges'
    BY DEF ApproveRanges, SnapshotRange
  <2> QED BY <2>1, <2>2, <2>3
<1>9. ASSUME NEW t \in Loops, Dispatch(t) PROVE TypeInv'
  <2> USE <1>9 DEF Dispatch
  <2>1. TypeOK'
    <3>1. pc' \in [Loops -> LoopPC]
      BY DEF TypeOK, LoopPC
    <3> QED BY <3>1 DEF TypeOK
  <2>2. LoopRanges'
    BY DEF TypeOK, LoopRanges, AtCall, Waiting
  <2>3. SnapshotRange(snapshot)' /\ ApproveRanges'
    BY DEF ApproveRanges, SnapshotRange
  <2> QED BY <2>1, <2>2, <2>3
<1>10. ASSUME NEW t \in Loops, ApplyDecision(t) PROVE TypeInv'
  <2> USE <1>10 DEF ApplyDecision
  <2>1. TypeOK'
    <3>1. pc' \in [Loops -> LoopPC]
      BY DEF TypeOK, LoopPC
    <3>2. decision' \in [Loops -> Verdict \cup {"none"}]
      BY DEF TypeOK
    <3> QED BY <3>1, <3>2 DEF TypeOK
  <2>2. LoopRanges'
    BY DEF TypeOK, LoopRanges, AtCall, Waiting
  <2>3. SnapshotRange(snapshot)' /\ ApproveRanges'
    BY DEF ApproveRanges, SnapshotRange
  <2> QED BY <2>1, <2>2, <2>3
<1>11. ASSUME NEW t \in Loops, ExecuteTool(t) PROVE TypeInv'
  <2> USE <1>11 DEF ExecuteTool
  <2>1. TypeOK'
    <3>1. pc' \in [Loops -> LoopPC]
      BY DEF TypeOK, LoopPC
    <3>2. steps' \in [Loops -> 0..(MaxSteps + 1)]
      <4>1. steps[t] \in 0..(MaxSteps + 1) /\ steps[t] <= MaxSteps
        BY DEF TypeOK, LoopRanges
      <4> QED BY <4>1, StepsAssumption DEF TypeOK
    <3>3. executed' \in [1..Calls -> Nat]
      BY SMTT(30), CallsAssumption DEF TypeOK, LoopRanges, AtCall
    <3> QED BY <3>1, <3>2, <3>3 DEF TypeOK
  <2>2. LoopRanges'
    BY SMTT(30), StepsAssumption DEF TypeOK, LoopRanges, AtCall, Waiting
  <2>3. SnapshotRange(snapshot)' /\ ApproveRanges'
    BY DEF ApproveRanges, SnapshotRange
  <2> QED BY <2>1, <2>2, <2>3
<1>12. ASSUME NEW t \in Loops, InsertRequest(t) PROVE TypeInv'
  <2> USE <1>12 DEF InsertRequest, Goto
  <2>1. TypeOK'
    <3>1. pc' \in [Loops -> LoopPC]
      BY DEF TypeOK, LoopPC
    <3>2. requests' \in Seq(Request)
      <4>1. [call |-> call[t], status |-> "pending"] \in Request
        BY CallsAssumption DEF TypeOK, LoopRanges, AtCall, Request
      <4> QED BY <4>1 DEF TypeOK
    <3> QED BY <3>1, <3>2 DEF TypeOK
  <2>2. LoopRanges'
    BY DEF TypeOK, LoopRanges, AtCall, Waiting
  <2>3. SnapshotRange(snapshot)' /\ ApproveRanges'
    BY DEF ApproveRanges, SnapshotRange
  <2> QED BY <2>1, <2>2, <2>3
<1>13. ASSUME NEW t \in Loops, MarkWaiting(t) PROVE TypeInv'
  <2> USE <1>13 DEF MarkWaiting, Goto
  <2>1. TypeOK'
    <3>1. pc' \in [Loops -> LoopPC]
      BY DEF TypeOK, LoopPC
    <3>2. status' \in Status
      BY DEF TypeOK, Status
    <3> QED BY <3>1, <3>2 DEF TypeOK
  <2>2. LoopRanges'
    BY DEF TypeOK, LoopRanges, AtCall, Waiting
  <2>3. SnapshotRange(snapshot)' /\ ApproveRanges'
    BY DEF ApproveRanges, SnapshotRange
  <2> QED BY <2>1, <2>2, <2>3
<1>14. ASSUME NEW t \in Loops, SaveWaitState(t) PROVE TypeInv'
  <2> USE <1>14 DEF SaveWaitState, Goto
  <2>1. TypeOK'
    <3>1. pc' \in [Loops -> LoopPC]
      BY DEF TypeOK, LoopPC
    <3>2. snapshot' \in Snapshot
      BY DEF TypeOK, Snapshot
    <3> QED BY <3>1, <3>2 DEF TypeOK
  <2>2. LoopRanges'
    BY DEF TypeOK, LoopRanges, AtCall, Waiting
  <2>3. SnapshotRange(snapshot)' /\ ApproveRanges'
    <3>1. call[t] >= 1 /\ steps[t] <= MaxSteps
      BY DEF LoopRanges, AtCall
    <3>2. SnapshotRange([call |-> call[t], steps |-> steps[t]])
      BY <3>1 DEF SnapshotRange
    <3>3. SnapshotRange(snapshot')
      BY <3>2
    <3>4. ApproveRanges'
      BY DEF ApproveRanges
    <3> QED BY <3>3, <3>4 DEF SnapshotRange
  <2> QED BY <2>1, <2>2, <2>3
<1>15. ASSUME NEW t \in Loops, RegisterApprovalWait(t) PROVE TypeInv'
  <2> USE <1>15 DEF RegisterApprovalWait, Goto
  <2>1. TypeOK'
    <3>1. pc' \in [Loops -> LoopPC]
      BY DEF TypeOK, LoopPC
    <3>2. chan' \in [Loops -> Verdict \cup {"none"}]
      BY DEF TypeOK
    <3> QED BY <3>1, <3>2 DEF TypeOK
  <2>2. LoopRanges'
    BY DEF TypeOK, LoopRanges, AtCall, Waiting
  <2>3. SnapshotRange(snapshot)' /\ ApproveRanges'
    BY DEF ApproveRanges, SnapshotRange
  <2> QED BY <2>1, <2>2, <2>3
<1>16. ASSUME NEW t \in Loops, ReceiveDecision(t) PROVE TypeInv'
  <2> USE <1>16 DEF ReceiveDecision
  <2>1. TypeOK'
    <3>1. pc' \in [Loops -> LoopPC]
      BY DEF TypeOK, LoopPC
    <3>2. chan' \in [Loops -> Verdict \cup {"none"}]
      BY DEF TypeOK
    <3>3. decision' \in [Loops -> Verdict \cup {"none"}]
      BY DEF TypeOK
    <3> QED BY <3>1, <3>2, <3>3 DEF TypeOK
  <2>2. LoopRanges'
    BY DEF TypeOK, LoopRanges, AtCall, Waiting
  <2>3. SnapshotRange(snapshot)' /\ ApproveRanges'
    BY DEF ApproveRanges, SnapshotRange
  <2> QED BY <2>1, <2>2, <2>3
<1>17. ASSUME NEW t \in Loops, ExpireWait(t) PROVE TypeInv'
  <2> USE <1>17 DEF ExpireWait, ParkOrFail
  <2>1. TypeOK'
    <3>1. pc' \in [Loops -> LoopPC]
      BY DEF TypeOK, LoopPC
    <3>2. chan' \in [Loops -> Verdict \cup {"none"}]
      BY DEF TypeOK
    <3>3. decision' \in [Loops -> Verdict \cup {"none"}]
      BY DEF TypeOK
    <3> QED BY <3>1, <3>2, <3>3 DEF TypeOK
  <2>2. LoopRanges'
    BY DEF TypeOK, LoopRanges, AtCall, Waiting
  <2>3. SnapshotRange(snapshot)' /\ ApproveRanges'
    BY DEF ApproveRanges, SnapshotRange
  <2> QED BY <2>1, <2>2, <2>3
<1>18. ASSUME NEW t \in Loops, GiveUpOnSender(t) PROVE TypeInv'
  <2> USE <1>18 DEF GiveUpOnSender, Goto, ParkOrFail
  <2>1. TypeOK'
    <3>1. pc' \in [Loops -> LoopPC]
      BY DEF TypeOK, LoopPC
    <3>2. target' \in [Approvers -> Loops \cup {NoLoop}]
      BY DEF TypeOK
    <3> QED BY <3>1, <3>2 DEF TypeOK
  <2>2. LoopRanges'
    BY DEF TypeOK, LoopRanges, AtCall, Waiting
  <2>3. SnapshotRange(snapshot)' /\ ApproveRanges'
    BY DEF ApproveRanges, SnapshotRange
  <2> QED BY <2>1, <2>2, <2>3
<1>19. ASSUME NEW t \in Loops, DropWaitState(t) PROVE TypeInv'
  <2> USE <1>19 DEF DropWaitState, Goto
  <2>1. TypeOK'
    <3>1. pc' \in [Loops -> LoopPC]
      BY DEF TypeOK, LoopPC
    <3>2. snapshot' \in Snapshot
      BY CallsAssumption, StepsAssumption DEF TypeOK, Snapshot, NoSnapshot
    <3> QED BY <3>1, <3>2 DEF TypeOK
  <2>2. LoopRanges'
    BY DEF TypeOK, LoopRanges, AtCall, Waiting
  <2>3. SnapshotRange(snapshot)' /\ ApproveRanges'
    BY StepsAssumption DEF ApproveRanges, SnapshotRange, NoSnapshot
  <2> QED BY <2>1, <2>2, <2>3
<1>20. ASSUME NEW t \in Loops, UnmarkWaiting(t) PROVE TypeInv'
  <2> USE <1>20 DEF UnmarkWaiting, Goto
  <2>1. TypeOK'
    <3>1. pc' \in [Loops -> LoopPC]
      BY DEF TypeOK, LoopPC
    <3>2. status' \in Status
      BY DEF TypeOK, Status
    <3> QED BY <3>1, <3>2 DEF TypeOK
  <2>2. LoopRanges'
    BY DEF TypeOK, LoopRanges, AtCall, Waiting
  <2>3. SnapshotRange(snapshot)' /\ ApproveRanges'
    BY DEF ApproveRanges, SnapshotRange
  <2> QED BY <2>1, <2>2, <2>3
<1>21. ASSUME NEW a \in Approvers, ReadStatus(a) PROVE TypeInv'
  <2> USE <1>21 DEF ReadStatus, AGoto
  <2>1. TypeOK'
    <3>1. apc' \in [Approvers -> ApprovePC]
      BY DEF TypeOK, ApprovePC
    <3>2. choice' \in [Approvers -> Verdict \cup {"none"}]
      BY DEF TypeOK
    <3> QED BY <3>1, <3>2 DEF TypeOK
  <2>2. LoopRanges'
    BY DEF LoopRanges
  <2>3. SnapshotRange(snapshot)' /\ ApproveRanges'
    BY DEF TypeOK, ApproveRanges
  <2> QED BY <2>1, <2>2, <2>3
<1>22. ASSUME NEW a \in Approvers, PickRequest(a) PROVE TypeInv'
  <2> USE <1>22 DEF PickRequest, Pending
  <2>1. TypeOK'
    <3>1. apc' \in [Approvers -> ApprovePC]
      BY DEF TypeOK, ApprovePC
    <3>2. row' \in [Approvers -> Nat]
      BY DEF TypeOK
    <3> QED BY <3>1, <3>2 DEF TypeOK
  <2>2. LoopRanges'
    BY DEF LoopRanges
  <2>3. SnapshotRange(snapshot)' /\ ApproveRanges'
    BY DEF TypeOK, ApproveRanges
  <2> QED BY <2>1, <2>2, <2>3
<1>23. ASSUME NEW a \in Approvers, RecordDecision(a) PROVE TypeInv'
  <2> USE <1>23 DEF RecordDecision, AGoto
  <2>1. TypeOK'
    <3>1. apc' \in [Approvers -> ApprovePC]
      BY DEF TypeOK, ApprovePC
    <3>2. requests' \in Seq(Request)
      BY ExceptReq DEF TypeOK, ApproveRanges
    <3> QED BY <3>1, <3>2 DEF TypeOK
  <2>2. LoopRanges'
    BY DEF LoopRanges
  <2>3. SnapshotRange(snapshot)' /\ ApproveRanges'
    BY DEF TypeOK, ApproveRanges
  <2> QED BY <2>1, <2>2, <2>3
<1>24. ASSUME NEW a \in Approvers, ClaimChannel(a) PROVE TypeInv'
  <2> USE <1>24 DEF ClaimChannel
  <2>1. TypeOK'
    <3>1. apc' \in [Approvers -> ApprovePC]
      BY DEF TypeOK, ApprovePC
    <3>2. target' \in [Approvers -> Loops \cup {NoLoop}]
      BY DEF TypeOK
    <3> QED BY <3>1, <3>2 DEF TypeOK
  <2>2. LoopRanges'
    BY DEF LoopRanges
  <2>3. SnapshotRange(snapshot)' /\ ApproveRanges'
    BY DEF TypeOK, ApproveRanges
  <2> QED BY <2>1, <2>2, <2>3
<1>25. ASSUME NEW a \in Approvers, Deliver(a) PROVE TypeInv'
  <2> USE <1>25 DEF Deliver, AGoto
  <2>1. TypeOK'
    <3>1. apc' \in [Approvers -> ApprovePC]
      BY DEF TypeOK, ApprovePC
    <3>2. chan' \in [Loops -> Verdict \cup {"none"}]
      BY DEF TypeOK, ApproveRanges
    <3>3. target' \in [Approvers -> Loops \cup {NoLoop}]
      BY DEF TypeOK
    <3> QED BY <3>1, <3>2, <3>3 DEF TypeOK
  <2>2. LoopRanges'
    BY DEF LoopRanges
  <2>3. SnapshotRange(snapshot)' /\ ApproveRanges'
    BY DEF TypeOK, ApproveRanges
  <2> QED BY <2>1, <2>2, <2>3
<1>26. ASSUME NEW a \in Approvers, ClaimWaitState(a) PROVE TypeInv'
  <2> USE <1>26 DEF ClaimWaitState
  <2>1. TypeOK'
    <3>1. apc' \in [Approvers -> ApprovePC]
      BY DEF TypeOK, ApprovePC
    <3>2. held' \in [Approvers -> Snapshot]
      BY DEF TypeOK
    <3>3. snapshot' \in Snapshot
      BY CallsAssumption, StepsAssumption DEF Snapshot, NoSnapshot
    <3> QED BY <3>1, <3>2, <3>3 DEF TypeOK
  <2>2. LoopRanges'
    BY DEF LoopRanges
  <2>3. SnapshotRange(snapshot)' /\ ApproveRanges'
    BY StepsAssumption DEF TypeOK, ApproveRanges, SnapshotRange, NoSnapshot
  <2> QED BY <2>1, <2>2, <2>3
<1>27. ASSUME NEW a \in Approvers, Revive(a) PROVE TypeInv'
  <2> USE <1>27 DEF Revive
  <2>1. TypeOK'
    <3>1. apc' \in [Approvers -> ApprovePC]
      BY DEF TypeOK, ApprovePC
    <3>2. status' \in Status
      BY DEF TypeOK, Status
    <3> QED BY <3>1, <3>2 DEF TypeOK
  <2>2. LoopRanges'
    BY DEF LoopRanges
  <2>3. SnapshotRange(snapshot)' /\ ApproveRanges'
    BY DEF TypeOK, ApproveRanges
  <2> QED BY <2>1, <2>2, <2>3
<1>28. ASSUME NEW a \in Approvers, Spawn(a) PROVE TypeInv'
  <2> USE <1>28 DEF Spawn, AGoto, Idle
  <2>1. TypeOK'
    <3>1. apc' \in [Approvers -> ApprovePC]
      BY DEF TypeOK, ApprovePC
    <3>2. pc' \in [Loops -> LoopPC]
      BY DEF TypeOK, LoopPC
    <3>3. call' \in [Loops -> 0..Calls]
      BY DEF TypeOK, Snapshot
    <3>4. steps' \in [Loops -> 0..(MaxSteps + 1)]
      BY SMTT(30) DEF TypeOK, Snapshot
    <3>5. decision' \in [Loops -> Verdict \cup {"none"}]
      BY DEF TypeOK
    <3> QED BY <3>1, <3>2, <3>3, <3>4, <3>5 DEF TypeOK
  <2>2. LoopRanges'
    BY DEF TypeOK, LoopRanges, AtCall, Waiting, ApproveRanges, SnapshotRange, Snapshot
  <2>3. SnapshotRange(snapshot)' /\ ApproveRanges'
    BY DEF TypeOK, ApproveRanges
  <2> QED BY <2>1, <2>2, <2>3
<1>29. ASSUME NEW a \in Approvers, FailUnresumable(a) PROVE TypeInv'
  <2> USE <1>29 DEF FailUnresumable, AGoto
  <2>1. TypeOK'
    <3>1. apc' \in [Approvers -> ApprovePC]
      BY DEF TypeOK, ApprovePC
    <3>2. status' \in Status
      BY DEF TypeOK, Status
    <3> QED BY <3>1, <3>2 DEF TypeOK
  <2>2. LoopRanges'
    BY DEF LoopRanges
  <2>3. SnapshotRange(snapshot)' /\ ApproveRanges'
    BY DEF TypeOK, ApproveRanges
  <2> QED BY <2>1, <2>2, <2>3
<1>30. CASE CancelStatus
  <2> USE <1>30 DEF CancelStatus
  <2>1. TypeOK'
    <3>1. status' \in Status
      BY DEF TypeOK, Status
    <3> QED BY <3>1 DEF TypeOK, CancelPC
  <2>2. LoopRanges'
    BY DEF LoopRanges
  <2>3. SnapshotRange(snapshot)' /\ ApproveRanges'
    BY DEF ApproveRanges, SnapshotRange
  <2> QED BY <2>1, <2>2, <2>3
<1>31. CASE CancelGoroutine
  <2> USE <1>31 DEF CancelGoroutine
  <2>1. TypeOK'
    <3>1. ctxDone' \in [Loops -> BOOLEAN]
      BY DEF TypeOK
    <3> QED BY <3>1 DEF TypeOK, CancelPC
  <2>2. LoopRanges'
    BY DEF LoopRanges
  <2>3. SnapshotRange(snapshot)' /\ ApproveRanges'
    BY DEF ApproveRanges, SnapshotRange
  <2> QED BY <2>1, <2>2, <2>3
<1>32. CASE CancelPurge
  <2> USE <1>32 DEF CancelPurge
  <2>1. TypeOK'
    <3>1. snapshot' \in Snapshot
      BY CallsAssumption, StepsAssumption DEF Snapshot, NoSnapshot
    <3> QED BY <3>1 DEF TypeOK, CancelPC
  <2>2. LoopRanges'
    BY DEF LoopRanges
  <2>3. SnapshotRange(snapshot)' /\ ApproveRanges'
    BY StepsAssumption DEF ApproveRanges, SnapshotRange, NoSnapshot
  <2> QED BY <2>1, <2>2, <2>3
<1>33. CASE ClientDisconnects
  <2> USE <1>33 DEF ClientDisconnects
  <2>1. TypeOK'
    <3>1. ctxDone' \in [Loops -> BOOLEAN]
      BY DEF TypeOK
    <3> QED BY <3>1 DEF TypeOK
  <2>2. LoopRanges'
    BY DEF LoopRanges
  <2>3. SnapshotRange(snapshot)' /\ ApproveRanges'
    BY DEF ApproveRanges, SnapshotRange
  <2> QED BY <2>1, <2>2, <2>3
<1>34. CASE OtherRunLocks
  <2> USE <1>34 DEF OtherRunLocks
  <2>1. TypeOK'
    <3> QED BY DEF TypeOK
  <2>2. LoopRanges'
    BY DEF LoopRanges
  <2>3. SnapshotRange(snapshot)' /\ ApproveRanges'
    BY DEF ApproveRanges, SnapshotRange
  <2> QED BY <2>1, <2>2, <2>3
<1>35. CASE OtherRunUnlocks
  <2> USE <1>35 DEF OtherRunUnlocks
  <2>1. TypeOK'
    <3> QED BY DEF TypeOK
  <2>2. LoopRanges'
    BY DEF LoopRanges
  <2>3. SnapshotRange(snapshot)' /\ ApproveRanges'
    BY DEF ApproveRanges, SnapshotRange
  <2> QED BY <2>1, <2>2, <2>3
<1>36. CASE Restart
  <2> USE <1>36 DEF Restart
  <2>1. TypeOK'
    <3>1. status' \in Status
      BY DEF TypeOK, Status
    <3>2. pc' \in [Loops -> LoopPC]
      BY DEF TypeOK, LoopPC
    <3>3. call' \in [Loops -> 0..Calls]
      BY CallsAssumption DEF TypeOK
    <3>4. steps' \in [Loops -> 0..(MaxSteps + 1)]
      BY StepsAssumption DEF TypeOK
    <3>5. apc' \in [Approvers -> ApprovePC]
      BY DEF TypeOK, ApprovePC
    <3> QED BY <3>1, <3>2, <3>3, <3>4, <3>5 DEF TypeOK, CancelPC
  <2>2. LoopRanges'
    BY StepsAssumption DEF TypeOK, LoopRanges, AtCall, Waiting
  <2>3. SnapshotRange(snapshot)' /\ ApproveRanges'
    BY DEF ApproveRanges
  <2> QED BY <2>1, <2>2, <2>3
<1>37. CASE UNCHANGED vars
  BY <1>37 DEF vars, TypeOK, LoopRanges, ApproveRanges, SnapshotRange
<1> QED BY <1>1, <1>2, <1>3, <1>4, <1>5, <1>6, <1>7, <1>8, <1>9, <1>10, <1>11, <1>12, <1>13, <1>14, <1>15, <1>16, <1>17, <1>18, <1>19, <1>20, <1>21, <1>22, <1>23, <1>24, <1>25, <1>26, <1>27, <1>28, <1>29, <1>30, <1>31, <1>32, <1>33, <1>34, <1>35, <1>36, <1>37 DEF Next, LoopStep, ApproveStep, CancelStep

(* The strengthened type invariant holds throughout. *)
THEOREM TypeInvariant == Spec => []TypeInv
<1>1. Init => TypeInv
  BY TypeInit
<1>2. TypeInv /\ [Next]_vars => TypeInv'
  BY TypeStep
<1> QED BY <1>1, <1>2, PTL DEF Spec

(* Every variable keeps its shape, in every behaviour of the run. *)
THEOREM TypeCorrect == Spec => []TypeOK
<1>1. TypeInv => TypeOK
  BY DEF TypeInv
<1> QED BY <1>1, TypeInvariant, PTL

-----------------------------------------------------------------------------
(* Frames, and the token *)

(* Which steps write the snapshot, the requests, a claimed snapshot. *)
LEMMA SnapshotFrame ==
  ASSUME [Next]_vars
  PROVE  snapshot' \in {snapshot, NoSnapshot} \/ \E t \in Loops : SaveWaitState(t)
BY DEF Next, LoopStep, ApproveStep, CancelStep, RegisterRunCancel, LockConversation, ClaimRun,
   Abort, FailRun, Succeed, Exit, CallModel, Dispatch, ApplyDecision, ExecuteTool,
   InsertRequest, MarkWaiting, RegisterApprovalWait, ReceiveDecision, ExpireWait,
   GiveUpOnSender, DropWaitState, UnmarkWaiting, ReadStatus, PickRequest, RecordDecision,
   ClaimChannel, Deliver, ClaimWaitState, Revive, Spawn, FailUnresumable, CancelStatus,
   CancelGoroutine, CancelPurge, ClientDisconnects, OtherRunLocks, OtherRunUnlocks, Restart,
   vars, dbVars, memVars, loopVars, approveVars, cancelVars

(* InsertRequest and RecordDecision alone write approval_requests. *)
LEMMA RequestFrame ==
  ASSUME [Next]_vars
  PROVE  \/ requests' = requests
         \/ \E t \in Loops : InsertRequest(t)
         \/ \E a \in Approvers : RecordDecision(a)
BY DEF Next, LoopStep, ApproveStep, CancelStep, RegisterRunCancel, LockConversation, ClaimRun,
   Abort, FailRun, Succeed, Exit, CallModel, Dispatch, ApplyDecision, ExecuteTool, MarkWaiting,
   SaveWaitState, RegisterApprovalWait, ReceiveDecision, ExpireWait, GiveUpOnSender,
   DropWaitState, UnmarkWaiting, ReadStatus, PickRequest, ClaimChannel, Deliver, ClaimWaitState,
   Revive, Spawn, FailUnresumable, CancelStatus, CancelGoroutine, CancelPurge,
   ClientDisconnects, OtherRunLocks, OtherRunUnlocks, Restart, vars, dbVars, memVars, loopVars,
   approveVars, cancelVars

(* What a handler resumes from was the snapshot a step ago, or is what it held. *)
LEMMA HeldFrame ==
  ASSUME TypeInv, [Next]_vars, NEW a \in Approvers, apc'[a] \in {"revive", "spawn"}
  PROVE  \/ apc[a] \in {"revive", "spawn"} /\ held'[a] = held[a]
         \/ snapshot # NoSnapshot /\ held'[a] = snapshot
<1>0. TypeOK
  BY DEF TypeInv
<1>1. ASSUME NEW b \in Approvers, ReadStatus(b) \/ ApproveStep(b)
      PROVE  \/ apc[a] \in {"revive", "spawn"} /\ held'[a] = held[a]
             \/ snapshot # NoSnapshot /\ held'[a] = snapshot
  <2>1. CASE ClaimWaitState(b)
    BY <1>0, <2>1 DEF ClaimWaitState, TypeOK
  <2>2. CASE ReadStatus(b) \/ PickRequest(b) \/ RecordDecision(b) \/ ClaimChannel(b)
    BY <1>0, <2>2 DEF ReadStatus, PickRequest, RecordDecision, ClaimChannel, AGoto, TypeOK
  <2>3. CASE Deliver(b) \/ Revive(b) \/ Spawn(b) \/ FailUnresumable(b)
    BY <1>0, <2>3 DEF Deliver, Revive, Spawn, FailUnresumable, AGoto, TypeOK
  <2> QED BY <1>1, <2>1, <2>2, <2>3 DEF ApproveStep
<1>2. \/ apc' = apc /\ held' = held
      \/ Restart
      \/ \E b \in Approvers : ReadStatus(b) \/ ApproveStep(b)
  BY ZenonT(40) DEF Next, LoopStep, CancelStep, RegisterRunCancel, LockConversation, ClaimRun, Abort,
     FailRun, Succeed, Exit, CallModel, Dispatch, ApplyDecision, ExecuteTool, InsertRequest,
     MarkWaiting, SaveWaitState, RegisterApprovalWait, ReceiveDecision, ExpireWait,
     GiveUpOnSender, DropWaitState, UnmarkWaiting, CancelStatus, CancelGoroutine, CancelPurge,
     ClientDisconnects, OtherRunLocks, OtherRunUnlocks, vars, dbVars, memVars, loopVars,
     approveVars, cancelVars
<1>3. ~Restart
  BY DEF Restart
<1> QED BY <1>1, <1>2, <1>3

(* A pending request was pending before, or was just inserted. *)
LEMMA PendingFrame ==
  ASSUME TypeInv, TokenInv, [Next]_vars, NEW i \in Pending'
  PROVE  \/ i \in Pending /\ requests'[i].call = requests[i].call
         \/ \E t \in Loops : InsertRequest(t) /\ requests'[i].call = call[t]
<1>0. TypeOK
  BY DEF TypeInv
<1>1. ASSUME NEW t \in Loops, InsertRequest(t)
      PROVE  \/ i \in Pending /\ requests'[i].call = requests[i].call
             \/ requests'[i].call = call[t]
  BY <1>0, <1>1 DEF InsertRequest, Pending, TypeOK
<1>2. ASSUME NEW a \in Approvers, RecordDecision(a)
      PROVE  i \in Pending /\ requests'[i].call = requests[i].call
  <2>1. row[a] \in Pending
    BY <1>2 DEF RecordDecision, AGoto, TokenInv, ApproveInv, RecordInv
  <2>2. i \in DOMAIN requests /\ requests'[i].call = requests[i].call
    BY SMTT(30), <1>0, <1>2 DEF RecordDecision, Pending, TypeOK, Request
  <2>3. i # row[a] => requests'[i] = requests[i]
    BY <1>0, <1>2, <2>2 DEF RecordDecision, TypeOK
  <2> QED BY <2>1, <2>2, <2>3 DEF Pending
<1> QED BY <1>1, <1>2, RequestFrame DEF Pending

(* Only ExecuteTool writes the history. *)
LEMMA HistoryFrame ==
  ASSUME [Next]_vars PROVE executed' = executed \/ \E t \in Loops : ExecuteTool(t)
BY DEF Next, LoopStep, ApproveStep, CancelStep, RegisterRunCancel, LockConversation, ClaimRun,
   Abort, FailRun, Succeed, Exit, CallModel, Dispatch, ApplyDecision, InsertRequest,
   MarkWaiting, SaveWaitState, RegisterApprovalWait, ReceiveDecision, ExpireWait,
   GiveUpOnSender, DropWaitState, UnmarkWaiting, ReadStatus, PickRequest, RecordDecision,
   ClaimChannel, Deliver, ClaimWaitState, Revive, Spawn, FailUnresumable, CancelStatus,
   CancelGoroutine, CancelPurge, ClientDisconnects, OtherRunLocks, OtherRunUnlocks, Restart,
   vars

(* Recording a decision does not insert a request. *)
LEMMA RecordNotInsert ==
  ASSUME TypeOK, NEW a \in Approvers, RecordDecision(a) PROVE \A t \in Loops : ~InsertRequest(t)
BY DEF RecordDecision, InsertRequest, AGoto, Goto, approveVars, loopVars, TypeOK

(* An approval on record is never overwritten while approvals are serial. *)
LEMMA ApprovalsStay ==
  ASSUME TypeInv, TokenInv, [Next]_vars, NEW k, HasApproval(k) PROVE HasApproval(k)'
<1>0. TypeOK
  BY DEF TypeInv
<1>1. ASSUME requests' = requests PROVE HasApproval(k)'
  BY <1>1 DEF HasApproval
<1>2. ASSUME NEW t \in Loops, InsertRequest(t) PROVE HasApproval(k)'
  <2>1. \A i \in DOMAIN requests : i \in DOMAIN requests' /\ requests'[i] = requests[i]
    BY <1>0, <1>2 DEF InsertRequest, TypeOK
  <2> QED BY <2>1 DEF HasApproval
<1>3. ASSUME NEW a \in Approvers, RecordDecision(a) PROVE HasApproval(k)'
  <2>1. row[a] \in Pending
    BY <1>3 DEF RecordDecision, AGoto, TokenInv, ApproveInv, RecordInv
  <2>2. \A i \in DOMAIN requests \ {row[a]} : i \in DOMAIN requests' /\ requests'[i] = requests[i]
    BY <1>0, <1>3 DEF RecordDecision, TypeOK
  <2> QED BY <2>1, <2>2 DEF HasApproval, Pending
<1> QED BY <1>1, <1>2, <1>3, RequestFrame

(* Only one goroutine is past convMu.Lock at a time. *)
LEMMA MutexInvStep ==
  ASSUME TypeInv, TokenInv, SerialApprovals, [Next]_vars PROVE MutexInv'
<1>0. MutexInv /\ TypeOK
  BY DEF TypeInv, TokenInv, LoopInv, ApproveInv
<1>1. ASSUME NEW t \in Loops, RegisterRunCancel(t) PROVE MutexInv'
  BY ONLY <1>0, LoopsAssumption, <1>1 DEF MutexInv, Waiting, TypeOK, RegisterRunCancel, dbVars,
     memVars, loopVars, approveVars, cancelVars, Goto, AGoto
<1>2. ASSUME NEW t \in Loops, LockConversation(t) PROVE MutexInv'
  BY ONLY <1>0, LoopsAssumption, <1>2 DEF MutexInv, Waiting, TypeOK, LockConversation, dbVars,
     memVars, loopVars, approveVars, cancelVars, Goto, AGoto
<1>3. ASSUME NEW t \in Loops, ClaimRun(t) \/ Abort(t) PROVE MutexInv'
  BY ONLY <1>0, LoopsAssumption, <1>3 DEF MutexInv, Waiting, TypeOK, ClaimRun, Abort, dbVars,
     memVars, loopVars, approveVars, cancelVars, Goto, AGoto
<1>4. ASSUME NEW t \in Loops, FailRun(t) \/ Succeed(t) PROVE MutexInv'
  BY ONLY <1>0, LoopsAssumption, <1>4 DEF MutexInv, Waiting, TypeOK, FailRun, Succeed, dbVars,
     memVars, loopVars, approveVars, cancelVars, Goto, AGoto
<1>5. ASSUME NEW t \in Loops, Exit(t) PROVE MutexInv'
  BY ONLY <1>0, LoopsAssumption, <1>5 DEF MutexInv, Waiting, TypeOK, Exit, dbVars, memVars,
     loopVars, approveVars, cancelVars, Goto, AGoto
<1>6. ASSUME NEW t \in Loops, CallModel(t) \/ Dispatch(t) \/ ApplyDecision(t) \/ ExecuteTool(t)
   PROVE MutexInv'
  BY ONLY <1>0, LoopsAssumption, <1>6 DEF MutexInv, Waiting, TypeOK, CallModel, Dispatch,
     ApplyDecision, ExecuteTool, dbVars, memVars, loopVars, approveVars, cancelVars, Goto, AGoto
<1>7. ASSUME NEW t \in Loops, InsertRequest(t) \/ MarkWaiting(t) \/ SaveWaitState(t) \/
   RegisterApprovalWait(t) PROVE MutexInv'
  BY ONLY <1>0, LoopsAssumption, <1>7 DEF MutexInv, Waiting, TypeOK, InsertRequest, MarkWaiting,
     SaveWaitState, RegisterApprovalWait, dbVars, memVars, loopVars, approveVars, cancelVars,
     Goto, AGoto
<1>8. ASSUME NEW t \in Loops, ReceiveDecision(t) \/ ExpireWait(t) \/ GiveUpOnSender(t) \/
   DropWaitState(t) \/ UnmarkWaiting(t) PROVE MutexInv'
  BY ONLY <1>0, LoopsAssumption, <1>8 DEF MutexInv, Waiting, TypeOK, ReceiveDecision,
     ExpireWait, GiveUpOnSender, DropWaitState, UnmarkWaiting, ParkOrFail, ParkOrFail, dbVars,
     memVars, loopVars, approveVars, cancelVars, Goto, AGoto
<1>9. ASSUME NEW a \in Approvers, ReadStatus(a) \/ PickRequest(a) \/ RecordDecision(a) \/
   ClaimChannel(a) \/ Deliver(a) PROVE MutexInv'
  BY ONLY <1>0, LoopsAssumption, <1>9 DEF MutexInv, Waiting, TypeOK, ReadStatus, PickRequest,
     RecordDecision, ClaimChannel, Deliver, dbVars, memVars, loopVars, approveVars, cancelVars,
     Goto, AGoto
<1>10. ASSUME NEW a \in Approvers, ClaimWaitState(a) \/ Revive(a) \/ Spawn(a) \/
   FailUnresumable(a) PROVE MutexInv'
  BY ONLY <1>0, LoopsAssumption, <1>10 DEF MutexInv, Waiting, TypeOK, ClaimWaitState, Revive,
     Spawn, FailUnresumable, Idle, dbVars, memVars, loopVars, approveVars, cancelVars, Goto,
     AGoto
<1>11. CASE CancelStatus \/ CancelGoroutine \/ CancelPurge \/ ClientDisconnects \/ OtherRunLocks
   \/ OtherRunUnlocks
  BY ONLY <1>0, LoopsAssumption, <1>11 DEF MutexInv, Waiting, TypeOK, CancelStatus,
     CancelGoroutine, CancelPurge, ClientDisconnects, OtherRunLocks, OtherRunUnlocks, Active,
     dbVars, memVars, loopVars, approveVars, cancelVars, Goto, AGoto
<1>12. CASE Restart
  BY ONLY <1>0, LoopsAssumption, <1>12 DEF MutexInv, Waiting, TypeOK, Restart, dbVars, memVars,
     loopVars, approveVars, cancelVars, Goto, AGoto
<1>13. CASE UNCHANGED vars
  BY ONLY <1>0, LoopsAssumption, <1>13 DEF MutexInv, Waiting, TypeOK, dbVars, memVars, loopVars,
     approveVars, cancelVars, Goto, AGoto, vars
<1> QED BY <1>1, <1>2, <1>3, <1>4, <1>5, <1>6, <1>7, <1>8, <1>9, <1>10, <1>11, <1>12, <1>13 DEF
   Next, LoopStep, ApproveStep, CancelStep

(* A goroutine that waits for the mutex is alone, but for one that cannot go on. *)
LEMMA SuccessorInvStep ==
  ASSUME TypeInv, TokenInv, SerialApprovals, [Next]_vars PROVE SuccessorInv'
<1>0. MutexInv /\ SuccessorInv /\ SoleInv /\ ReviveInv /\ ChannelInv /\ TypeOK
  BY DEF TypeInv, TokenInv, LoopInv, ApproveInv
<1>1. ASSUME NEW t \in Loops, ClaimRun(t) \/ CallModel(t) \/ ExecuteTool(t) PROVE SuccessorInv'
  <2> SUFFICES ASSUME NEW u \in Loops, pc'[u] \in Waiting, NEW v \in Loops \ {u}
               PROVE  pc'[v] \in Stopped \cup {"idle"} /\ chan'[v] = "none"
    BY DEF SuccessorInv
  <2>1. u # t /\ pc'[u] = pc[u] /\ chan' = chan
    BY <1>0, <1>1 DEF ClaimRun, CallModel, ExecuteTool, TypeOK, Waiting, memVars
  <2>2. v # t
    BY <1>0, <1>1, <2>1 DEF ClaimRun, CallModel, ExecuteTool, SuccessorInv, Stopped
  <2> QED BY <1>0, <1>1, <2>1, <2>2 DEF ClaimRun, CallModel, ExecuteTool, TypeOK, SuccessorInv
<1>2. ASSUME NEW t \in Loops, ExpireWait(t) PROVE SuccessorInv'
  <2> SUFFICES ASSUME NEW u \in Loops, pc'[u] \in Waiting, NEW v \in Loops \ {u}
               PROVE  pc'[v] \in Stopped \cup {"idle"} /\ chan'[v] = "none"
    BY DEF SuccessorInv
  <2>1. u # t /\ pc'[u] = pc[u]
    BY <1>0, <1>2 DEF ExpireWait, ParkOrFail, TypeOK, Waiting
  <2>2. chan[t] = "none" /\ chan[v] = "none" /\ pc[v] \in Stopped \cup {"idle"}
    BY <1>0, <2>1 DEF SuccessorInv
  <2> QED BY <1>0, <1>2, <2>1, <2>2 DEF ExpireWait, ParkOrFail, TypeOK, Stopped
<1>3. ASSUME NEW a \in Approvers, Spawn(a) PROVE SuccessorInv'
  <2>1. apc[a] = "spawn" /\ \A u \in Loops : pc[u] \in Stopped \cup {"idle"}
    BY <1>0, <1>3 DEF Spawn, AGoto, ReviveInv
  <2>2. \A u \in Loops : chan[u] = "none"
    BY <1>0, <2>1 DEF ChannelInv, NoOneDecides
  <2>3. PICK t \in Loops : pc' = [pc EXCEPT ![t] = "start"]
    BY <1>3 DEF Spawn, Idle
  <2>4. chan' = chan
    BY <1>3 DEF Spawn, memVars
  <2> QED BY ONLY <1>0, <2>1, <2>2, <2>3, <2>4 DEF TypeOK, SuccessorInv, Stopped, Waiting
<1>4. ASSUME NEW t \in Loops, RegisterRunCancel(t) PROVE SuccessorInv'
  BY ONLY <1>0, LoopsAssumption, SerialApprovals, <1>4 DEF MutexInv, SuccessorInv, SoleInv,
     ReviveInv, ChannelInv, NoOneDecides, Waiting, Stopped, Sole, TypeOK, RegisterRunCancel,
     dbVars, memVars, loopVars, approveVars, cancelVars, Goto, AGoto
<1>5. ASSUME NEW t \in Loops, LockConversation(t) PROVE SuccessorInv'
  BY ONLY <1>0, LoopsAssumption, SerialApprovals, <1>5 DEF MutexInv, SuccessorInv, SoleInv,
     ReviveInv, ChannelInv, NoOneDecides, Waiting, Stopped, Sole, TypeOK, LockConversation,
     dbVars, memVars, loopVars, approveVars, cancelVars, Goto, AGoto
<1>6. ASSUME NEW t \in Loops, Abort(t) PROVE SuccessorInv'
  BY ONLY <1>0, LoopsAssumption, SerialApprovals, <1>6 DEF MutexInv, SuccessorInv, SoleInv,
     ReviveInv, ChannelInv, NoOneDecides, Waiting, Stopped, Sole, TypeOK, Abort, dbVars,
     memVars, loopVars, approveVars, cancelVars, Goto, AGoto
<1>7. ASSUME NEW t \in Loops, FailRun(t) PROVE SuccessorInv'
  BY ONLY <1>0, LoopsAssumption, SerialApprovals, <1>7 DEF MutexInv, SuccessorInv, SoleInv,
     ReviveInv, ChannelInv, NoOneDecides, Waiting, Stopped, Sole, TypeOK, FailRun, dbVars,
     memVars, loopVars, approveVars, cancelVars, Goto, AGoto
<1>8. ASSUME NEW t \in Loops, Succeed(t) PROVE SuccessorInv'
  BY ONLY <1>0, LoopsAssumption, SerialApprovals, <1>8 DEF MutexInv, SuccessorInv, SoleInv,
     ReviveInv, ChannelInv, NoOneDecides, Waiting, Stopped, Sole, TypeOK, Succeed, dbVars,
     memVars, loopVars, approveVars, cancelVars, Goto, AGoto
<1>9. ASSUME NEW t \in Loops, Exit(t) PROVE SuccessorInv'
  BY ONLY <1>0, LoopsAssumption, SerialApprovals, <1>9 DEF MutexInv, SuccessorInv, SoleInv,
     ReviveInv, ChannelInv, NoOneDecides, Waiting, Stopped, Sole, TypeOK, Exit, dbVars, memVars,
     loopVars, approveVars, cancelVars, Goto, AGoto
<1>10. ASSUME NEW t \in Loops, Dispatch(t) PROVE SuccessorInv'
  BY ONLY <1>0, SMTT(30), LoopsAssumption, SerialApprovals, <1>10 DEF MutexInv, SuccessorInv, SoleInv,
     ReviveInv, ChannelInv, NoOneDecides, Waiting, Stopped, Sole, TypeOK, Dispatch, dbVars,
     memVars, loopVars, approveVars, cancelVars, Goto, AGoto
<1>11. ASSUME NEW t \in Loops, ApplyDecision(t) PROVE SuccessorInv'
  BY ONLY <1>0, SMTT(30), LoopsAssumption, SerialApprovals, <1>11 DEF MutexInv, SuccessorInv, SoleInv,
     ReviveInv, ChannelInv, NoOneDecides, Waiting, Stopped, Sole, TypeOK, ApplyDecision, dbVars,
     memVars, loopVars, approveVars, cancelVars, Goto, AGoto
<1>12. ASSUME NEW t \in Loops, InsertRequest(t) PROVE SuccessorInv'
  BY ONLY <1>0, SMTT(30), LoopsAssumption, SerialApprovals, <1>12 DEF MutexInv, SuccessorInv, SoleInv,
     ReviveInv, ChannelInv, NoOneDecides, Waiting, Stopped, Sole, TypeOK, InsertRequest, dbVars,
     memVars, loopVars, approveVars, cancelVars, Goto, AGoto
<1>13. ASSUME NEW t \in Loops, MarkWaiting(t) PROVE SuccessorInv'
  BY ONLY <1>0, SMTT(30), LoopsAssumption, SerialApprovals, <1>13 DEF MutexInv, SuccessorInv, SoleInv,
     ReviveInv, ChannelInv, NoOneDecides, Waiting, Stopped, Sole, TypeOK, MarkWaiting, dbVars,
     memVars, loopVars, approveVars, cancelVars, Goto, AGoto
<1>14. ASSUME NEW t \in Loops, SaveWaitState(t) PROVE SuccessorInv'
  BY ONLY <1>0, LoopsAssumption, SerialApprovals, <1>14 DEF MutexInv, SuccessorInv, SoleInv,
     ReviveInv, ChannelInv, NoOneDecides, Waiting, Stopped, Sole, TypeOK, SaveWaitState, dbVars,
     memVars, loopVars, approveVars, cancelVars, Goto, AGoto
<1>15. ASSUME NEW t \in Loops, RegisterApprovalWait(t) PROVE SuccessorInv'
  BY ONLY <1>0, LoopsAssumption, SerialApprovals, <1>15 DEF MutexInv, SuccessorInv, SoleInv,
     ReviveInv, ChannelInv, NoOneDecides, Waiting, Stopped, Sole, TypeOK, RegisterApprovalWait,
     dbVars, memVars, loopVars, approveVars, cancelVars, Goto, AGoto
<1>16. ASSUME NEW t \in Loops, ReceiveDecision(t) PROVE SuccessorInv'
  BY ONLY <1>0, LoopsAssumption, SerialApprovals, <1>16 DEF MutexInv, SuccessorInv, SoleInv,
     ReviveInv, ChannelInv, NoOneDecides, Waiting, Stopped, Sole, TypeOK, ReceiveDecision,
     dbVars, memVars, loopVars, approveVars, cancelVars, Goto, AGoto
<1>17. ASSUME NEW t \in Loops, GiveUpOnSender(t) PROVE SuccessorInv'
  BY ONLY <1>0, LoopsAssumption, SerialApprovals, <1>17 DEF MutexInv, SuccessorInv, SoleInv,
     ReviveInv, ChannelInv, NoOneDecides, Waiting, Stopped, Sole, TypeOK, GiveUpOnSender,
     ParkOrFail, dbVars, memVars, loopVars, approveVars, cancelVars, Goto, AGoto
<1>18. ASSUME NEW t \in Loops, DropWaitState(t) PROVE SuccessorInv'
  BY ONLY <1>0, LoopsAssumption, SerialApprovals, <1>18 DEF MutexInv, SuccessorInv, SoleInv,
     ReviveInv, ChannelInv, NoOneDecides, Waiting, Stopped, Sole, TypeOK, DropWaitState, dbVars,
     memVars, loopVars, approveVars, cancelVars, Goto, AGoto
<1>19. ASSUME NEW t \in Loops, UnmarkWaiting(t) PROVE SuccessorInv'
  BY ONLY <1>0, SMTT(30), LoopsAssumption, SerialApprovals, <1>19 DEF MutexInv, SuccessorInv, SoleInv,
     ReviveInv, ChannelInv, NoOneDecides, Waiting, Stopped, Sole, TypeOK, UnmarkWaiting, dbVars,
     memVars, loopVars, approveVars, cancelVars, Goto, AGoto
<1>20. ASSUME NEW a \in Approvers, ReadStatus(a) \/ PickRequest(a) \/ RecordDecision(a) \/
   ClaimChannel(a) \/ Deliver(a) PROVE SuccessorInv'
  BY ONLY <1>0, LoopsAssumption, SerialApprovals, <1>20 DEF MutexInv, SuccessorInv, SoleInv,
     ReviveInv, ChannelInv, NoOneDecides, Waiting, Stopped, Sole, TypeOK, ReadStatus,
     PickRequest, RecordDecision, ClaimChannel, Deliver, dbVars, memVars, loopVars, approveVars,
     cancelVars, Goto, AGoto
<1>21. ASSUME NEW a \in Approvers, ClaimWaitState(a) \/ Revive(a) \/ FailUnresumable(a) PROVE
   SuccessorInv'
  BY ONLY <1>0, LoopsAssumption, SerialApprovals, <1>21 DEF MutexInv, SuccessorInv, SoleInv,
     ReviveInv, ChannelInv, NoOneDecides, Waiting, Stopped, Sole, TypeOK, ClaimWaitState,
     Revive, FailUnresumable, dbVars, memVars, loopVars, approveVars, cancelVars, Goto, AGoto
<1>22. CASE CancelStatus \/ CancelGoroutine \/ CancelPurge \/ ClientDisconnects \/ OtherRunLocks
   \/ OtherRunUnlocks
  BY ONLY <1>0, LoopsAssumption, SerialApprovals, <1>22 DEF MutexInv, SuccessorInv, SoleInv,
     ReviveInv, ChannelInv, NoOneDecides, Waiting, Stopped, Sole, TypeOK, CancelStatus,
     CancelGoroutine, CancelPurge, ClientDisconnects, OtherRunLocks, OtherRunUnlocks, Active,
     dbVars, memVars, loopVars, approveVars, cancelVars, Goto, AGoto
<1>23. CASE Restart
  BY ONLY <1>0, LoopsAssumption, SerialApprovals, <1>23 DEF MutexInv, SuccessorInv, SoleInv,
     ReviveInv, ChannelInv, NoOneDecides, Waiting, Stopped, Sole, TypeOK, Restart, dbVars,
     memVars, loopVars, approveVars, cancelVars, Goto, AGoto
<1>24. CASE UNCHANGED vars
  BY ONLY <1>0, LoopsAssumption, SerialApprovals, <1>24 DEF MutexInv, SuccessorInv, SoleInv,
     ReviveInv, ChannelInv, NoOneDecides, Waiting, Stopped, Sole, TypeOK, dbVars, memVars,
     loopVars, approveVars, cancelVars, Goto, AGoto, vars
<1> QED BY <1>1, <1>2, <1>3, <1>4, <1>5, <1>6, <1>7, <1>8, <1>9, <1>10, <1>11, <1>12, <1>13,
   <1>14, <1>15, <1>16, <1>17, <1>18, <1>19, <1>20, <1>21, <1>22, <1>23, <1>24 DEF Next,
   LoopStep, ApproveStep, CancelStep

(* While a goroutine goes on by itself no decision is outstanding. *)
LEMMA SoleInvStep ==
  ASSUME TypeInv, TokenInv, SerialApprovals, [Next]_vars PROVE SoleInv'
<1>0. MutexInv /\ SuccessorInv /\ SoleInv /\ RecordInv /\ ChannelInv /\ TypeOK
  BY DEF TypeInv, TokenInv, LoopInv, ApproveInv
<1>1. ASSUME NEW t \in Loops, InsertRequest(t) PROVE SoleInv'
  <2> SUFFICES ASSUME NEW u \in Loops, pc'[u] \in Sole PROVE FALSE
    BY DEF SoleInv
  <2>1. u # t /\ pc[u] \in Sole /\ pc[t] = "insert"
    BY <1>0, <1>1 DEF InsertRequest, Goto, TypeOK, Sole, Waiting
  <2>2. pc[u] \in Waiting
    BY <1>0, <2>1 DEF MutexInv, Sole, Waiting
  <2> QED BY <1>0, <2>1, <2>2 DEF SuccessorInv, Stopped
<1>2. ASSUME NEW t \in Loops, RegisterRunCancel(t) \/ LockConversation(t) \/ ClaimRun(t) \/
   Abort(t) \/ FailRun(t) \/ Succeed(t) \/ Exit(t) PROVE SoleInv'
  BY ONLY <1>0, SMTT(30), LoopsAssumption, SerialApprovals, <1>2 DEF MutexInv, SuccessorInv, SoleInv,
     RecordInv, ChannelInv, NoOneDecides, Waiting, Stopped, Sole, Deciding, Pending, TypeOK,
     SerialApprovals, RegisterRunCancel, LockConversation, ClaimRun, Abort, FailRun, Succeed,
     Exit, dbVars, memVars, loopVars, approveVars, cancelVars, Goto, AGoto
<1>3. ASSUME NEW t \in Loops, CallModel(t) \/ Dispatch(t) \/ ApplyDecision(t) \/ ExecuteTool(t)
   PROVE SoleInv'
  BY ONLY <1>0, LoopsAssumption, SerialApprovals, <1>3 DEF MutexInv, SuccessorInv, SoleInv,
     RecordInv, ChannelInv, NoOneDecides, Waiting, Stopped, Sole, Deciding, Pending, TypeOK,
     SerialApprovals, CallModel, Dispatch, ApplyDecision, ExecuteTool, dbVars, memVars,
     loopVars, approveVars, cancelVars, Goto, AGoto
<1>4. ASSUME NEW t \in Loops, MarkWaiting(t) PROVE SoleInv'
  BY ONLY <1>0, LoopsAssumption, SerialApprovals, <1>4 DEF MutexInv, SuccessorInv, SoleInv,
     RecordInv, ChannelInv, NoOneDecides, Waiting, Stopped, Sole, Deciding, Pending, TypeOK,
     SerialApprovals, MarkWaiting, dbVars, memVars, loopVars, approveVars, cancelVars, Goto,
     AGoto
<1>5. ASSUME NEW t \in Loops, SaveWaitState(t) PROVE SoleInv'
  BY ONLY <1>0, LoopsAssumption, SerialApprovals, <1>5 DEF MutexInv, SuccessorInv, SoleInv,
     RecordInv, ChannelInv, NoOneDecides, Waiting, Stopped, Sole, Deciding, Pending, TypeOK,
     SerialApprovals, SaveWaitState, dbVars, memVars, loopVars, approveVars, cancelVars, Goto,
     AGoto
<1>6. ASSUME NEW t \in Loops, RegisterApprovalWait(t) PROVE SoleInv'
  BY ONLY <1>0, LoopsAssumption, SerialApprovals, <1>6 DEF MutexInv, SuccessorInv, SoleInv,
     RecordInv, ChannelInv, NoOneDecides, Waiting, Stopped, Sole, Deciding, Pending, TypeOK,
     SerialApprovals, RegisterApprovalWait, dbVars, memVars, loopVars, approveVars, cancelVars,
     Goto, AGoto
<1>7. ASSUME NEW t \in Loops, ReceiveDecision(t) PROVE SoleInv'
  BY ONLY <1>0, LoopsAssumption, SerialApprovals, <1>7 DEF MutexInv, SuccessorInv, SoleInv,
     RecordInv, ChannelInv, NoOneDecides, Waiting, Stopped, Sole, Deciding, Pending, TypeOK,
     SerialApprovals, ReceiveDecision, dbVars, memVars, loopVars, approveVars, cancelVars, Goto,
     AGoto
<1>8. ASSUME NEW t \in Loops, ExpireWait(t) PROVE SoleInv'
  BY ONLY <1>0, SMTT(30), LoopsAssumption, SerialApprovals, <1>8 DEF MutexInv, SuccessorInv, SoleInv,
     RecordInv, ChannelInv, NoOneDecides, Waiting, Stopped, Sole, Deciding, Pending, TypeOK,
     SerialApprovals, ExpireWait, ParkOrFail, dbVars, memVars, loopVars, approveVars,
     cancelVars, Goto, AGoto
<1>9. ASSUME NEW t \in Loops, GiveUpOnSender(t) PROVE SoleInv'
  BY ONLY <1>0, LoopsAssumption, SerialApprovals, <1>9 DEF MutexInv, SuccessorInv, SoleInv,
     RecordInv, ChannelInv, NoOneDecides, Waiting, Stopped, Sole, Deciding, Pending, TypeOK,
     SerialApprovals, GiveUpOnSender, ParkOrFail, dbVars, memVars, loopVars, approveVars,
     cancelVars, Goto, AGoto
<1>10. ASSUME NEW t \in Loops, DropWaitState(t) \/ UnmarkWaiting(t) PROVE SoleInv'
  BY ONLY <1>0, LoopsAssumption, SerialApprovals, <1>10 DEF MutexInv, SuccessorInv, SoleInv,
     RecordInv, ChannelInv, NoOneDecides, Waiting, Stopped, Sole, Deciding, Pending, TypeOK,
     SerialApprovals, DropWaitState, UnmarkWaiting, dbVars, memVars, loopVars, approveVars,
     cancelVars, Goto, AGoto
<1>11. ASSUME NEW a \in Approvers, ReadStatus(a) \/ PickRequest(a) \/ RecordDecision(a) \/
   ClaimChannel(a) \/ Deliver(a) PROVE SoleInv'
  BY ONLY <1>0, LoopsAssumption, SerialApprovals, <1>11 DEF MutexInv, SuccessorInv, SoleInv,
     RecordInv, ChannelInv, NoOneDecides, Waiting, Stopped, Sole, Deciding, Pending, TypeOK,
     SerialApprovals, ReadStatus, PickRequest, RecordDecision, ClaimChannel, Deliver, dbVars,
     memVars, loopVars, approveVars, cancelVars, Goto, AGoto
<1>12. ASSUME NEW a \in Approvers, ClaimWaitState(a) \/ Revive(a) PROVE SoleInv'
  BY ONLY <1>0, LoopsAssumption, SerialApprovals, <1>12 DEF MutexInv, SuccessorInv, SoleInv,
     RecordInv, ChannelInv, NoOneDecides, Waiting, Stopped, Sole, Deciding, Pending, TypeOK,
     SerialApprovals, ClaimWaitState, Revive, dbVars, memVars, loopVars, approveVars,
     cancelVars, Goto, AGoto
<1>13. ASSUME NEW a \in Approvers, Spawn(a) \/ FailUnresumable(a) PROVE SoleInv'
  BY ONLY <1>0, LoopsAssumption, SerialApprovals, <1>13 DEF MutexInv, SuccessorInv, SoleInv,
     RecordInv, ChannelInv, NoOneDecides, Waiting, Stopped, Sole, Deciding, Pending, TypeOK,
     SerialApprovals, Spawn, FailUnresumable, Idle, dbVars, memVars, loopVars, approveVars,
     cancelVars, Goto, AGoto
<1>14. CASE CancelStatus \/ CancelGoroutine \/ CancelPurge \/ ClientDisconnects \/ OtherRunLocks
   \/ OtherRunUnlocks
  BY ONLY <1>0, LoopsAssumption, SerialApprovals, <1>14 DEF MutexInv, SuccessorInv, SoleInv,
     RecordInv, ChannelInv, NoOneDecides, Waiting, Stopped, Sole, Deciding, Pending, TypeOK,
     SerialApprovals, CancelStatus, CancelGoroutine, CancelPurge, ClientDisconnects,
     OtherRunLocks, OtherRunUnlocks, Active, dbVars, memVars, loopVars, approveVars, cancelVars,
     Goto, AGoto
<1>15. CASE Restart
  BY ONLY <1>0, LoopsAssumption, SerialApprovals, <1>15 DEF MutexInv, SuccessorInv, SoleInv,
     RecordInv, ChannelInv, NoOneDecides, Waiting, Stopped, Sole, Deciding, Pending, TypeOK,
     SerialApprovals, Restart, dbVars, memVars, loopVars, approveVars, cancelVars, Goto, AGoto
<1>16. CASE UNCHANGED vars
  BY ONLY <1>0, LoopsAssumption, SerialApprovals, <1>16 DEF MutexInv, SuccessorInv, SoleInv,
     RecordInv, ChannelInv, NoOneDecides, Waiting, Stopped, Sole, Deciding, Pending, TypeOK,
     SerialApprovals, dbVars, memVars, loopVars, approveVars, cancelVars, Goto, AGoto, vars
<1> QED BY <1>1, <1>2, <1>3, <1>4, <1>5, <1>6, <1>7, <1>8, <1>9, <1>10, <1>11, <1>12, <1>13,
   <1>14, <1>15, <1>16 DEF Next, LoopStep, ApproveStep, CancelStep

(* A goroutine that goes on by itself has no snapshot behind it. *)
LEMMA ConsumedInvStep ==
  ASSUME TypeInv, TokenInv, SerialApprovals, [Next]_vars PROVE ConsumedInv'
<1>0. MutexInv /\ SuccessorInv /\ ConsumedInv /\ ReviveInv /\ TypeOK
  BY DEF TypeInv, TokenInv, LoopInv, ApproveInv
<1>1. ASSUME NEW t \in Loops, RegisterRunCancel(t) \/ LockConversation(t) \/ ClaimRun(t) \/
   Abort(t) \/ FailRun(t) \/ Succeed(t) \/ Exit(t) PROVE ConsumedInv'
  BY ONLY <1>0, LoopsAssumption, <1>1 DEF MutexInv, SuccessorInv, ConsumedInv, ReviveInv,
     Waiting, Stopped, TypeOK, RegisterRunCancel, LockConversation, ClaimRun, Abort, FailRun,
     Succeed, Exit, dbVars, memVars, loopVars, approveVars, cancelVars, Goto, AGoto
<1>2. ASSUME NEW t \in Loops, CallModel(t) \/ Dispatch(t) \/ ApplyDecision(t) \/ ExecuteTool(t)
   PROVE ConsumedInv'
  BY ONLY <1>0, LoopsAssumption, <1>2 DEF MutexInv, SuccessorInv, ConsumedInv, ReviveInv,
     Waiting, Stopped, TypeOK, CallModel, Dispatch, ApplyDecision, ExecuteTool, dbVars, memVars,
     loopVars, approveVars, cancelVars, Goto, AGoto
<1>3. ASSUME NEW t \in Loops, InsertRequest(t) \/ MarkWaiting(t) PROVE ConsumedInv'
  BY ONLY <1>0, LoopsAssumption, <1>3 DEF MutexInv, SuccessorInv, ConsumedInv, ReviveInv,
     Waiting, Stopped, TypeOK, InsertRequest, MarkWaiting, dbVars, memVars, loopVars,
     approveVars, cancelVars, Goto, AGoto
<1>4. ASSUME NEW t \in Loops, SaveWaitState(t) PROVE ConsumedInv'
  BY ONLY <1>0, LoopsAssumption, <1>4 DEF MutexInv, SuccessorInv, ConsumedInv, ReviveInv,
     Waiting, Stopped, TypeOK, SaveWaitState, dbVars, memVars, loopVars, approveVars,
     cancelVars, Goto, AGoto
<1>5. ASSUME NEW t \in Loops, RegisterApprovalWait(t) PROVE ConsumedInv'
  BY ONLY <1>0, LoopsAssumption, <1>5 DEF MutexInv, SuccessorInv, ConsumedInv, ReviveInv,
     Waiting, Stopped, TypeOK, RegisterApprovalWait, dbVars, memVars, loopVars, approveVars,
     cancelVars, Goto, AGoto
<1>6. ASSUME NEW t \in Loops, ReceiveDecision(t) \/ ExpireWait(t) \/ GiveUpOnSender(t) \/
   DropWaitState(t) \/ UnmarkWaiting(t) PROVE ConsumedInv'
  BY ONLY <1>0, ZenonT(40), LoopsAssumption, <1>6 DEF MutexInv, SuccessorInv, ConsumedInv, ReviveInv,
     Waiting, Stopped, TypeOK, ReceiveDecision, ExpireWait, GiveUpOnSender, DropWaitState,
     UnmarkWaiting, ParkOrFail, ParkOrFail, dbVars, memVars, loopVars, approveVars, cancelVars,
     Goto, AGoto
<1>7. ASSUME NEW a \in Approvers, ReadStatus(a) \/ PickRequest(a) \/ RecordDecision(a) \/
   ClaimChannel(a) \/ Deliver(a) PROVE ConsumedInv'
  BY ONLY <1>0, LoopsAssumption, <1>7 DEF MutexInv, SuccessorInv, ConsumedInv, ReviveInv,
     Waiting, Stopped, TypeOK, ReadStatus, PickRequest, RecordDecision, ClaimChannel, Deliver,
     dbVars, memVars, loopVars, approveVars, cancelVars, Goto, AGoto
<1>8. ASSUME NEW a \in Approvers, ClaimWaitState(a) \/ Revive(a) \/ Spawn(a) \/
   FailUnresumable(a) PROVE ConsumedInv'
  BY ONLY <1>0, LoopsAssumption, <1>8 DEF MutexInv, SuccessorInv, ConsumedInv, ReviveInv,
     Waiting, Stopped, TypeOK, ClaimWaitState, Revive, Spawn, FailUnresumable, Idle, dbVars,
     memVars, loopVars, approveVars, cancelVars, Goto, AGoto
<1>9. CASE CancelStatus \/ CancelGoroutine \/ CancelPurge \/ ClientDisconnects \/ OtherRunLocks
   \/ OtherRunUnlocks
  BY ONLY <1>0, LoopsAssumption, <1>9 DEF MutexInv, SuccessorInv, ConsumedInv, ReviveInv,
     Waiting, Stopped, TypeOK, CancelStatus, CancelGoroutine, CancelPurge, ClientDisconnects,
     OtherRunLocks, OtherRunUnlocks, Active, dbVars, memVars, loopVars, approveVars, cancelVars,
     Goto, AGoto
<1>10. CASE Restart
  BY ONLY <1>0, LoopsAssumption, <1>10 DEF MutexInv, SuccessorInv, ConsumedInv, ReviveInv,
     Waiting, Stopped, TypeOK, Restart, dbVars, memVars, loopVars, approveVars, cancelVars,
     Goto, AGoto
<1>11. CASE UNCHANGED vars
  BY ONLY <1>0, LoopsAssumption, <1>11 DEF MutexInv, SuccessorInv, ConsumedInv, ReviveInv,
     Waiting, Stopped, TypeOK, dbVars, memVars, loopVars, approveVars, cancelVars, Goto, AGoto,
     vars
<1> QED BY <1>1, <1>2, <1>3, <1>4, <1>5, <1>6, <1>7, <1>8, <1>9, <1>10, <1>11 DEF Next,
   LoopStep, ApproveStep, CancelStep

(* A decision is consumed by the call it was made for. *)
LEMMA UndecidedInvStep ==
  ASSUME TypeInv, TokenInv, SerialApprovals, [Next]_vars PROVE UndecidedInv'
<1>0. UndecidedInv /\ TypeOK
  BY DEF TypeInv, TokenInv, LoopInv, ApproveInv
<1>1. ASSUME NEW t \in Loops, RegisterRunCancel(t) \/ LockConversation(t) \/ ClaimRun(t) \/
   Abort(t) \/ FailRun(t) \/ Succeed(t) \/ Exit(t) PROVE UndecidedInv'
  BY ONLY <1>0, <1>1 DEF UndecidedInv, AtGate, TypeOK, RegisterRunCancel, LockConversation,
     ClaimRun, Abort, FailRun, Succeed, Exit, dbVars, memVars, loopVars, approveVars,
     cancelVars, Goto, AGoto
<1>2. ASSUME NEW t \in Loops, CallModel(t) \/ Dispatch(t) \/ ApplyDecision(t) \/ ExecuteTool(t)
   PROVE UndecidedInv'
  BY ONLY <1>0, <1>2 DEF UndecidedInv, AtGate, TypeOK, CallModel, Dispatch, ApplyDecision,
     ExecuteTool, dbVars, memVars, loopVars, approveVars, cancelVars, Goto, AGoto
<1>3. ASSUME NEW t \in Loops, InsertRequest(t) \/ MarkWaiting(t) \/ SaveWaitState(t) \/
   RegisterApprovalWait(t) PROVE UndecidedInv'
  BY ONLY <1>0, <1>3 DEF UndecidedInv, AtGate, TypeOK, InsertRequest, MarkWaiting,
     SaveWaitState, RegisterApprovalWait, dbVars, memVars, loopVars, approveVars, cancelVars,
     Goto, AGoto
<1>4. ASSUME NEW t \in Loops, ReceiveDecision(t) \/ ExpireWait(t) \/ GiveUpOnSender(t) \/
   DropWaitState(t) \/ UnmarkWaiting(t) PROVE UndecidedInv'
  BY ONLY <1>0, <1>4 DEF UndecidedInv, AtGate, TypeOK, ReceiveDecision, ExpireWait,
     GiveUpOnSender, DropWaitState, UnmarkWaiting, ParkOrFail, ParkOrFail, dbVars, memVars,
     loopVars, approveVars, cancelVars, Goto, AGoto
<1>5. ASSUME NEW a \in Approvers, ReadStatus(a) \/ PickRequest(a) \/ RecordDecision(a) \/
   ClaimChannel(a) \/ Deliver(a) PROVE UndecidedInv'
  BY ONLY <1>0, <1>5 DEF UndecidedInv, AtGate, TypeOK, ReadStatus, PickRequest, RecordDecision,
     ClaimChannel, Deliver, dbVars, memVars, loopVars, approveVars, cancelVars, Goto, AGoto
<1>6. ASSUME NEW a \in Approvers, ClaimWaitState(a) \/ Revive(a) \/ Spawn(a) \/
   FailUnresumable(a) PROVE UndecidedInv'
  BY ONLY <1>0, <1>6 DEF UndecidedInv, AtGate, TypeOK, ClaimWaitState, Revive, Spawn,
     FailUnresumable, Idle, dbVars, memVars, loopVars, approveVars, cancelVars, Goto, AGoto
<1>7. CASE CancelStatus \/ CancelGoroutine \/ CancelPurge \/ ClientDisconnects \/ OtherRunLocks
   \/ OtherRunUnlocks
  BY ONLY <1>0, <1>7 DEF UndecidedInv, AtGate, TypeOK, CancelStatus, CancelGoroutine,
     CancelPurge, ClientDisconnects, OtherRunLocks, OtherRunUnlocks, Active, dbVars, memVars,
     loopVars, approveVars, cancelVars, Goto, AGoto
<1>8. CASE Restart
  BY ONLY <1>0, <1>8 DEF UndecidedInv, AtGate, TypeOK, Restart, dbVars, memVars, loopVars,
     approveVars, cancelVars, Goto, AGoto
<1>9. CASE UNCHANGED vars
  BY ONLY <1>0, <1>9 DEF UndecidedInv, AtGate, TypeOK, dbVars, memVars, loopVars, approveVars,
     cancelVars, Goto, AGoto, vars
<1> QED BY <1>1, <1>2, <1>3, <1>4, <1>5, <1>6, <1>7, <1>8, <1>9 DEF Next, LoopStep, ApproveStep,
   CancelStep

(* A decision lies in a channel only while its goroutine waits for it. *)
LEMMA ChannelInvStep ==
  ASSUME TypeInv, TokenInv, SerialApprovals, [Next]_vars PROVE ChannelInv'
<1>0. MutexInv /\ ChannelInv /\ RecordInv /\ DeliverInv /\ SoleInv /\ TypeOK
  BY DEF TypeInv, TokenInv, LoopInv, ApproveInv
<1>1. ASSUME NEW t \in Loops, ClaimRun(t) PROVE ChannelInv'
  BY <1>0, <1>1 DEF ClaimRun, TypeOK, ChannelInv, NoOneDecides, Pending, memVars, approveVars
<1>2. ASSUME NEW t \in Loops, CallModel(t) PROVE ChannelInv'
  BY <1>0, <1>2 DEF CallModel, TypeOK, ChannelInv, NoOneDecides, Pending, dbVars, memVars,
     approveVars
<1>3. ASSUME NEW t \in Loops, InsertRequest(t) \/ RegisterApprovalWait(t) PROVE ChannelInv'
  <2>1. pc[t] \in {"insert", "register"} /\ \A u \in Loops : pc[u] \notin {"await", "inflight"}
    BY <1>0, <1>3 DEF InsertRequest, RegisterApprovalWait, Goto, MutexInv, Waiting
  <2>2. registry = NoLoop /\ \A u \in Loops : chan[u] = "none"
    BY <1>0, <2>1 DEF ChannelInv, TypeOK
  <2> QED BY <1>0, <1>3, <2>2 DEF InsertRequest, RegisterApprovalWait, Goto, TypeOK, ChannelInv, memVars
<1>4. ASSUME NEW t \in Loops, ExpireWait(t) PROVE ChannelInv'
  <2>1. registry' = NoLoop
    BY <1>4 DEF ExpireWait
  <2>2. ASSUME NEW u \in Loops, chan'[u] # "none"
        PROVE  pc'[u] \in {"await", "inflight"} /\ NoOneDecides'
    <3>1. /\ chan[u] # "none" /\ pc[u] \in {"await", "inflight"}
          /\ registry = NoLoop /\ NoOneDecides
      BY <1>0, <1>4, <2>2 DEF ExpireWait, TypeOK, ChannelInv
    <3> QED BY <1>0, <1>4, <3>1 DEF ExpireWait, TypeOK, NoOneDecides, Pending, dbVars, approveVars
  <2> QED BY <2>1, <2>2 DEF ChannelInv
<1>5. ASSUME NEW t \in Loops, RegisterRunCancel(t) PROVE ChannelInv'
  BY ONLY <1>0, LoopsAssumption, SerialApprovals, <1>5 DEF MutexInv, ChannelInv, RecordInv,
     DeliverInv, SoleInv, NoOneDecides, Sole, Waiting, Deciding, Pending, TypeOK,
     SerialApprovals, RegisterRunCancel, dbVars, memVars, loopVars, approveVars, cancelVars,
     Goto, AGoto
<1>6. ASSUME NEW t \in Loops, LockConversation(t) PROVE ChannelInv'
  BY ONLY <1>0, LoopsAssumption, SerialApprovals, <1>6 DEF MutexInv, ChannelInv, RecordInv,
     DeliverInv, SoleInv, NoOneDecides, Sole, Waiting, Deciding, Pending, TypeOK,
     SerialApprovals, LockConversation, dbVars, memVars, loopVars, approveVars, cancelVars,
     Goto, AGoto
<1>7. ASSUME NEW t \in Loops, Abort(t) PROVE ChannelInv'
  BY ONLY <1>0, LoopsAssumption, SerialApprovals, <1>7 DEF MutexInv, ChannelInv, RecordInv,
     DeliverInv, SoleInv, NoOneDecides, Sole, Waiting, Deciding, Pending, TypeOK,
     SerialApprovals, Abort, dbVars, memVars, loopVars, approveVars, cancelVars, Goto, AGoto
<1>8. ASSUME NEW t \in Loops, FailRun(t) PROVE ChannelInv'
  BY ONLY <1>0, LoopsAssumption, SerialApprovals, <1>8 DEF MutexInv, ChannelInv, RecordInv,
     DeliverInv, SoleInv, NoOneDecides, Sole, Waiting, Deciding, Pending, TypeOK,
     SerialApprovals, FailRun, dbVars, memVars, loopVars, approveVars, cancelVars, Goto, AGoto
<1>9. ASSUME NEW t \in Loops, Succeed(t) PROVE ChannelInv'
  BY ONLY <1>0, LoopsAssumption, SerialApprovals, <1>9 DEF MutexInv, ChannelInv, RecordInv,
     DeliverInv, SoleInv, NoOneDecides, Sole, Waiting, Deciding, Pending, TypeOK,
     SerialApprovals, Succeed, dbVars, memVars, loopVars, approveVars, cancelVars, Goto, AGoto
<1>10. ASSUME NEW t \in Loops, Exit(t) PROVE ChannelInv'
  BY ONLY <1>0, LoopsAssumption, SerialApprovals, <1>10 DEF MutexInv, ChannelInv, RecordInv,
     DeliverInv, SoleInv, NoOneDecides, Sole, Waiting, Deciding, Pending, TypeOK,
     SerialApprovals, Exit, dbVars, memVars, loopVars, approveVars, cancelVars, Goto, AGoto
<1>11. ASSUME NEW t \in Loops, Dispatch(t) PROVE ChannelInv'
  BY ONLY <1>0, LoopsAssumption, SerialApprovals, <1>11 DEF MutexInv, ChannelInv, RecordInv,
     DeliverInv, SoleInv, NoOneDecides, Sole, Waiting, Deciding, Pending, TypeOK,
     SerialApprovals, Dispatch, dbVars, memVars, loopVars, approveVars, cancelVars, Goto, AGoto
<1>12. ASSUME NEW t \in Loops, ApplyDecision(t) PROVE ChannelInv'
  BY ONLY <1>0, LoopsAssumption, SerialApprovals, <1>12 DEF MutexInv, ChannelInv, RecordInv,
     DeliverInv, SoleInv, NoOneDecides, Sole, Waiting, Deciding, Pending, TypeOK,
     SerialApprovals, ApplyDecision, dbVars, memVars, loopVars, approveVars, cancelVars, Goto,
     AGoto
<1>13. ASSUME NEW t \in Loops, ExecuteTool(t) PROVE ChannelInv'
  BY ONLY <1>0, LoopsAssumption, SerialApprovals, <1>13 DEF MutexInv, ChannelInv, RecordInv,
     DeliverInv, SoleInv, NoOneDecides, Sole, Waiting, Deciding, Pending, TypeOK,
     SerialApprovals, ExecuteTool, dbVars, memVars, loopVars, approveVars, cancelVars, Goto,
     AGoto
<1>14. ASSUME NEW t \in Loops, MarkWaiting(t) PROVE ChannelInv'
  BY ONLY <1>0, LoopsAssumption, SerialApprovals, <1>14 DEF MutexInv, ChannelInv, RecordInv,
     DeliverInv, SoleInv, NoOneDecides, Sole, Waiting, Deciding, Pending, TypeOK,
     SerialApprovals, MarkWaiting, dbVars, memVars, loopVars, approveVars, cancelVars, Goto,
     AGoto
<1>15. ASSUME NEW t \in Loops, SaveWaitState(t) PROVE ChannelInv'
  BY ONLY <1>0, LoopsAssumption, SerialApprovals, <1>15 DEF MutexInv, ChannelInv, RecordInv,
     DeliverInv, SoleInv, NoOneDecides, Sole, Waiting, Deciding, Pending, TypeOK,
     SerialApprovals, SaveWaitState, dbVars, memVars, loopVars, approveVars, cancelVars, Goto,
     AGoto
<1>16. ASSUME NEW t \in Loops, ReceiveDecision(t) PROVE ChannelInv'
  BY ONLY <1>0, LoopsAssumption, SerialApprovals, <1>16 DEF MutexInv, ChannelInv, RecordInv,
     DeliverInv, SoleInv, NoOneDecides, Sole, Waiting, Deciding, Pending, TypeOK,
     SerialApprovals, ReceiveDecision, dbVars, memVars, loopVars, approveVars, cancelVars, Goto,
     AGoto
<1>17. ASSUME NEW t \in Loops, GiveUpOnSender(t) PROVE ChannelInv'
  BY ONLY <1>0, LoopsAssumption, SerialApprovals, <1>17 DEF MutexInv, ChannelInv, RecordInv,
     DeliverInv, SoleInv, NoOneDecides, Sole, Waiting, Deciding, Pending, TypeOK,
     SerialApprovals, GiveUpOnSender, ParkOrFail, dbVars, memVars, loopVars, approveVars,
     cancelVars, Goto, AGoto
<1>18. ASSUME NEW t \in Loops, DropWaitState(t) PROVE ChannelInv'
  BY ONLY <1>0, LoopsAssumption, SerialApprovals, <1>18 DEF MutexInv, ChannelInv, RecordInv,
     DeliverInv, SoleInv, NoOneDecides, Sole, Waiting, Deciding, Pending, TypeOK,
     SerialApprovals, DropWaitState, dbVars, memVars, loopVars, approveVars, cancelVars, Goto,
     AGoto
<1>19. ASSUME NEW t \in Loops, UnmarkWaiting(t) PROVE ChannelInv'
  BY ONLY <1>0, LoopsAssumption, SerialApprovals, <1>19 DEF MutexInv, ChannelInv, RecordInv,
     DeliverInv, SoleInv, NoOneDecides, Sole, Waiting, Deciding, Pending, TypeOK,
     SerialApprovals, UnmarkWaiting, dbVars, memVars, loopVars, approveVars, cancelVars, Goto,
     AGoto
<1>20. ASSUME NEW a \in Approvers, ReadStatus(a) \/ PickRequest(a) \/ RecordDecision(a) \/
   ClaimChannel(a) \/ Deliver(a) PROVE ChannelInv'
  BY ONLY <1>0, LoopsAssumption, SerialApprovals, <1>20 DEF MutexInv, ChannelInv, RecordInv,
     DeliverInv, SoleInv, NoOneDecides, Sole, Waiting, Deciding, Pending, TypeOK,
     SerialApprovals, ReadStatus, PickRequest, RecordDecision, ClaimChannel, Deliver, dbVars,
     memVars, loopVars, approveVars, cancelVars, Goto, AGoto
<1>21. ASSUME NEW a \in Approvers, ClaimWaitState(a) PROVE ChannelInv'
  BY ONLY <1>0, LoopsAssumption, SerialApprovals, <1>21 DEF MutexInv, ChannelInv, RecordInv,
     DeliverInv, SoleInv, NoOneDecides, Sole, Waiting, Deciding, Pending, TypeOK,
     SerialApprovals, ClaimWaitState, dbVars, memVars, loopVars, approveVars, cancelVars, Goto,
     AGoto
<1>22. ASSUME NEW a \in Approvers, Revive(a) PROVE ChannelInv'
  BY ONLY <1>0, LoopsAssumption, SerialApprovals, <1>22 DEF MutexInv, ChannelInv, RecordInv,
     DeliverInv, SoleInv, NoOneDecides, Sole, Waiting, Deciding, Pending, TypeOK,
     SerialApprovals, Revive, dbVars, memVars, loopVars, approveVars, cancelVars, Goto, AGoto
<1>23. ASSUME NEW a \in Approvers, Spawn(a) PROVE ChannelInv'
  BY ONLY <1>0, LoopsAssumption, SerialApprovals, <1>23 DEF MutexInv, ChannelInv, RecordInv,
     DeliverInv, SoleInv, NoOneDecides, Sole, Waiting, Deciding, Pending, TypeOK,
     SerialApprovals, Spawn, Idle, dbVars, memVars, loopVars, approveVars, cancelVars, Goto,
     AGoto
<1>24. ASSUME NEW a \in Approvers, FailUnresumable(a) PROVE ChannelInv'
  BY ONLY <1>0, LoopsAssumption, SerialApprovals, <1>24 DEF MutexInv, ChannelInv, RecordInv,
     DeliverInv, SoleInv, NoOneDecides, Sole, Waiting, Deciding, Pending, TypeOK,
     SerialApprovals, FailUnresumable, dbVars, memVars, loopVars, approveVars, cancelVars, Goto,
     AGoto
<1>25. CASE CancelStatus \/ CancelGoroutine \/ CancelPurge \/ ClientDisconnects \/ OtherRunLocks
   \/ OtherRunUnlocks
  BY ONLY <1>0, LoopsAssumption, SerialApprovals, <1>25 DEF MutexInv, ChannelInv, RecordInv,
     DeliverInv, SoleInv, NoOneDecides, Sole, Waiting, Deciding, Pending, TypeOK,
     SerialApprovals, CancelStatus, CancelGoroutine, CancelPurge, ClientDisconnects,
     OtherRunLocks, OtherRunUnlocks, Active, dbVars, memVars, loopVars, approveVars, cancelVars,
     Goto, AGoto
<1>26. CASE Restart
  BY ONLY <1>0, LoopsAssumption, SerialApprovals, <1>26 DEF MutexInv, ChannelInv, RecordInv,
     DeliverInv, SoleInv, NoOneDecides, Sole, Waiting, Deciding, Pending, TypeOK,
     SerialApprovals, Restart, dbVars, memVars, loopVars, approveVars, cancelVars, Goto, AGoto
<1>27. CASE UNCHANGED vars
  BY ONLY <1>0, LoopsAssumption, SerialApprovals, <1>27 DEF MutexInv, ChannelInv, RecordInv,
     DeliverInv, SoleInv, NoOneDecides, Sole, Waiting, Deciding, Pending, TypeOK,
     SerialApprovals, dbVars, memVars, loopVars, approveVars, cancelVars, Goto, AGoto, vars
<1> QED BY <1>1, <1>2, <1>3, <1>4, <1>5, <1>6, <1>7, <1>8, <1>9, <1>10, <1>11, <1>12, <1>13,
   <1>14, <1>15, <1>16, <1>17, <1>18, <1>19, <1>20, <1>21, <1>22, <1>23, <1>24, <1>25, <1>26,
   <1>27 DEF Next, LoopStep, ApproveStep, CancelStep

(* One request is pending at most, and everybody means the same call by it. *)
LEMMA RequestInvStep ==
  ASSUME TypeInv, TokenInv, SerialApprovals, [Next]_vars PROVE RequestInv'
<1>0. MutexInv /\ SoleInv /\ ConsumedInv /\ RequestInv /\ TypeOK
  BY DEF TypeInv, TokenInv, LoopInv, ApproveInv
<1>1. ASSUME NEW t \in Loops, InsertRequest(t) PROVE RequestInv'
  <2>1. Pending = {} /\ snapshot = NoSnapshot /\ \A u \in Loops \ {t} : pc[u] \notin AtGate
    BY <1>0, <1>1 DEF InsertRequest, Goto, MutexInv, SoleInv, ConsumedInv, NoOneDecides,
       Sole, Stopped, Waiting, AtGate
  <2>2. \A i \in Pending' : i = Len(requests) + 1 /\ requests'[i].call = call[t]
    BY <1>0, <1>1, <2>1 DEF InsertRequest, TypeOK, Pending
  <2> QED BY <1>0, <1>1, <2>1, <2>2 DEF InsertRequest, Goto, TypeOK, RequestInv, AtGate
<1>2. ASSUME NEW a \in Approvers, RecordDecision(a) PROVE RequestInv'
  <2>1. \A i \in Pending' : i \in Pending /\ requests'[i].call = requests[i].call
    BY <1>0, <1>2, PendingFrame, RecordNotInsert
  <2> QED BY <1>0, <1>2, <2>1 DEF RecordDecision, RequestInv, loopVars
<1>3. ASSUME NEW t \in Loops, RegisterRunCancel(t) \/ LockConversation(t) \/ ClaimRun(t) \/
   Abort(t) PROVE RequestInv'
  BY ONLY <1>0, SMTT(30), LoopsAssumption, <1>3 DEF MutexInv, SoleInv, ConsumedInv, RequestInv,
     NoOneDecides, Sole, Stopped, AtGate, Waiting, Pending, TypeOK, RegisterRunCancel,
     LockConversation, ClaimRun, Abort, dbVars, memVars, loopVars, approveVars, cancelVars,
     Goto, AGoto
<1>4. ASSUME NEW t \in Loops, FailRun(t) PROVE RequestInv'
  BY ONLY <1>0, LoopsAssumption, <1>4 DEF MutexInv, SoleInv, ConsumedInv, RequestInv,
     NoOneDecides, Sole, Stopped, AtGate, Waiting, Pending, TypeOK, FailRun, dbVars, memVars,
     loopVars, approveVars, cancelVars, Goto, AGoto
<1>5. ASSUME NEW t \in Loops, Succeed(t) PROVE RequestInv'
  BY ONLY <1>0, LoopsAssumption, <1>5 DEF MutexInv, SoleInv, ConsumedInv, RequestInv,
     NoOneDecides, Sole, Stopped, AtGate, Waiting, Pending, TypeOK, Succeed, dbVars, memVars,
     loopVars, approveVars, cancelVars, Goto, AGoto
<1>6. ASSUME NEW t \in Loops, Exit(t) PROVE RequestInv'
  BY ONLY <1>0, LoopsAssumption, <1>6 DEF MutexInv, SoleInv, ConsumedInv, RequestInv,
     NoOneDecides, Sole, Stopped, AtGate, Waiting, Pending, TypeOK, Exit, dbVars, memVars,
     loopVars, approveVars, cancelVars, Goto, AGoto
<1>7. ASSUME NEW t \in Loops, CallModel(t) \/ Dispatch(t) \/ ApplyDecision(t) \/ ExecuteTool(t)
   PROVE RequestInv'
  BY ONLY <1>0, LoopsAssumption, <1>7 DEF MutexInv, SoleInv, ConsumedInv, RequestInv,
     NoOneDecides, Sole, Stopped, AtGate, Waiting, Pending, TypeOK, CallModel, Dispatch,
     ApplyDecision, ExecuteTool, dbVars, memVars, loopVars, approveVars, cancelVars, Goto, AGoto
<1>8. ASSUME NEW t \in Loops, MarkWaiting(t) \/ SaveWaitState(t) \/ RegisterApprovalWait(t)
   PROVE RequestInv'
  BY ONLY <1>0, LoopsAssumption, <1>8 DEF MutexInv, SoleInv, ConsumedInv, RequestInv,
     NoOneDecides, Sole, Stopped, AtGate, Waiting, Pending, TypeOK, MarkWaiting, SaveWaitState,
     RegisterApprovalWait, dbVars, memVars, loopVars, approveVars, cancelVars, Goto, AGoto
<1>9. ASSUME NEW t \in Loops, ReceiveDecision(t) PROVE RequestInv'
  BY ONLY <1>0, LoopsAssumption, <1>9 DEF MutexInv, SoleInv, ConsumedInv, RequestInv,
     NoOneDecides, Sole, Stopped, AtGate, Waiting, Pending, TypeOK, ReceiveDecision, dbVars,
     memVars, loopVars, approveVars, cancelVars, Goto, AGoto
<1>10. ASSUME NEW t \in Loops, ExpireWait(t) PROVE RequestInv'
  BY ONLY <1>0, LoopsAssumption, <1>10 DEF MutexInv, SoleInv, ConsumedInv, RequestInv,
     NoOneDecides, Sole, Stopped, AtGate, Waiting, Pending, TypeOK, ExpireWait, ParkOrFail,
     dbVars, memVars, loopVars, approveVars, cancelVars, Goto, AGoto
<1>11. ASSUME NEW t \in Loops, GiveUpOnSender(t) PROVE RequestInv'
  BY ONLY <1>0, LoopsAssumption, <1>11 DEF MutexInv, SoleInv, ConsumedInv, RequestInv,
     NoOneDecides, Sole, Stopped, AtGate, Waiting, Pending, TypeOK, GiveUpOnSender, ParkOrFail,
     dbVars, memVars, loopVars, approveVars, cancelVars, Goto, AGoto
<1>12. ASSUME NEW t \in Loops, DropWaitState(t) \/ UnmarkWaiting(t) PROVE RequestInv'
  BY ONLY <1>0, SMTT(30), LoopsAssumption, <1>12 DEF MutexInv, SoleInv, ConsumedInv, RequestInv,
     NoOneDecides, Sole, Stopped, AtGate, Waiting, Pending, TypeOK, DropWaitState,
     UnmarkWaiting, dbVars, memVars, loopVars, approveVars, cancelVars, Goto, AGoto
<1>13. ASSUME NEW a \in Approvers, ReadStatus(a) \/ PickRequest(a) PROVE RequestInv'
  BY ONLY <1>0, SMTT(30), LoopsAssumption, <1>13 DEF MutexInv, SoleInv, ConsumedInv, RequestInv,
     NoOneDecides, Sole, Stopped, AtGate, Waiting, Pending, TypeOK, ReadStatus, PickRequest,
     dbVars, memVars, loopVars, approveVars, cancelVars, Goto, AGoto
<1>14. ASSUME NEW a \in Approvers, ClaimChannel(a) PROVE RequestInv'
  BY ONLY <1>0, LoopsAssumption, <1>14 DEF MutexInv, SoleInv, ConsumedInv, RequestInv,
     NoOneDecides, Sole, Stopped, AtGate, Waiting, Pending, TypeOK, ClaimChannel, dbVars,
     memVars, loopVars, approveVars, cancelVars, Goto, AGoto
<1>15. ASSUME NEW a \in Approvers, Deliver(a) PROVE RequestInv'
  BY ONLY <1>0, LoopsAssumption, <1>15 DEF MutexInv, SoleInv, ConsumedInv, RequestInv,
     NoOneDecides, Sole, Stopped, AtGate, Waiting, Pending, TypeOK, Deliver, dbVars, memVars,
     loopVars, approveVars, cancelVars, Goto, AGoto
<1>16. ASSUME NEW a \in Approvers, ClaimWaitState(a) PROVE RequestInv'
  BY ONLY <1>0, LoopsAssumption, <1>16 DEF MutexInv, SoleInv, ConsumedInv, RequestInv,
     NoOneDecides, Sole, Stopped, AtGate, Waiting, Pending, TypeOK, ClaimWaitState, dbVars,
     memVars, loopVars, approveVars, cancelVars, Goto, AGoto
<1>17. ASSUME NEW a \in Approvers, Revive(a) PROVE RequestInv'
  BY ONLY <1>0, LoopsAssumption, <1>17 DEF MutexInv, SoleInv, ConsumedInv, RequestInv,
     NoOneDecides, Sole, Stopped, AtGate, Waiting, Pending, TypeOK, Revive, dbVars, memVars,
     loopVars, approveVars, cancelVars, Goto, AGoto
<1>18. ASSUME NEW a \in Approvers, Spawn(a) PROVE RequestInv'
  BY ONLY <1>0, SMTT(30), LoopsAssumption, <1>18 DEF MutexInv, SoleInv, ConsumedInv, RequestInv,
     NoOneDecides, Sole, Stopped, AtGate, Waiting, Pending, TypeOK, Spawn, Idle, dbVars,
     memVars, loopVars, approveVars, cancelVars, Goto, AGoto
<1>19. ASSUME NEW a \in Approvers, FailUnresumable(a) PROVE RequestInv'
  BY ONLY <1>0, LoopsAssumption, <1>19 DEF MutexInv, SoleInv, ConsumedInv, RequestInv,
     NoOneDecides, Sole, Stopped, AtGate, Waiting, Pending, TypeOK, FailUnresumable, dbVars,
     memVars, loopVars, approveVars, cancelVars, Goto, AGoto
<1>20. CASE CancelStatus \/ CancelGoroutine \/ CancelPurge \/ ClientDisconnects \/ OtherRunLocks
   \/ OtherRunUnlocks
  BY ONLY <1>0, SMTT(30), LoopsAssumption, <1>20 DEF MutexInv, SoleInv, ConsumedInv, RequestInv,
     NoOneDecides, Sole, Stopped, AtGate, Waiting, Pending, TypeOK, CancelStatus,
     CancelGoroutine, CancelPurge, ClientDisconnects, OtherRunLocks, OtherRunUnlocks, Active,
     dbVars, memVars, loopVars, approveVars, cancelVars, Goto, AGoto
<1>21. CASE Restart
  BY ONLY <1>0, LoopsAssumption, <1>21 DEF MutexInv, SoleInv, ConsumedInv, RequestInv,
     NoOneDecides, Sole, Stopped, AtGate, Waiting, Pending, TypeOK, Restart, dbVars, memVars,
     loopVars, approveVars, cancelVars, Goto, AGoto
<1>22. CASE UNCHANGED vars
  BY ONLY <1>0, LoopsAssumption, <1>22 DEF MutexInv, SoleInv, ConsumedInv, RequestInv,
     NoOneDecides, Sole, Stopped, AtGate, Waiting, Pending, TypeOK, dbVars, memVars, loopVars,
     approveVars, cancelVars, Goto, AGoto, vars
<1> QED BY <1>1, <1>2, <1>3, <1>4, <1>5, <1>6, <1>7, <1>8, <1>9, <1>10, <1>11, <1>12, <1>13,
   <1>14, <1>15, <1>16, <1>17, <1>18, <1>19, <1>20, <1>21, <1>22 DEF Next, LoopStep,
   ApproveStep, CancelStep

(* What an Approve handler carries is the decision on record. *)
LEMMA RecordInvStep ==
  ASSUME TypeInv, TokenInv, SerialApprovals, [Next]_vars PROVE RecordInv'
<1>0. SoleInv /\ RequestInv /\ RecordInv /\ TypeOK
  BY DEF TypeInv, TokenInv, LoopInv, ApproveInv
<1>1. ASSUME NEW a \in Approvers, RecordDecision(a) PROVE RecordInv'
  <2>1. row[a] \in Pending /\ \A i \in Pending : i = row[a]
    BY <1>0, <1>1 DEF RecordDecision, AGoto, RequestInv, RecordInv
  <2>2. choice[a] \in Verdict
    BY <1>1 DEF RecordDecision, AGoto, TypeInv, ApproveRanges
  <2>3. /\ DOMAIN requests' = DOMAIN requests /\ requests'[row[a]].status = choice[a]
        /\ \A i \in DOMAIN requests \ {row[a]} : requests'[i] = requests[i]
    BY <1>0, <1>1, <2>1 DEF RecordDecision, TypeOK, Request, Pending
  <2>4. Pending' = {}
    BY <2>1, <2>2, <2>3 DEF Pending, Verdict
  <2> QED BY <1>0, <1>1, <2>1, <2>3, <2>4, SerialApprovals
          DEF RecordDecision, AGoto, TypeOK, RecordInv, Pending, SerialApprovals
<1>2. ASSUME NEW t \in Loops, RegisterRunCancel(t) \/ LockConversation(t) \/ ClaimRun(t) \/
   Abort(t) \/ FailRun(t) \/ Succeed(t) \/ Exit(t) PROVE RecordInv'
  BY ONLY <1>0, SerialApprovals, <1>2 DEF SoleInv, RequestInv, RecordInv, NoOneDecides, Sole,
     Deciding, Pending, TypeOK, SerialApprovals, RegisterRunCancel, LockConversation, ClaimRun,
     Abort, FailRun, Succeed, Exit, dbVars, memVars, loopVars, approveVars, cancelVars, Goto,
     AGoto
<1>3. ASSUME NEW t \in Loops, CallModel(t) \/ Dispatch(t) \/ ApplyDecision(t) \/ ExecuteTool(t)
   PROVE RecordInv'
  BY ONLY <1>0, SerialApprovals, <1>3 DEF SoleInv, RequestInv, RecordInv, NoOneDecides, Sole,
     Deciding, Pending, TypeOK, SerialApprovals, CallModel, Dispatch, ApplyDecision,
     ExecuteTool, dbVars, memVars, loopVars, approveVars, cancelVars, Goto, AGoto
<1>4. ASSUME NEW t \in Loops, InsertRequest(t) PROVE RecordInv'
  BY ONLY <1>0, SerialApprovals, <1>4 DEF SoleInv, RequestInv, RecordInv, NoOneDecides, Sole,
     Deciding, Pending, TypeOK, SerialApprovals, InsertRequest, dbVars, memVars, loopVars,
     approveVars, cancelVars, Goto, AGoto
<1>5. ASSUME NEW t \in Loops, MarkWaiting(t) PROVE RecordInv'
  BY ONLY <1>0, SerialApprovals, <1>5 DEF SoleInv, RequestInv, RecordInv, NoOneDecides, Sole,
     Deciding, Pending, TypeOK, SerialApprovals, MarkWaiting, dbVars, memVars, loopVars,
     approveVars, cancelVars, Goto, AGoto
<1>6. ASSUME NEW t \in Loops, SaveWaitState(t) \/ RegisterApprovalWait(t) PROVE RecordInv'
  BY ONLY <1>0, SMTT(30), SerialApprovals, <1>6 DEF SoleInv, RequestInv, RecordInv, NoOneDecides, Sole,
     Deciding, Pending, TypeOK, SerialApprovals, SaveWaitState, RegisterApprovalWait, dbVars,
     memVars, loopVars, approveVars, cancelVars, Goto, AGoto
<1>7. ASSUME NEW t \in Loops, ReceiveDecision(t) \/ ExpireWait(t) \/ GiveUpOnSender(t) \/
   DropWaitState(t) \/ UnmarkWaiting(t) PROVE RecordInv'
  BY ONLY <1>0, SMTT(30), SerialApprovals, <1>7 DEF SoleInv, RequestInv, RecordInv, NoOneDecides, Sole,
     Deciding, Pending, TypeOK, SerialApprovals, ReceiveDecision, ExpireWait, GiveUpOnSender,
     DropWaitState, UnmarkWaiting, ParkOrFail, ParkOrFail, dbVars, memVars, loopVars,
     approveVars, cancelVars, Goto, AGoto
<1>8. ASSUME NEW a \in Approvers, ReadStatus(a) \/ PickRequest(a) \/ ClaimChannel(a) \/
   Deliver(a) PROVE RecordInv'
  BY ONLY <1>0, SerialApprovals, <1>8 DEF SoleInv, RequestInv, RecordInv, NoOneDecides, Sole,
     Deciding, Pending, TypeOK, SerialApprovals, ReadStatus, PickRequest, ClaimChannel, Deliver,
     dbVars, memVars, loopVars, approveVars, cancelVars, Goto, AGoto
<1>9. ASSUME NEW a \in Approvers, ClaimWaitState(a) \/ Revive(a) \/ Spawn(a) \/
   FailUnresumable(a) PROVE RecordInv'
  BY ONLY <1>0, SerialApprovals, <1>9 DEF SoleInv, RequestInv, RecordInv, NoOneDecides, Sole,
     Deciding, Pending, TypeOK, SerialApprovals, ClaimWaitState, Revive, Spawn, FailUnresumable,
     Idle, dbVars, memVars, loopVars, approveVars, cancelVars, Goto, AGoto
<1>10. CASE CancelStatus \/ CancelGoroutine \/ CancelPurge \/ ClientDisconnects \/ OtherRunLocks
   \/ OtherRunUnlocks
  BY ONLY <1>0, SerialApprovals, <1>10 DEF SoleInv, RequestInv, RecordInv, NoOneDecides, Sole,
     Deciding, Pending, TypeOK, SerialApprovals, CancelStatus, CancelGoroutine, CancelPurge,
     ClientDisconnects, OtherRunLocks, OtherRunUnlocks, Active, dbVars, memVars, loopVars,
     approveVars, cancelVars, Goto, AGoto
<1>11. CASE Restart
  BY ONLY <1>0, SerialApprovals, <1>11 DEF SoleInv, RequestInv, RecordInv, NoOneDecides, Sole,
     Deciding, Pending, TypeOK, SerialApprovals, Restart, dbVars, memVars, loopVars,
     approveVars, cancelVars, Goto, AGoto
<1>12. CASE UNCHANGED vars
  BY ONLY <1>0, SerialApprovals, <1>12 DEF SoleInv, RequestInv, RecordInv, NoOneDecides, Sole,
     Deciding, Pending, TypeOK, SerialApprovals, dbVars, memVars, loopVars, approveVars,
     cancelVars, Goto, AGoto, vars
<1> QED BY <1>1, <1>2, <1>3, <1>4, <1>5, <1>6, <1>7, <1>8, <1>9, <1>10, <1>11, <1>12 DEF Next,
   LoopStep, ApproveStep, CancelStep

(* The handler, the snapshot and the goroutine at the gate agree on the call. *)
LEMMA CarryInvStep ==
  ASSUME TypeInv, TokenInv, SerialApprovals, [Next]_vars PROVE CarryInv'
<1>0. SoleInv /\ RequestInv /\ RecordInv /\ CarryInv /\ TypeOK
  BY DEF TypeInv, TokenInv, LoopInv, ApproveInv
<1>1. ASSUME NEW t \in Loops, RegisterRunCancel(t) \/ LockConversation(t) \/ ClaimRun(t) \/
   Abort(t) PROVE CarryInv'
  BY ONLY <1>0, SMTT(30), SerialApprovals, <1>1 DEF SoleInv, RequestInv, RecordInv, CarryInv,
     NoOneDecides, Sole, AtGate, Pending, TypeOK, SerialApprovals, RegisterRunCancel,
     LockConversation, ClaimRun, Abort, dbVars, memVars, loopVars, approveVars, cancelVars,
     Goto, AGoto
<1>2. ASSUME NEW t \in Loops, FailRun(t) \/ Succeed(t) PROVE CarryInv'
  BY ONLY <1>0, SerialApprovals, <1>2 DEF SoleInv, RequestInv, RecordInv, CarryInv,
     NoOneDecides, Sole, AtGate, Pending, TypeOK, SerialApprovals, FailRun, Succeed, dbVars,
     memVars, loopVars, approveVars, cancelVars, Goto, AGoto
<1>3. ASSUME NEW t \in Loops, Exit(t) PROVE CarryInv'
  BY ONLY <1>0, SerialApprovals, <1>3 DEF SoleInv, RequestInv, RecordInv, CarryInv,
     NoOneDecides, Sole, AtGate, Pending, TypeOK, SerialApprovals, Exit, dbVars, memVars,
     loopVars, approveVars, cancelVars, Goto, AGoto
<1>4. ASSUME NEW t \in Loops, CallModel(t) \/ Dispatch(t) \/ ApplyDecision(t) \/ ExecuteTool(t)
   PROVE CarryInv'
  BY ONLY <1>0, SerialApprovals, <1>4 DEF SoleInv, RequestInv, RecordInv, CarryInv,
     NoOneDecides, Sole, AtGate, Pending, TypeOK, SerialApprovals, CallModel, Dispatch,
     ApplyDecision, ExecuteTool, dbVars, memVars, loopVars, approveVars, cancelVars, Goto, AGoto
<1>5. ASSUME NEW t \in Loops, InsertRequest(t) PROVE CarryInv'
  BY ONLY <1>0, SerialApprovals, <1>5 DEF SoleInv, RequestInv, RecordInv, CarryInv,
     NoOneDecides, Sole, AtGate, Pending, TypeOK, SerialApprovals, InsertRequest, dbVars,
     memVars, loopVars, approveVars, cancelVars, Goto, AGoto
<1>6. ASSUME NEW t \in Loops, MarkWaiting(t) PROVE CarryInv'
  BY ONLY <1>0, SerialApprovals, <1>6 DEF SoleInv, RequestInv, RecordInv, CarryInv,
     NoOneDecides, Sole, AtGate, Pending, TypeOK, SerialApprovals, MarkWaiting, dbVars, memVars,
     loopVars, approveVars, cancelVars, Goto, AGoto
<1>7. ASSUME NEW t \in Loops, SaveWaitState(t) \/ RegisterApprovalWait(t) PROVE CarryInv'
  BY ONLY <1>0, SMTT(30), SerialApprovals, <1>7 DEF SoleInv, RequestInv, RecordInv, CarryInv,
     NoOneDecides, Sole, AtGate, Pending, TypeOK, SerialApprovals, SaveWaitState,
     RegisterApprovalWait, dbVars, memVars, loopVars, approveVars, cancelVars, Goto, AGoto
<1>8. ASSUME NEW t \in Loops, ReceiveDecision(t) \/ ExpireWait(t) \/ GiveUpOnSender(t) PROVE
   CarryInv'
  BY ONLY <1>0, SMTT(30), SerialApprovals, <1>8 DEF SoleInv, RequestInv, RecordInv, CarryInv,
     NoOneDecides, Sole, AtGate, Pending, TypeOK, SerialApprovals, ReceiveDecision, ExpireWait,
     GiveUpOnSender, ParkOrFail, ParkOrFail, dbVars, memVars, loopVars, approveVars, cancelVars,
     Goto, AGoto
<1>9. ASSUME NEW t \in Loops, DropWaitState(t) \/ UnmarkWaiting(t) PROVE CarryInv'
  BY ONLY <1>0, SerialApprovals, <1>9 DEF SoleInv, RequestInv, RecordInv, CarryInv,
     NoOneDecides, Sole, AtGate, Pending, TypeOK, SerialApprovals, DropWaitState, UnmarkWaiting,
     dbVars, memVars, loopVars, approveVars, cancelVars, Goto, AGoto
<1>10. ASSUME NEW a \in Approvers, ReadStatus(a) \/ PickRequest(a) PROVE CarryInv'
  BY ONLY <1>0, SerialApprovals, <1>10 DEF SoleInv, RequestInv, RecordInv, CarryInv,
     NoOneDecides, Sole, AtGate, Pending, TypeOK, SerialApprovals, ReadStatus, PickRequest,
     dbVars, memVars, loopVars, approveVars, cancelVars, Goto, AGoto
<1>11. ASSUME NEW a \in Approvers, RecordDecision(a) PROVE CarryInv'
  BY ONLY <1>0, SerialApprovals, <1>11 DEF SoleInv, RequestInv, RecordInv, CarryInv,
     NoOneDecides, Sole, AtGate, Pending, TypeOK, SerialApprovals, RecordDecision, dbVars,
     memVars, loopVars, approveVars, cancelVars, Goto, AGoto
<1>12. ASSUME NEW a \in Approvers, ClaimChannel(a) \/ Deliver(a) PROVE CarryInv'
  BY ONLY <1>0, SerialApprovals, <1>12 DEF SoleInv, RequestInv, RecordInv, CarryInv,
     NoOneDecides, Sole, AtGate, Pending, TypeOK, SerialApprovals, ClaimChannel, Deliver,
     dbVars, memVars, loopVars, approveVars, cancelVars, Goto, AGoto
<1>13. ASSUME NEW a \in Approvers, ClaimWaitState(a) \/ Revive(a) \/ Spawn(a) \/
   FailUnresumable(a) PROVE CarryInv'
  BY ONLY <1>0, SerialApprovals, <1>13 DEF SoleInv, RequestInv, RecordInv, CarryInv,
     NoOneDecides, Sole, AtGate, Pending, TypeOK, SerialApprovals, ClaimWaitState, Revive,
     Spawn, FailUnresumable, Idle, dbVars, memVars, loopVars, approveVars, cancelVars, Goto,
     AGoto
<1>14. CASE CancelStatus \/ CancelGoroutine \/ CancelPurge \/ ClientDisconnects \/ OtherRunLocks
   \/ OtherRunUnlocks
  BY ONLY <1>0, SerialApprovals, <1>14 DEF SoleInv, RequestInv, RecordInv, CarryInv,
     NoOneDecides, Sole, AtGate, Pending, TypeOK, SerialApprovals, CancelStatus,
     CancelGoroutine, CancelPurge, ClientDisconnects, OtherRunLocks, OtherRunUnlocks, Active,
     dbVars, memVars, loopVars, approveVars, cancelVars, Goto, AGoto
<1>15. CASE Restart
  BY ONLY <1>0, SerialApprovals, <1>15 DEF SoleInv, RequestInv, RecordInv, CarryInv,
     NoOneDecides, Sole, AtGate, Pending, TypeOK, SerialApprovals, Restart, dbVars, memVars,
     loopVars, approveVars, cancelVars, Goto, AGoto
<1>16. CASE UNCHANGED vars
  BY ONLY <1>0, SerialApprovals, <1>16 DEF SoleInv, RequestInv, RecordInv, CarryInv,
     NoOneDecides, Sole, AtGate, Pending, TypeOK, SerialApprovals, dbVars, memVars, loopVars,
     approveVars, cancelVars, Goto, AGoto, vars
<1> QED BY <1>1, <1>2, <1>3, <1>4, <1>5, <1>6, <1>7, <1>8, <1>9, <1>10, <1>11, <1>12, <1>13,
   <1>14, <1>15, <1>16 DEF Next, LoopStep, ApproveStep, CancelStep

(* A claimed channel belongs to the goroutine that waits for this decision. *)
LEMMA DeliverInvStep ==
  ASSUME TypeInv, TokenInv, SerialApprovals, [Next]_vars PROVE DeliverInv'
<1>0. MutexInv /\ CarryInv /\ ChannelInv /\ DeliverInv /\ SoleInv /\ TypeOK
  BY DEF TypeInv, TokenInv, LoopInv, ApproveInv
<1>1. ASSUME NEW t \in Loops, Exit(t) PROVE DeliverInv'
  <2>1. \A a \in Approvers : target[a] # t \/ target[a] = NoLoop
    BY <1>0, <1>1 DEF Exit, Goto, DeliverInv
  <2> QED BY <1>0, <1>1, <2>1, LoopsAssumption DEF Exit, Goto, TypeOK, DeliverInv, approveVars, dbVars
<1>2. ASSUME NEW t \in Loops, RegisterApprovalWait(t) PROVE DeliverInv'
  <2>1. pc[t] = "register" /\ \A u \in Loops : pc[u] \notin {"await", "inflight"}
    BY <1>0, <1>2 DEF RegisterApprovalWait, Goto, MutexInv, Waiting
  <2>2. \A a \in Approvers : target[a] = NoLoop
    BY <1>0, <2>1 DEF TypeOK, DeliverInv
  <2> QED BY <1>2, <2>2 DEF RegisterApprovalWait, DeliverInv, approveVars
<1>3. ASSUME NEW t \in Loops, ExpireWait(t) PROVE DeliverInv'
  <2> SUFFICES ASSUME NEW a \in Approvers, target[a] # NoLoop
               PROVE  /\ apc[a] = "deliver"
                      /\ pc'[target[a]] \in {"await", "inflight"}
                      /\ call[target[a]] = requests[row[a]].call
    BY <1>3 DEF ExpireWait, DeliverInv, approveVars, dbVars
  <2>1. /\ apc[a] = "deliver" /\ pc[target[a]] \in {"await", "inflight"} /\ registry = NoLoop
        /\ call[target[a]] = requests[row[a]].call
    BY <1>0 DEF DeliverInv
  <2>2. pc'[t] = "inflight" /\ target[a] \in Loops
    BY <1>0, <1>3, <2>1 DEF ExpireWait, TypeOK
  <2> QED BY <1>0, <1>3, <2>1, <2>2 DEF ExpireWait, TypeOK
<1>4. ASSUME NEW t \in Loops, RegisterRunCancel(t) PROVE DeliverInv'
  BY ONLY <1>0, LoopsAssumption, SerialApprovals, <1>4 DEF MutexInv, CarryInv, ChannelInv,
     DeliverInv, SoleInv, NoOneDecides, Sole, Waiting, AtGate, TypeOK, SerialApprovals,
     RegisterRunCancel, dbVars, memVars, loopVars, approveVars, cancelVars, Goto, AGoto
<1>5. ASSUME NEW t \in Loops, LockConversation(t) PROVE DeliverInv'
  BY ONLY <1>0, LoopsAssumption, SerialApprovals, <1>5 DEF MutexInv, CarryInv, ChannelInv,
     DeliverInv, SoleInv, NoOneDecides, Sole, Waiting, AtGate, TypeOK, SerialApprovals,
     LockConversation, dbVars, memVars, loopVars, approveVars, cancelVars, Goto, AGoto
<1>6. ASSUME NEW t \in Loops, ClaimRun(t) PROVE DeliverInv'
  BY ONLY <1>0, LoopsAssumption, SerialApprovals, <1>6 DEF MutexInv, CarryInv, ChannelInv,
     DeliverInv, SoleInv, NoOneDecides, Sole, Waiting, AtGate, TypeOK, SerialApprovals,
     ClaimRun, dbVars, memVars, loopVars, approveVars, cancelVars, Goto, AGoto
<1>7. ASSUME NEW t \in Loops, Abort(t) PROVE DeliverInv'
  BY ONLY <1>0, LoopsAssumption, SerialApprovals, <1>7 DEF MutexInv, CarryInv, ChannelInv,
     DeliverInv, SoleInv, NoOneDecides, Sole, Waiting, AtGate, TypeOK, SerialApprovals, Abort,
     dbVars, memVars, loopVars, approveVars, cancelVars, Goto, AGoto
<1>8. ASSUME NEW t \in Loops, FailRun(t) PROVE DeliverInv'
  BY ONLY <1>0, LoopsAssumption, SerialApprovals, <1>8 DEF MutexInv, CarryInv, ChannelInv,
     DeliverInv, SoleInv, NoOneDecides, Sole, Waiting, AtGate, TypeOK, SerialApprovals, FailRun,
     dbVars, memVars, loopVars, approveVars, cancelVars, Goto, AGoto
<1>9. ASSUME NEW t \in Loops, Succeed(t) PROVE DeliverInv'
  BY ONLY <1>0, LoopsAssumption, SerialApprovals, <1>9 DEF MutexInv, CarryInv, ChannelInv,
     DeliverInv, SoleInv, NoOneDecides, Sole, Waiting, AtGate, TypeOK, SerialApprovals, Succeed,
     dbVars, memVars, loopVars, approveVars, cancelVars, Goto, AGoto
<1>10. ASSUME NEW t \in Loops, CallModel(t) PROVE DeliverInv'
  BY ONLY <1>0, LoopsAssumption, SerialApprovals, <1>10 DEF MutexInv, CarryInv, ChannelInv,
     DeliverInv, SoleInv, NoOneDecides, Sole, Waiting, AtGate, TypeOK, SerialApprovals,
     CallModel, dbVars, memVars, loopVars, approveVars, cancelVars, Goto, AGoto
<1>11. ASSUME NEW t \in Loops, Dispatch(t) PROVE DeliverInv'
  BY ONLY <1>0, LoopsAssumption, SerialApprovals, <1>11 DEF MutexInv, CarryInv, ChannelInv,
     DeliverInv, SoleInv, NoOneDecides, Sole, Waiting, AtGate, TypeOK, SerialApprovals,
     Dispatch, dbVars, memVars, loopVars, approveVars, cancelVars, Goto, AGoto
<1>12. ASSUME NEW t \in Loops, ApplyDecision(t) PROVE DeliverInv'
  BY ONLY <1>0, LoopsAssumption, SerialApprovals, <1>12 DEF MutexInv, CarryInv, ChannelInv,
     DeliverInv, SoleInv, NoOneDecides, Sole, Waiting, AtGate, TypeOK, SerialApprovals,
     ApplyDecision, dbVars, memVars, loopVars, approveVars, cancelVars, Goto, AGoto
<1>13. ASSUME NEW t \in Loops, ExecuteTool(t) PROVE DeliverInv'
  BY ONLY <1>0, LoopsAssumption, SerialApprovals, <1>13 DEF MutexInv, CarryInv, ChannelInv,
     DeliverInv, SoleInv, NoOneDecides, Sole, Waiting, AtGate, TypeOK, SerialApprovals,
     ExecuteTool, dbVars, memVars, loopVars, approveVars, cancelVars, Goto, AGoto
<1>14. ASSUME NEW t \in Loops, InsertRequest(t) PROVE DeliverInv'
  BY ONLY <1>0, LoopsAssumption, SerialApprovals, <1>14 DEF MutexInv, CarryInv, ChannelInv,
     DeliverInv, SoleInv, NoOneDecides, Sole, Waiting, AtGate, TypeOK, SerialApprovals,
     InsertRequest, dbVars, memVars, loopVars, approveVars, cancelVars, Goto, AGoto
<1>15. ASSUME NEW t \in Loops, MarkWaiting(t) PROVE DeliverInv'
  BY ONLY <1>0, LoopsAssumption, SerialApprovals, <1>15 DEF MutexInv, CarryInv, ChannelInv,
     DeliverInv, SoleInv, NoOneDecides, Sole, Waiting, AtGate, TypeOK, SerialApprovals,
     MarkWaiting, dbVars, memVars, loopVars, approveVars, cancelVars, Goto, AGoto
<1>16. ASSUME NEW t \in Loops, SaveWaitState(t) PROVE DeliverInv'
  BY ONLY <1>0, LoopsAssumption, SerialApprovals, <1>16 DEF MutexInv, CarryInv, ChannelInv,
     DeliverInv, SoleInv, NoOneDecides, Sole, Waiting, AtGate, TypeOK, SerialApprovals,
     SaveWaitState, dbVars, memVars, loopVars, approveVars, cancelVars, Goto, AGoto
<1>17. ASSUME NEW t \in Loops, ReceiveDecision(t) PROVE DeliverInv'
  BY ONLY <1>0, LoopsAssumption, SerialApprovals, <1>17 DEF MutexInv, CarryInv, ChannelInv,
     DeliverInv, SoleInv, NoOneDecides, Sole, Waiting, AtGate, TypeOK, SerialApprovals,
     ReceiveDecision, dbVars, memVars, loopVars, approveVars, cancelVars, Goto, AGoto
<1>18. ASSUME NEW t \in Loops, GiveUpOnSender(t) PROVE DeliverInv'
  BY ONLY <1>0, LoopsAssumption, SerialApprovals, <1>18 DEF MutexInv, CarryInv, ChannelInv,
     DeliverInv, SoleInv, NoOneDecides, Sole, Waiting, AtGate, TypeOK, SerialApprovals,
     GiveUpOnSender, ParkOrFail, dbVars, memVars, loopVars, approveVars, cancelVars, Goto, AGoto
<1>19. ASSUME NEW t \in Loops, DropWaitState(t) PROVE DeliverInv'
  BY ONLY <1>0, LoopsAssumption, SerialApprovals, <1>19 DEF MutexInv, CarryInv, ChannelInv,
     DeliverInv, SoleInv, NoOneDecides, Sole, Waiting, AtGate, TypeOK, SerialApprovals,
     DropWaitState, dbVars, memVars, loopVars, approveVars, cancelVars, Goto, AGoto
<1>20. ASSUME NEW t \in Loops, UnmarkWaiting(t) PROVE DeliverInv'
  BY ONLY <1>0, LoopsAssumption, SerialApprovals, <1>20 DEF MutexInv, CarryInv, ChannelInv,
     DeliverInv, SoleInv, NoOneDecides, Sole, Waiting, AtGate, TypeOK, SerialApprovals,
     UnmarkWaiting, dbVars, memVars, loopVars, approveVars, cancelVars, Goto, AGoto
<1>21. ASSUME NEW a \in Approvers, ReadStatus(a) \/ PickRequest(a) \/ RecordDecision(a) \/
   ClaimChannel(a) \/ Deliver(a) PROVE DeliverInv'
  BY ONLY <1>0, LoopsAssumption, SerialApprovals, <1>21 DEF MutexInv, CarryInv, ChannelInv,
     DeliverInv, SoleInv, NoOneDecides, Sole, Waiting, AtGate, TypeOK, SerialApprovals,
     ReadStatus, PickRequest, RecordDecision, ClaimChannel, Deliver, dbVars, memVars, loopVars,
     approveVars, cancelVars, Goto, AGoto
<1>22. ASSUME NEW a \in Approvers, ClaimWaitState(a) \/ Revive(a) \/ Spawn(a) \/
   FailUnresumable(a) PROVE DeliverInv'
  BY ONLY <1>0, LoopsAssumption, SerialApprovals, <1>22 DEF MutexInv, CarryInv, ChannelInv,
     DeliverInv, SoleInv, NoOneDecides, Sole, Waiting, AtGate, TypeOK, SerialApprovals,
     ClaimWaitState, Revive, Spawn, FailUnresumable, Idle, dbVars, memVars, loopVars,
     approveVars, cancelVars, Goto, AGoto
<1>23. CASE CancelStatus \/ CancelGoroutine \/ CancelPurge \/ ClientDisconnects \/ OtherRunLocks
   \/ OtherRunUnlocks
  BY ONLY <1>0, LoopsAssumption, SerialApprovals, <1>23 DEF MutexInv, CarryInv, ChannelInv,
     DeliverInv, SoleInv, NoOneDecides, Sole, Waiting, AtGate, TypeOK, SerialApprovals,
     CancelStatus, CancelGoroutine, CancelPurge, ClientDisconnects, OtherRunLocks,
     OtherRunUnlocks, Active, dbVars, memVars, loopVars, approveVars, cancelVars, Goto, AGoto
<1>24. CASE Restart
  BY ONLY <1>0, LoopsAssumption, SerialApprovals, <1>24 DEF MutexInv, CarryInv, ChannelInv,
     DeliverInv, SoleInv, NoOneDecides, Sole, Waiting, AtGate, TypeOK, SerialApprovals, Restart,
     dbVars, memVars, loopVars, approveVars, cancelVars, Goto, AGoto
<1>25. CASE UNCHANGED vars
  BY ONLY <1>0, LoopsAssumption, SerialApprovals, <1>25 DEF MutexInv, CarryInv, ChannelInv,
     DeliverInv, SoleInv, NoOneDecides, Sole, Waiting, AtGate, TypeOK, SerialApprovals, dbVars,
     memVars, loopVars, approveVars, cancelVars, Goto, AGoto, vars
<1> QED BY <1>1, <1>2, <1>3, <1>4, <1>5, <1>6, <1>7, <1>8, <1>9, <1>10, <1>11, <1>12, <1>13,
   <1>14, <1>15, <1>16, <1>17, <1>18, <1>19, <1>20, <1>21, <1>22, <1>23, <1>24, <1>25 DEF Next,
   LoopStep, ApproveStep, CancelStep

(* Once a snapshot is claimed nobody else can go on with the run. *)
LEMMA ReviveInvStep ==
  ASSUME TypeInv, TokenInv, SerialApprovals, [Next]_vars PROVE ReviveInv'
<1>0. CarryInv /\ ChannelInv /\ ReviveInv /\ SoleInv /\ ConsumedInv /\ TypeOK
  BY DEF TypeInv, TokenInv, LoopInv, ApproveInv
<1>1. ASSUME NEW a \in Approvers, ClaimWaitState(a) PROVE ReviveInv'
  <2>1. CASE snapshot = NoSnapshot
    BY <1>0, <1>1, <2>1, SerialApprovals DEF ClaimWaitState, TypeOK, ReviveInv, SerialApprovals
  <2>2. CASE snapshot # NoSnapshot
    <3>1. \A t \in Loops : pc[t] \notin Sole
      BY <1>0, <1>1 DEF ClaimWaitState, SoleInv, NoOneDecides
    <3>2. \A t \in Loops : pc[t] \in Stopped \cup {"idle"}
      BY <1>0, <2>2, <3>1 DEF ConsumedInv, Sole
    <3>3. snapshot.call = requests[row[a]].call
      BY <1>0, <1>1, <2>2 DEF ClaimWaitState, CarryInv
    <3> QED BY <1>0, <1>1, <3>2, <3>3, SerialApprovals
            DEF ClaimWaitState, TypeOK, ReviveInv, loopVars, SerialApprovals
  <2> QED BY <2>1, <2>2
<1>2. ASSUME NEW t \in Loops, RegisterRunCancel(t) \/ LockConversation(t) \/ ClaimRun(t) \/
   Abort(t) PROVE ReviveInv'
  BY ONLY <1>0, LoopsAssumption, SerialApprovals, <1>2 DEF CarryInv, ChannelInv, ReviveInv,
     SoleInv, ConsumedInv, NoOneDecides, Sole, Stopped, AtGate, TypeOK, SerialApprovals,
     RegisterRunCancel, LockConversation, ClaimRun, Abort, dbVars, memVars, loopVars,
     approveVars, cancelVars, Goto, AGoto
<1>3. ASSUME NEW t \in Loops, FailRun(t) PROVE ReviveInv'
  BY ONLY <1>0, LoopsAssumption, SerialApprovals, <1>3 DEF CarryInv, ChannelInv, ReviveInv,
     SoleInv, ConsumedInv, NoOneDecides, Sole, Stopped, AtGate, TypeOK, SerialApprovals,
     FailRun, dbVars, memVars, loopVars, approveVars, cancelVars, Goto, AGoto
<1>4. ASSUME NEW t \in Loops, Succeed(t) PROVE ReviveInv'
  BY ONLY <1>0, LoopsAssumption, SerialApprovals, <1>4 DEF CarryInv, ChannelInv, ReviveInv,
     SoleInv, ConsumedInv, NoOneDecides, Sole, Stopped, AtGate, TypeOK, SerialApprovals,
     Succeed, dbVars, memVars, loopVars, approveVars, cancelVars, Goto, AGoto
<1>5. ASSUME NEW t \in Loops, Exit(t) PROVE ReviveInv'
  BY ONLY <1>0, LoopsAssumption, SerialApprovals, <1>5 DEF CarryInv, ChannelInv, ReviveInv,
     SoleInv, ConsumedInv, NoOneDecides, Sole, Stopped, AtGate, TypeOK, SerialApprovals, Exit,
     dbVars, memVars, loopVars, approveVars, cancelVars, Goto, AGoto
<1>6. ASSUME NEW t \in Loops, CallModel(t) \/ Dispatch(t) \/ ApplyDecision(t) \/ ExecuteTool(t)
   PROVE ReviveInv'
  BY ONLY <1>0, LoopsAssumption, SerialApprovals, <1>6 DEF CarryInv, ChannelInv, ReviveInv,
     SoleInv, ConsumedInv, NoOneDecides, Sole, Stopped, AtGate, TypeOK, SerialApprovals,
     CallModel, Dispatch, ApplyDecision, ExecuteTool, dbVars, memVars, loopVars, approveVars,
     cancelVars, Goto, AGoto
<1>7. ASSUME NEW t \in Loops, InsertRequest(t) \/ MarkWaiting(t) PROVE ReviveInv'
  BY ONLY <1>0, LoopsAssumption, SerialApprovals, <1>7 DEF CarryInv, ChannelInv, ReviveInv,
     SoleInv, ConsumedInv, NoOneDecides, Sole, Stopped, AtGate, TypeOK, SerialApprovals,
     InsertRequest, MarkWaiting, dbVars, memVars, loopVars, approveVars, cancelVars, Goto, AGoto
<1>8. ASSUME NEW t \in Loops, SaveWaitState(t) PROVE ReviveInv'
  BY ONLY <1>0, LoopsAssumption, SerialApprovals, <1>8 DEF CarryInv, ChannelInv, ReviveInv,
     SoleInv, ConsumedInv, NoOneDecides, Sole, Stopped, AtGate, TypeOK, SerialApprovals,
     SaveWaitState, dbVars, memVars, loopVars, approveVars, cancelVars, Goto, AGoto
<1>9. ASSUME NEW t \in Loops, RegisterApprovalWait(t) PROVE ReviveInv'
  BY ONLY <1>0, LoopsAssumption, SerialApprovals, <1>9 DEF CarryInv, ChannelInv, ReviveInv,
     SoleInv, ConsumedInv, NoOneDecides, Sole, Stopped, AtGate, TypeOK, SerialApprovals,
     RegisterApprovalWait, dbVars, memVars, loopVars, approveVars, cancelVars, Goto, AGoto
<1>10. ASSUME NEW t \in Loops, ReceiveDecision(t) PROVE ReviveInv'
  BY ONLY <1>0, LoopsAssumption, SerialApprovals, <1>10 DEF CarryInv, ChannelInv, ReviveInv,
     SoleInv, ConsumedInv, NoOneDecides, Sole, Stopped, AtGate, TypeOK, SerialApprovals,
     ReceiveDecision, dbVars, memVars, loopVars, approveVars, cancelVars, Goto, AGoto
<1>11. ASSUME NEW t \in Loops, ExpireWait(t) PROVE ReviveInv'
  BY ONLY <1>0, ZenonT(40), LoopsAssumption, SerialApprovals, <1>11 DEF CarryInv, ChannelInv, ReviveInv,
     SoleInv, ConsumedInv, NoOneDecides, Sole, Stopped, AtGate, TypeOK, SerialApprovals,
     ExpireWait, ParkOrFail, dbVars, memVars, loopVars, approveVars, cancelVars, Goto, AGoto
<1>12. ASSUME NEW t \in Loops, GiveUpOnSender(t) PROVE ReviveInv'
  BY ONLY <1>0, LoopsAssumption, SerialApprovals, <1>12 DEF CarryInv, ChannelInv, ReviveInv,
     SoleInv, ConsumedInv, NoOneDecides, Sole, Stopped, AtGate, TypeOK, SerialApprovals,
     GiveUpOnSender, ParkOrFail, dbVars, memVars, loopVars, approveVars, cancelVars, Goto, AGoto
<1>13. ASSUME NEW t \in Loops, DropWaitState(t) \/ UnmarkWaiting(t) PROVE ReviveInv'
  BY ONLY <1>0, LoopsAssumption, SerialApprovals, <1>13 DEF CarryInv, ChannelInv, ReviveInv,
     SoleInv, ConsumedInv, NoOneDecides, Sole, Stopped, AtGate, TypeOK, SerialApprovals,
     DropWaitState, UnmarkWaiting, dbVars, memVars, loopVars, approveVars, cancelVars, Goto,
     AGoto
<1>14. ASSUME NEW a \in Approvers, ReadStatus(a) \/ PickRequest(a) \/ RecordDecision(a) \/
   ClaimChannel(a) \/ Deliver(a) PROVE ReviveInv'
  BY ONLY <1>0, LoopsAssumption, SerialApprovals, <1>14 DEF CarryInv, ChannelInv, ReviveInv,
     SoleInv, ConsumedInv, NoOneDecides, Sole, Stopped, AtGate, TypeOK, SerialApprovals,
     ReadStatus, PickRequest, RecordDecision, ClaimChannel, Deliver, dbVars, memVars, loopVars,
     approveVars, cancelVars, Goto, AGoto
<1>15. ASSUME NEW a \in Approvers, Revive(a) \/ Spawn(a) \/ FailUnresumable(a) PROVE ReviveInv'
  BY ONLY <1>0, LoopsAssumption, SerialApprovals, <1>15 DEF CarryInv, ChannelInv, ReviveInv,
     SoleInv, ConsumedInv, NoOneDecides, Sole, Stopped, AtGate, TypeOK, SerialApprovals, Revive,
     Spawn, FailUnresumable, Idle, dbVars, memVars, loopVars, approveVars, cancelVars, Goto,
     AGoto
<1>16. CASE CancelStatus \/ CancelGoroutine \/ CancelPurge \/ ClientDisconnects \/ OtherRunLocks
   \/ OtherRunUnlocks
  BY ONLY <1>0, LoopsAssumption, SerialApprovals, <1>16 DEF CarryInv, ChannelInv, ReviveInv,
     SoleInv, ConsumedInv, NoOneDecides, Sole, Stopped, AtGate, TypeOK, SerialApprovals,
     CancelStatus, CancelGoroutine, CancelPurge, ClientDisconnects, OtherRunLocks,
     OtherRunUnlocks, Active, dbVars, memVars, loopVars, approveVars, cancelVars, Goto, AGoto
<1>17. CASE Restart
  BY ONLY <1>0, LoopsAssumption, SerialApprovals, <1>17 DEF CarryInv, ChannelInv, ReviveInv,
     SoleInv, ConsumedInv, NoOneDecides, Sole, Stopped, AtGate, TypeOK, SerialApprovals,
     Restart, dbVars, memVars, loopVars, approveVars, cancelVars, Goto, AGoto
<1>18. CASE UNCHANGED vars
  BY ONLY <1>0, LoopsAssumption, SerialApprovals, <1>18 DEF CarryInv, ChannelInv, ReviveInv,
     SoleInv, ConsumedInv, NoOneDecides, Sole, Stopped, AtGate, TypeOK, SerialApprovals, dbVars,
     memVars, loopVars, approveVars, cancelVars, Goto, AGoto, vars
<1> QED BY <1>1, <1>2, <1>3, <1>4, <1>5, <1>6, <1>7, <1>8, <1>9, <1>10, <1>11, <1>12, <1>13,
   <1>14, <1>15, <1>16, <1>17, <1>18 DEF Next, LoopStep, ApproveStep, CancelStep

(* An approval that travels is on record. *)
LEMMA ApprovalInvStep ==
  ASSUME TypeInv, TokenInv, SerialApprovals, [Next]_vars PROVE ApprovalInv'
<1> SUFFICES ASSUME NEW u \in Loops, NEW k, call'[u] = k,
                    \/ decision'[u] = "approved" \/ chan'[u] = "approved"
                    \/ pc'[u] = "exec" /\ k \in Gated
             PROVE  HasApproval(k)
  BY ApprovalsStay DEF ApprovalInv
<1>0. TypeOK /\ ApprovalInv /\ ChannelInv /\ UndecidedInv /\ RecordInv /\ DeliverInv /\ ReviveInv
  BY DEF TypeInv, TokenInv, LoopInv, ApproveInv
<1> DEFINE Entitled == \/ decision[u] = "approved" \/ chan[u] = "approved"
                       \/ pc[u] = "exec" /\ k \in Gated
<1>1. ASSUME call[u] = k, Entitled PROVE HasApproval(k)
  BY <1>0, <1>1 DEF ApprovalInv
<1>2. ASSUME NEW t \in Loops,
             Exit(t) \/ CallModel(t) \/ Dispatch(t) \/ ApplyDecision(t) PROVE HasApproval(k)
  <2>1. chan' = chan /\ \A v \in Loops \ {t} : pc'[v] = pc[v] /\ call'[v] = call[v] /\ decision'[v] = decision[v]
    BY <1>0, <1>2 DEF Exit, CallModel, Dispatch, ApplyDecision, Goto, TypeOK, memVars
  <2>2. chan[t] = "none"
    BY <1>0, <1>2 DEF Exit, CallModel, Dispatch, ApplyDecision, Goto, ChannelInv
  <2>3. CASE u # t
    BY <1>1, <2>1, <2>3
  <2>4. CASE u = t /\ (Exit(t) \/ CallModel(t))
    BY <1>0, <2>1, <2>2, <2>4 DEF Exit, CallModel, Goto, TypeOK, UndecidedInv
  <2>5. CASE u = t /\ (Dispatch(t) \/ ApplyDecision(t))
    <3>1. call[t] = k
      BY <2>5 DEF Dispatch, ApplyDecision
    <3>2. CASE Dispatch(t)
      <4>1. decision' = decision /\ (pc'[t] = "exec" => k \notin Gated)
        BY <1>0, <2>5, <3>1, <3>2 DEF Dispatch, TypeOK
      <4> QED BY <1>1, <2>1, <2>2, <2>5, <3>1, <4>1
    <3>3. CASE ApplyDecision(t)
      <4>1. decision[t] \in {"approved", "rejected"}
        BY <1>0, <3>3 DEF ApplyDecision, TypeOK, TypeInv, LoopRanges, Verdict
      <4>2. decision'[t] = "none" /\ (pc'[t] = "exec" => decision[t] = "approved")
        BY <1>0, <3>3, <4>1 DEF ApplyDecision, TypeOK
      <4> QED BY <1>1, <2>1, <2>2, <2>5, <3>1, <4>2
    <3> QED BY <2>5, <3>2, <3>3
  <2> QED BY <1>2, <2>3, <2>4, <2>5
<1>3. ASSUME NEW t \in Loops,
             RegisterApprovalWait(t) \/ ReceiveDecision(t) \/ ExpireWait(t) PROVE HasApproval(k)
  <2>1. call' = call /\ (pc'[u] = "exec" => pc[u] = "exec")
    BY <1>0, <1>3 DEF RegisterApprovalWait, ReceiveDecision, ExpireWait, ParkOrFail, Goto, TypeOK
  <2>2. decision'[u] \in {decision[u], chan[u]} /\ chan'[u] \in {chan[u], "none"}
    BY <1>0, <1>3 DEF RegisterApprovalWait, ReceiveDecision, ExpireWait, TypeOK
  <2> QED BY <1>1, <2>1, <2>2
<1>4. ASSUME NEW a \in Approvers, Deliver(a) PROVE HasApproval(k)
  <2>1. CASE target[a] = u /\ choice[a] = "approved"
    <3>1. call[u] = k /\ requests[row[a]].call = k /\ requests[row[a]].status = "approved"
          /\ row[a] \in DOMAIN requests
      BY <1>0, <1>4, <2>1, LoopsAssumption DEF Deliver, AGoto, DeliverInv, RecordInv, Deciding,
         loopVars
    <3> QED BY <3>1 DEF HasApproval
  <2>2. CASE ~(target[a] = u /\ choice[a] = "approved")
    BY <1>0, <1>1, <1>4, <2>2 DEF Deliver, TypeOK, loopVars
  <2> QED BY <2>1, <2>2
<1>5. ASSUME NEW a \in Approvers, Spawn(a) PROVE HasApproval(k)
  <2>1. PICK t \in Loops : /\ pc' = [pc EXCEPT ![t] = "start"]
                           /\ call' = [call EXCEPT ![t] = held[a].call]
                           /\ decision' = [decision EXCEPT ![t] = choice[a]]
                           /\ chan' = chan
                           /\ pc[t] = "idle"
    BY <1>5 DEF Spawn, Idle, memVars
  <2>2. CASE u # t
    BY <1>0, <1>1, <2>1, <2>2 DEF TypeOK
  <2>3. CASE u = t
    <3>1. chan[t] = "none"
      BY <1>0, <2>1 DEF ChannelInv
    <3>2. choice[a] = "approved" /\ held[a].call = k
      BY <1>0, <2>1, <2>3, <3>1 DEF TypeOK
    <3>3. requests[row[a]].call = k /\ requests[row[a]].status = "approved" /\ row[a] \in DOMAIN requests
      BY <1>0, <1>5, <3>2 DEF Spawn, AGoto, ReviveInv, RecordInv, Deciding
    <3> QED BY <3>3 DEF HasApproval
  <2> QED BY <2>2, <2>3
<1>6. CASE Restart
  BY <1>0, <1>6 DEF Restart
<1>7. ASSUME call' = call, decision' = decision, chan' = chan, pc'[u] = "exec" => pc[u] = "exec"
      PROVE  HasApproval(k)
  BY <1>1, <1>7
<1>8. ASSUME NEW t \in Loops, LoopStep(t) \/ LockConversation(t) PROVE HasApproval(k)
  <2>1. CASE RegisterRunCancel(t) \/ LockConversation(t) \/ FailRun(t) \/ Succeed(t)
    BY <1>0, <1>7, <2>1 DEF RegisterRunCancel, LockConversation, FailRun, Succeed, memVars,
       Goto, TypeOK
  <2>2. CASE ClaimRun(t) \/ Abort(t) \/ ExecuteTool(t)
    BY <1>0, <1>7, <2>2 DEF ClaimRun, Abort, ExecuteTool, memVars, TypeOK
  <2>3. CASE InsertRequest(t) \/ MarkWaiting(t) \/ SaveWaitState(t)
    BY <1>0, <1>7, <2>3 DEF InsertRequest, MarkWaiting, SaveWaitState, memVars, Goto, TypeOK
  <2>4. CASE GiveUpOnSender(t) \/ DropWaitState(t) \/ UnmarkWaiting(t)
    BY <1>0, <1>7, <2>4 DEF GiveUpOnSender, DropWaitState, UnmarkWaiting, ParkOrFail, memVars,
       Goto, TypeOK
  <2> QED BY <1>2, <1>3, <1>8, <2>1, <2>2, <2>3, <2>4 DEF LoopStep
<1>9. ASSUME NEW a \in Approvers, ReadStatus(a) \/ ApproveStep(a) PROVE HasApproval(k)
  BY <1>4, <1>5, <1>7, <1>9 DEF ApproveStep, ReadStatus, PickRequest, RecordDecision, ClaimChannel,
     ClaimWaitState, Revive, FailUnresumable, loopVars, memVars
<1>10. CASE CancelStatus \/ CancelStep \/ ClientDisconnects \/ OtherRunLocks \/ OtherRunUnlocks \/ UNCHANGED vars
  BY <1>7, <1>10 DEF CancelStep, CancelStatus, CancelGoroutine, CancelPurge, ClientDisconnects,
     OtherRunLocks, OtherRunUnlocks, vars, loopVars, memVars
<1> QED BY <1>6, <1>8, <1>9, <1>10 DEF Next
(* Untouched is monotone and depends on the history alone. *)
LEMMA UntouchedLaws ==
  ASSUME TypeOK, NEW k \in Int, NEW n \in Int
  PROVE  /\ Untouched(k, n) => Untouched(k + 1, n)
         /\ executed' = executed => (Untouched(k, n)' <=> Untouched(k, n))
<1>1. Untouched(k, n) => Untouched(k + 1, n)
  BY CallsAssumption DEF Untouched
<1>2. executed' = executed => Done' = Done
  BY DEF Done
<1>3. executed' = executed => (Untouched(k, n)' <=> Untouched(k, n))
  BY <1>2 DEF Untouched
<1> QED BY <1>1, <1>3

(* Executing a call: it is the first time, and the next call is untouched still. *)
LEMMA FinishedCall ==
  ASSUME TypeInv, TokenInv, NEW t \in Loops, ExecuteTool(t)
  PROVE  /\ call[t] \in 1..Calls /\ executed[call[t]] = 0
         /\ Untouched(call[t] + 1, steps[t])'
         /\ Cardinality(Done)' <= MaxSteps + 1
<1>0. TypeOK /\ pc[t] = "exec" /\ executed' = [executed EXCEPT ![call[t]] = @ + 1]
  BY DEF TypeInv, ExecuteTool
<1>1. call[t] \in 1..Calls /\ steps[t] \in Nat /\ steps[t] <= MaxSteps
  <2>1. LoopRanges /\ call[t] \in 0..Calls /\ steps[t] \in 0..(MaxSteps + 1)
    BY DEF TypeInv, TypeOK
  <2> QED BY <1>0, <2>1, CallsAssumption, StepsAssumption DEF LoopRanges, AtCall
<1>2. Untouched(call[t], steps[t])
  BY <1>0 DEF TokenInv, FrontierInv, AtCall
<1>3. executed[call[t]] = 0 /\ \A j \in 1..Calls : j >= call[t] => executed[j] = 0
  BY <1>1, <1>2 DEF Untouched
<1>4. \A j \in 1..Calls : executed'[j] = IF j = call[t] THEN 1 ELSE executed[j]
  BY <1>0, <1>1, <1>3 DEF TypeOK
<1>5. Done' = Done \cup {call[t]} /\ call[t] \notin Done
  BY <1>1, <1>3, <1>4 DEF Done
<1>6. IsFiniteSet(Done)
  <2>1. IsFiniteSet(1..Calls)
    BY CallsAssumption, FS_Interval
  <2> QED BY <2>1, FS_Subset DEF Done
<1>7. Cardinality(Done') = Cardinality(Done) + 1 /\ Cardinality(Done) \in Nat
  BY <1>5, <1>6, FS_AddElement, FS_CardinalityType
<1>8. Cardinality(Done) <= steps[t]
  BY <1>2 DEF Untouched
<1>9. \A j \in 1..Calls : j >= call[t] + 1 => executed'[j] = 0
  BY <1>1, <1>3, <1>4
<1>10. call'[t] = call[t] /\ steps'[t] = steps[t] + 1
  BY <1>0 DEF ExecuteTool, TypeOK
<1>11. Cardinality(Done') <= steps[t] + 1 /\ Cardinality(Done') <= MaxSteps + 1
  BY <1>1, <1>7, <1>8, StepsAssumption
<1> QED BY <1>1, <1>3, <1>9, <1>10, <1>11 DEF Untouched

InCall == Waiting \cup {"claim"} \cup AtCall

Same(u) == call'[u] = call[u] /\ steps'[u] = steps[u]

Moves(u) ==
  \/ Same(u) /\ pc'[u] = pc[u]
  \/ Same(u) /\ pc[u] \in InCall /\ pc'[u] \in InCall \cup {"think"}
  \/ pc'[u] \in {"fail", "exit", "reply", "idle"}
  \/ pc[u] = "think" /\ pc'[u] = "dispatch" /\ call'[u] = call[u] + 1 /\ steps'[u] = steps[u]
  \/ \E a \in Approvers : apc[a] = "spawn" /\ pc'[u] = "start"
                          /\ call'[u] = held[a].call /\ steps'[u] = held[a].steps

(* How one step can move a goroutine, seen by what it may execute next. *)
LEMMA Positions ==
  ASSUME TypeInv, [Next]_vars, executed' = executed, NEW u \in Loops PROVE Moves(u)
<1>0. TypeOK
  BY DEF TypeInv
<1> USE DEF Moves, Same, InCall, Waiting, AtCall
<1>1. ASSUME NEW t \in Loops, LoopStep(t) \/ LockConversation(t) PROVE Moves(u)
  <2>1. CASE RegisterRunCancel(t) \/ LockConversation(t) \/ ClaimRun(t)
    BY <1>0, <2>1 DEF RegisterRunCancel, LockConversation, ClaimRun, Goto, TypeOK
  <2>2. CASE Abort(t) \/ FailRun(t) \/ Succeed(t) \/ Exit(t)
    BY <1>0, <2>2 DEF Abort, FailRun, Succeed, Exit, Goto, TypeOK
  <2>3. CASE CallModel(t) \/ Dispatch(t) \/ ApplyDecision(t)
    BY <1>0, <2>3 DEF CallModel, Dispatch, ApplyDecision, TypeOK
  <2>4. CASE InsertRequest(t) \/ MarkWaiting(t) \/ SaveWaitState(t) \/ RegisterApprovalWait(t)
    BY <1>0, <2>4 DEF InsertRequest, MarkWaiting, SaveWaitState, RegisterApprovalWait, Goto, TypeOK
  <2>5. CASE ReceiveDecision(t) \/ ExpireWait(t) \/ GiveUpOnSender(t)
    BY <1>0, <2>5 DEF ReceiveDecision, ExpireWait, GiveUpOnSender, ParkOrFail, Goto, TypeOK
  <2>6. CASE DropWaitState(t) \/ UnmarkWaiting(t)
    BY <1>0, <2>6 DEF DropWaitState, UnmarkWaiting, Goto, TypeOK
  <2>7. CASE ExecuteTool(t)
    BY <1>0, <2>7 DEF ExecuteTool, TypeOK
  <2> QED BY <1>1, <2>1, <2>2, <2>3, <2>4, <2>5, <2>6, <2>7 DEF LoopStep
<1>2. ASSUME NEW a \in Approvers, Spawn(a) PROVE Moves(u)
  BY <1>0, <1>2 DEF Spawn, AGoto, Idle, TypeOK
<1>3. ASSUME NEW a \in Approvers, ReadStatus(a) \/ ApproveStep(a) PROVE Spawn(a) \/ UNCHANGED loopVars
  BY <1>3 DEF ApproveStep, ReadStatus, PickRequest, RecordDecision, ClaimChannel, Deliver,
     ClaimWaitState, Revive, FailUnresumable
<1>4. CASE CancelStatus \/ CancelStep \/ ClientDisconnects \/ OtherRunLocks \/ OtherRunUnlocks \/ UNCHANGED vars
  BY <1>4 DEF CancelStep, CancelStatus, CancelGoroutine, CancelPurge, ClientDisconnects,
     OtherRunLocks, OtherRunUnlocks, vars, loopVars
<1>5. CASE Restart
  BY <1>5 DEF Restart
<1> QED BY <1>1, <1>2, <1>3, <1>4, <1>5 DEF Next, loopVars
(* Nobody who may go on is behind a call that was executed. *)
LEMMA FrontierInvStep ==
  ASSUME TypeInv, TokenInv, SerialApprovals, [Next]_vars PROVE FrontierInv'
<1>0. /\ TypeOK /\ FrontierInv /\ MutexInv /\ SuccessorInv /\ SoleInv /\ ConsumedInv /\ ReviveInv
      /\ RequestInv /\ RecordInv
  BY DEF TypeInv, TokenInv, LoopInv, ApproveInv
<1>1. ASSUME NEW t \in Loops, ExecuteTool(t) PROVE FrontierInv'
  <2>1. pc[t] = "exec" /\ \A u \in Loops \ {t} : pc[u] = "idle"
    BY <1>0, <1>1 DEF ExecuteTool, MutexInv, SuccessorInv, Waiting, Stopped
  <2>2. NoOneDecides /\ snapshot = NoSnapshot
    BY <1>0, <2>1 DEF SoleInv, ConsumedInv, Sole, Stopped
  <2>3. /\ \A u \in Loops \ {t} : pc'[u] = "idle"
        /\ pc'[t] \in {"fail", "think"}
        /\ snapshot' = NoSnapshot /\ apc' = apc /\ Pending' = {}
    BY <1>0, <1>1, <2>1, <2>2 DEF ExecuteTool, TypeOK, dbVars, approveVars, NoOneDecides, Pending
  <2>4. Untouched(call[t] + 1, steps[t])'
    BY <1>1, FinishedCall
  <2>5. \A a \in Approvers : apc'[a] \notin {"revive", "spawn"}
    BY <2>2, <2>3 DEF NoOneDecides
  <2> QED BY <2>3, <2>4, <2>5 DEF FrontierInv, Waiting, AtCall
<1>2. ASSUME executed' = executed PROVE FrontierInv'
  <2>1. \A k, n : (\A j \in 1..Calls : j >= k => executed'[j] = 0) /\ Cardinality(Done)' <= n
                 <=> Untouched(k, n)
    BY <1>2 DEF Untouched, Done
  <2>2. TypeOK'
    BY TypeStep DEF TypeInv
  <2>3. ASSUME NEW u \in Loops, pc'[u] \in InCall
        PROVE  Untouched(call'[u], steps'[u])
    <3>1. CASE Same(u) /\ pc[u] \in InCall
      BY <1>0, <3>1 DEF Same, InCall, FrontierInv
    <3>2. CASE pc[u] = "think" /\ call'[u] = call[u] + 1 /\ steps'[u] = steps[u]
      BY <1>0, <3>2 DEF FrontierInv
    <3>3. ASSUME NEW a \in Approvers, apc[a] = "spawn",
                 call'[u] = held[a].call, steps'[u] = held[a].steps
          PROVE  Untouched(call'[u], steps'[u])
      BY <1>0, <3>3 DEF FrontierInv
    <3> QED BY <1>2, <2>3, <3>1, <3>2, <3>3, Positions DEF Moves, InCall, Waiting, AtCall
  <2>4. ASSUME NEW u \in Loops, pc'[u] = "think"
        PROVE  Untouched(call'[u] + 1, steps'[u])
    <3>1. Same(u) /\ pc[u] \in InCall \cup {"think"}
      BY <1>2, <2>4, Positions DEF Moves
    <3>2. CASE pc[u] = "think"
      BY <1>0, <3>1, <3>2 DEF Same, FrontierInv
    <3>3. CASE pc[u] \in InCall
      <4>1. Untouched(call[u], steps[u]) /\ call[u] \in Int /\ steps[u] \in Int
        BY <1>0, <3>3 DEF InCall, FrontierInv, TypeOK
      <4> QED BY <1>0, <3>1, <4>1, UntouchedLaws DEF Same
    <3> QED BY <3>1, <3>2, <3>3
  <2>5. ASSUME snapshot' # NoSnapshot
        PROVE  Untouched(snapshot'.call, snapshot'.steps)
    <3>1. \/ snapshot' \in {snapshot, NoSnapshot}
          \/ \E t \in Loops : SaveWaitState(t)
      BY SnapshotFrame
    <3>2. ASSUME NEW t \in Loops, SaveWaitState(t), snapshot' # snapshot
          PROVE  Untouched(snapshot'.call, snapshot'.steps)
      BY <1>0, <3>2 DEF SaveWaitState, Goto, FrontierInv, AtCall
    <3> QED BY <1>0, <2>5, <3>1, <3>2 DEF FrontierInv
  <2>6. ASSUME NEW a \in Approvers, apc'[a] \in {"revive", "spawn"}
        PROVE  Untouched(held'[a].call, held'[a].steps)
    <3>1. \/ apc[a] \in {"revive", "spawn"} /\ held'[a] = held[a]
          \/ snapshot # NoSnapshot /\ held'[a] = snapshot
      BY <1>0, <2>6, HeldFrame
    <3> QED BY <1>0, <2>6, <3>1 DEF FrontierInv
  <2>7. ASSUME NEW i \in Pending' PROVE executed'[requests'[i].call] = 0
    <3>1. \/ i \in Pending /\ requests'[i].call = requests[i].call
          \/ \E t \in Loops : InsertRequest(t) /\ requests'[i].call = call[t]
      BY <1>0, <2>7, PendingFrame
    <3>2. ASSUME NEW t \in Loops, InsertRequest(t) PROVE executed[call[t]] = 0
      <4>1. Untouched(call[t], steps[t]) /\ call[t] \in 1..Calls
        BY <1>0, <3>2, CallsAssumption DEF InsertRequest, Goto, FrontierInv, AtCall, TypeInv,
           TypeOK, LoopRanges
      <4> QED BY <4>1 DEF Untouched
    <3> QED BY <1>0, <1>2, <3>1, <3>2 DEF FrontierInv
  <2> QED BY <2>1, <2>3, <2>4, <2>5, <2>6, <2>7 DEF FrontierInv, Untouched, InCall
<1>7. executed' = executed \/ \E t \in Loops : ExecuteTool(t)
  BY DEF Next, LoopStep, ApproveStep, CancelStep, RegisterRunCancel, LockConversation, ClaimRun,
     Abort, FailRun, Succeed, Exit, CallModel, Dispatch, ApplyDecision, InsertRequest,
     MarkWaiting, SaveWaitState, RegisterApprovalWait, ReceiveDecision, ExpireWait,
     GiveUpOnSender, DropWaitState, UnmarkWaiting, ReadStatus, PickRequest, RecordDecision,
     ClaimChannel, Deliver, ClaimWaitState, Revive, Spawn, FailUnresumable, CancelStatus,
     CancelGoroutine, CancelPurge, ClientDisconnects, OtherRunLocks, OtherRunUnlocks, Restart,
     vars
<1> QED BY <1>1, <1>2, <1>7

(* The three safety properties themselves. *)
LEMMA OutcomeStep ==
  ASSUME TypeInv, TokenInv, SerialApprovals, [Next]_vars
  PROVE  AtMostOnce' /\ ApprovedFirst' /\ StepBudget'
<1>0. TypeOK /\ AtMostOnce /\ ApprovedFirst /\ StepBudget
  BY DEF TypeInv, TokenInv
<1>1. ASSUME NEW t \in Loops, ExecuteTool(t) PROVE AtMostOnce' /\ ApprovedFirst' /\ StepBudget'
  <2>1. call[t] \in 1..Calls /\ executed[call[t]] = 0 /\ Cardinality(Done)' <= MaxSteps + 1
    BY <1>1, FinishedCall
  <2>2. \A k \in 1..Calls : executed'[k] = IF k = call[t] THEN 1 ELSE executed[k]
    BY <1>0, <1>1, <2>1 DEF ExecuteTool, TypeOK
  <2>3. requests' = requests
    BY <1>1 DEF ExecuteTool, dbVars
  <2>4. call[t] \in Gated => HasApproval(call[t])
    BY <1>1 DEF ExecuteTool, TokenInv, ApprovalInv
  <2>5. AtMostOnce'
    BY <1>0, <2>2 DEF AtMostOnce
  <2>6. ApprovedFirst'
    BY <1>0, <2>2, <2>3, <2>4, CallsAssumption DEF ApprovedFirst, HasApproval
  <2>7. StepBudget'
    BY <2>1 DEF StepBudget, Done
  <2> QED BY <2>5, <2>6, <2>7
<1>2. ASSUME executed' = executed PROVE AtMostOnce' /\ ApprovedFirst' /\ StepBudget'
  <2>1. \A k : HasApproval(k) => HasApproval(k)'
    BY ApprovalsStay
  <2>2. ApprovedFirst'
    BY <1>0, <1>2, <2>1 DEF ApprovedFirst, HasApproval
  <2> QED BY <1>0, <1>2, <2>2 DEF AtMostOnce, StepBudget
<1> QED BY <1>1, <1>2, HistoryFrame

\* The token is in one place at first.
LEMMA TokenInit == ASSUME Init PROVE TokenInv
<1>1. Pending = {} /\ NoOneDecides
  BY DEF Init, Pending, NoOneDecides
<1>2. Done = {} /\ Cardinality(Done) = 0
  <2>1. Done = {}
    BY DEF Init, Done
  <2> QED BY <2>1, FS_EmptySet
<1>3. LoopInv
  BY <1>1 DEF Init, LoopInv, MutexInv, SuccessorInv, SoleInv, ConsumedInv, UndecidedInv,
     Waiting, Sole, Stopped, AtGate
<1>4. ChannelInv /\ RequestInv /\ ApproveInv
  BY <1>1 DEF Init, ChannelInv, RequestInv, ApproveInv, RecordInv, CarryInv, DeliverInv, ReviveInv, Deciding
<1>5. ApprovalInv
  BY DEF Init, ApprovalInv
<1>6. FrontierInv
  BY <1>1, <1>2 DEF Init, FrontierInv, Untouched, AtCall, Waiting
<1>7. AtMostOnce /\ ApprovedFirst /\ StepBudget
  BY <1>2, CallsAssumption, StepsAssumption DEF Init, AtMostOnce, ApprovedFirst, StepBudget, Done
<1> QED BY <1>3, <1>4, <1>5, <1>6, <1>7 DEF TokenInv

\* Every step leaves it in one place.
LEMMA TokenStep ==
  ASSUME TypeInv, TokenInv, SerialApprovals, [Next]_vars PROVE TokenInv'
BY MutexInvStep, SuccessorInvStep, SoleInvStep, ConsumedInvStep, UndecidedInvStep, ChannelInvStep,
   RequestInvStep, RecordInvStep, CarryInvStep, DeliverInvStep, ReviveInvStep,
   ApprovalInvStep, FrontierInvStep, OutcomeStep
DEF TokenInv, LoopInv, ApproveInv

(* The token invariant holds throughout, if approvals are serial. *)
THEOREM TokenInvariant == ASSUME SerialApprovals PROVE Spec => []TokenInv
<1>1. Init => TokenInv
  BY TokenInit
<1>2. TypeInv /\ TokenInv /\ [Next]_vars => TokenInv'
  BY TokenStep
<1> QED BY <1>1, <1>2, TypeInvariant, PTL DEF Spec

(* With serial approvals a call is executed at most once, whatever parks,  *)
(* resumes, cancels and crashes lie around it.                             *)
THEOREM ExecutedAtMostOnce == ASSUME SerialApprovals PROVE Spec => []AtMostOnce
<1>1. TokenInv => AtMostOnce
  BY DEF TokenInv
<1> QED BY <1>1, TokenInvariant, PTL

(* With serial approvals a gated call is executed only once it is approved. *)
THEOREM ExecutedOnceApproved == ASSUME SerialApprovals PROVE Spec => []ApprovedFirst
<1>1. TokenInv => ApprovedFirst
  BY DEF TokenInv
<1> QED BY <1>1, TokenInvariant, PTL

(* With serial approvals max_steps bounds the run across all its goroutines. *)
THEOREM ExecutedWithinBudget == ASSUME SerialApprovals PROVE Spec => []StepBudget
<1>1. TokenInv => StepBudget
  BY DEF TokenInv
<1> QED BY <1>1, TokenInvariant, PTL

-----------------------------------------------------------------------------
(* RunLifecycle implements ToolCallOrder *)

(* A step of the run is a step of the abstract specification or a stutter. *)
LEMMA OrderStep ==
  ASSUME TypeInv, TokenInv, SerialApprovals, [Next]_vars
  PROVE  [Promise!Next]_<<executed, ApprovedCalls>>
<1>0. TypeOK
  BY DEF TypeInv
<1>1. ASSUME NEW t \in Loops, ExecuteTool(t) PROVE Promise!Execute(call[t]) /\ call[t] \in 1..Calls
  <2>1. call[t] \in 1..Calls /\ executed[call[t]] = 0
    BY <1>1, FinishedCall
  <2>2. Untouched(call[t], steps[t])
    BY <1>1 DEF ExecuteTool, TokenInv, FrontierInv, AtCall
  <2>3. \A j \in call[t]..Calls : executed[j] = 0
    BY <2>1, <2>2, CallsAssumption DEF Untouched
  <2>4. call[t] \in Gated => call[t] \in ApprovedCalls
    BY <1>1 DEF ExecuteTool, TokenInv, ApprovalInv, HasApproval, ApprovedCalls
  <2>5. executed' = [executed EXCEPT ![call[t]] = 1]
    BY <1>0, <1>1, <2>1 DEF ExecuteTool, TypeOK
  <2>6. ApprovedCalls' = ApprovedCalls
    BY <1>1 DEF ExecuteTool, dbVars, ApprovedCalls
  <2> QED BY <2>1, <2>3, <2>4, <2>5, <2>6 DEF Promise!Execute
<1>2. ASSUME NEW t \in Loops, InsertRequest(t) PROVE ApprovedCalls' = ApprovedCalls
  <2>1. \A i \in DOMAIN requests : i \in DOMAIN requests' /\ requests'[i] = requests[i]
    BY <1>0, <1>2 DEF InsertRequest, TypeOK
  <2>2. \A i \in DOMAIN requests' \ DOMAIN requests : requests'[i].status = "pending"
    BY <1>0, <1>2 DEF InsertRequest, TypeOK
  <2> QED BY <2>1, <2>2 DEF ApprovedCalls
<1>3. ASSUME NEW a \in Approvers, RecordDecision(a)
      PROVE  ApprovedCalls' = ApprovedCalls \/ \E k \in 1..Calls : Promise!Approve(k)
  <2>1. row[a] \in Pending
    BY <1>3 DEF RecordDecision, AGoto, TokenInv, ApproveInv, RecordInv
  <2>2. /\ DOMAIN requests' = DOMAIN requests /\ requests'[row[a]].status = choice[a]
        /\ \A i \in DOMAIN requests \ {row[a]} : requests'[i] = requests[i]
    BY <1>0, <1>3, <2>1 DEF RecordDecision, TypeOK, Request, Pending
  <2>3. requests'[row[a]].call = requests[row[a]].call
    BY <1>0, <1>3, <2>1 DEF RecordDecision, TypeOK, Request, Pending
  <2>4. requests[row[a]].call \in 1..Calls /\ executed[requests[row[a]].call] = 0
    <3>1. \A i \in Pending : executed[requests[i].call] = 0
      BY DEF TokenInv, FrontierInv
    <3>2. requests[row[a]] \in Request
      BY <1>0, <2>1 DEF TypeOK, Pending
    <3> QED BY <2>1, <3>1, <3>2 DEF Request
  <2>5. executed' = executed
    BY <1>3 DEF RecordDecision
  <2>6. CASE choice[a] = "approved"
    <3>1. ApprovedCalls' = ApprovedCalls \cup {requests[row[a]].call}
      <4>1. requests'[row[a]].status = "approved" /\ requests[row[a]].status = "pending"
        BY <2>1, <2>2, <2>6 DEF Pending
      <4>2. {j \in DOMAIN requests' : requests'[j].status = "approved"}
              = {j \in DOMAIN requests : requests[j].status = "approved"} \cup {row[a]}
        BY <2>1, <2>2, <4>1 DEF Pending
      <4>3. \A i \in DOMAIN requests : requests'[i].call = requests[i].call
        BY <2>2, <2>3
      <4> QED BY <4>2, <4>3, <2>1 DEF ApprovedCalls, Pending
    <3> QED BY <2>4, <2>5, <3>1 DEF Promise!Approve
  <2>7. CASE choice[a] # "approved"
    BY <2>1, <2>2, <2>7 DEF ApprovedCalls, Pending
  <2> QED BY <2>6, <2>7
<1>4. requests' = requests => ApprovedCalls' = ApprovedCalls
  BY DEF ApprovedCalls
<1>5. (\E t \in Loops : InsertRequest(t)) \/ (\E a \in Approvers : RecordDecision(a))
        => executed' = executed
  BY DEF InsertRequest, RecordDecision
<1> QED
  BY <1>1, <1>2, <1>3, <1>4, <1>5, RequestFrame, HistoryFrame DEF Promise!Next

(* With serial approvals the run keeps the promise of ToolCallOrder. *)
THEOREM KeepsOrder == ASSUME SerialApprovals PROVE Spec => KeepsCallOrder
<1>1. Init => Promise!Init
  BY DEF Init, Promise!Init, ApprovedCalls
<1>2. TypeInv /\ TokenInv /\ [Next]_vars => [Promise!Next]_<<executed, ApprovedCalls>>
  BY OrderStep
<1> QED BY <1>1, <1>2, TypeInvariant, TokenInvariant, PTL DEF Spec, KeepsCallOrder, Promise!Spec
-----------------------------------------------------------------------------
(* Somebody answers for a run that is shown as running. *)

(* A goroutine's step: it stays in charge, or the status it leaves is final or approval_wait. *)
LEMMA LiveLoopStep ==
  ASSUME TypeInv, LiveInv, NEW t \in Loops, LoopStep(t) \/ LockConversation(t)
  PROVE  LiveInv'
<1>0. TypeOK
  BY DEF TypeInv
<1> USE DEF Goto, dbVars, memVars, approveVars, cancelVars
<1>1. /\ UNCHANGED <<cancels, cpc>> /\ apc' = apc
      /\ client' = client \/ (client' = NoLoop /\ client = t)
      /\ \A u \in Loops \ {t} : pc'[u] = pc[u]
      /\ \A u \in Loops : ctxDone'[u] => ctxDone[u]
  BY <1>0 DEF LoopStep, LockConversation, RegisterRunCancel, ClaimRun, Abort, FailRun, Succeed,
     Exit, CallModel, Dispatch, ApplyDecision, ExecuteTool, InsertRequest, MarkWaiting,
     SaveWaitState, RegisterApprovalWait, ReceiveDecision, ExpireWait, GiveUpOnSender,
     DropWaitState, UnmarkWaiting, TypeOK
<1>2. client' = t => pc'[t] # "idle"
  <2>1. CASE Exit(t)
    BY <1>0, <2>1, LoopsAssumption DEF Exit, TypeOK
  <2>2. CASE ~Exit(t)
    BY <1>0, <2>2 DEF LoopStep, LockConversation, RegisterRunCancel, ClaimRun, Abort, FailRun,
       Succeed, CallModel, Dispatch, ApplyDecision, ExecuteTool, InsertRequest, MarkWaiting,
       SaveWaitState, RegisterApprovalWait, ReceiveDecision, ExpireWait, GiveUpOnSender,
       DropWaitState, UnmarkWaiting, ParkOrFail, TypeOK
  <2> QED BY <2>1, <2>2
<1>3. ASSUME Undisturbed, pc[t] \in InCharge, status' \in {"pending", "running"}
      PROVE  pc'[t] \in InCharge
  <2>1. ~ctxDone[t]
    BY <1>3 DEF LiveInv
  <2> QED
    BY <1>0, <1>3, <2>1 DEF LoopStep, LockConversation, RegisterRunCancel, ClaimRun, Abort,
       FailRun, Succeed, Exit, CallModel, Dispatch, ApplyDecision, ExecuteTool, InsertRequest,
       MarkWaiting, SaveWaitState, RegisterApprovalWait, ReceiveDecision, ExpireWait,
       GiveUpOnSender, DropWaitState, UnmarkWaiting, TypeOK, InCharge, Waiting
<1>4. ASSUME pc[t] \notin InCharge PROVE status' = status
  BY <1>0, <1>4 DEF LoopStep, LockConversation, RegisterRunCancel, ClaimRun, Abort,
     FailRun, Succeed, Exit, CallModel, Dispatch, ApplyDecision, ExecuteTool, InsertRequest,
     MarkWaiting, SaveWaitState, RegisterApprovalWait, ReceiveDecision, ExpireWait,
     GiveUpOnSender, DropWaitState, UnmarkWaiting, InCharge, Waiting
<1>5. Undisturbed' = Undisturbed
  BY <1>1 DEF Undisturbed
<1>6. (status \in {"pending", "running"} /\ Undisturbed =>
         (\E u \in Loops : pc[u] \in InCharge) \/ \E a \in Approvers : apc[a] = "spawn")'
  <2> SUFFICES ASSUME status' \in {"pending", "running"}, Undisturbed
               PROVE  (\E u \in Loops : pc'[u] \in InCharge) \/ \E a \in Approvers : apc'[a] = "spawn"
    BY <1>5
  <2>1. CASE pc[t] \in InCharge
    BY <1>3, <2>1
  <2>2. CASE pc[t] \notin InCharge
    BY <1>1, <1>4, <2>2 DEF LiveInv
  <2> QED BY <2>1, <2>2
<1>7. (client # NoLoop => pc[client] # "idle")'
  BY <1>0, <1>1, <1>2, LoopsAssumption DEF LiveInv, TypeOK
<1>8. (Undisturbed => \A u \in Loops : ~ctxDone[u])'
  BY <1>1, <1>5 DEF LiveInv
<1>9. (cpc = "stop" => cancels > 0)' /\ (~Streaming => client = NoLoop)'
  BY <1>1 DEF LiveInv
<1> QED BY <1>6, <1>7, <1>8, <1>9 DEF LiveInv

(* Whoever makes the run running again in a handler is about to start its goroutine. *)
LEMMA LiveApproveStep ==
  ASSUME TypeInv, LiveInv, NEW a \in Approvers, ReadStatus(a) \/ ApproveStep(a)
  PROVE  LiveInv'
<1>0. TypeOK
  BY DEF TypeInv
<1> USE DEF AGoto, dbVars, memVars, loopVars, cancelVars
<1>1. UNCHANGED <<cancels, cpc, client, ctxDone>> /\ Undisturbed' = Undisturbed
  BY DEF ReadStatus, ApproveStep, PickRequest, RecordDecision, ClaimChannel, Deliver,
     ClaimWaitState, Revive, Spawn, FailUnresumable, Undisturbed
<1>2. /\ \A u \in Loops : pc'[u] = pc[u] \/ pc'[u] = "start"
      /\ \A b \in Approvers \ {a} : apc'[b] = apc[b]
  BY <1>0 DEF ReadStatus, ApproveStep, PickRequest, RecordDecision, ClaimChannel, Deliver,
     ClaimWaitState, Revive, Spawn, FailUnresumable, TypeOK
<1>3. (status \in {"pending", "running"} /\ Undisturbed =>
         (\E u \in Loops : pc[u] \in InCharge) \/ \E b \in Approvers : apc[b] = "spawn")'
  <2> SUFFICES ASSUME status' \in {"pending", "running"}, Undisturbed
               PROVE  (\E u \in Loops : pc'[u] \in InCharge) \/ \E b \in Approvers : apc'[b] = "spawn"
    BY <1>1
  <2>1. CASE Spawn(a)
    BY <1>0, <2>1 DEF Spawn, Idle, InCharge, Waiting, TypeOK
  <2>2. CASE Revive(a)
    BY <1>0, <2>2 DEF Revive, LiveInv, TypeOK
  <2>3. CASE FailUnresumable(a)
    BY <2>3 DEF FailUnresumable
  <2>4. CASE ReadStatus(a) \/ PickRequest(a) \/ RecordDecision(a) \/ ClaimChannel(a)
             \/ Deliver(a) \/ ClaimWaitState(a)
    <3>1. status' = status /\ pc' = pc /\ apc[a] # "spawn"
      BY <2>4 DEF ReadStatus, PickRequest, RecordDecision, ClaimChannel, Deliver, ClaimWaitState
    <3> QED BY <1>2, <3>1 DEF LiveInv
  <2> QED BY <2>1, <2>2, <2>3, <2>4 DEF ApproveStep
<1>4. (client # NoLoop => pc[client] # "idle")'
  BY <1>0, <1>1, <1>2 DEF LiveInv, TypeOK
<1> QED BY <1>1, <1>3, <1>4 DEF LiveInv

(* Cancels and disconnects disturb; a restart fails what was running. *)
LEMMA LiveStep == ASSUME TypeInv, LiveInv, [Next]_vars PROVE LiveInv'
<1>0. TypeOK
  BY DEF TypeInv
<1> USE DEF dbVars, memVars, loopVars, approveVars, cancelVars
<1>1. CASE CancelStatus
  BY <1>0, <1>1 DEF CancelStatus, LiveInv, Undisturbed, TypeOK
<1>2. CASE CancelStep
  <2>1. UNCHANGED <<pc, client, apc, status, cancels>> /\ cpc' # "stop" /\ Undisturbed' = Undisturbed
    BY <1>2 DEF CancelStep, CancelGoroutine, CancelPurge, Undisturbed
  <2>2. ctxDone' = ctxDone \/ cancels > 0
    BY <1>2 DEF CancelStep, CancelGoroutine, CancelPurge, LiveInv
  <2> QED BY <1>0, <2>1, <2>2 DEF LiveInv, Undisturbed, TypeOK
<1>3. CASE ClientDisconnects
  <2>1. Streaming
    BY <1>3 DEF ClientDisconnects, LiveInv
  <2> QED BY <1>3, <2>1 DEF ClientDisconnects, LiveInv, Undisturbed
<1>4. CASE OtherRunLocks \/ OtherRunUnlocks
  BY <1>4 DEF OtherRunLocks, OtherRunUnlocks, LiveInv, Undisturbed
<1>5. CASE Restart
  <2>1. status' \notin {"pending", "running"} /\ cpc' = "idle" /\ client' = NoLoop
        /\ \A t \in Loops : ctxDone'[t] = FALSE
    BY <1>5 DEF Restart
  <2> QED BY <2>1 DEF LiveInv
<1>6. CASE UNCHANGED vars
  BY <1>6 DEF vars, LiveInv, Undisturbed
<1>7. ASSUME NEW t \in Loops, LoopStep(t) \/ LockConversation(t) PROVE LiveInv'
  BY <1>7, LiveLoopStep
<1>8. ASSUME NEW a \in Approvers, ReadStatus(a) \/ ApproveStep(a) PROVE LiveInv'
  BY <1>8, LiveApproveStep
<1> QED BY <1>1, <1>2, <1>3, <1>4, <1>5, <1>6, <1>7, <1>8 DEF Next

(* Somebody answers for an undisturbed run that is shown as running. *)
THEOREM LiveInvariant == Spec => []LiveInv
<1>1. Init => LiveInv
  BY LoopsAssumption, FlagsAssumption
  DEF Init, LiveInv, InCharge, Waiting, Undisturbed
<1>2. TypeInv /\ LiveInv /\ [Next]_vars => LiveInv'
  BY LiveStep
<1> QED BY <1>1, <1>2, TypeInvariant, PTL DEF Spec

(* A run shown as running, and neither cancelled nor abandoned by its client, has a goroutine or *)
(* is about to get one, however many approvers, parks, resumes and crashes there were.           *)
THEOREM RunningHasLoop == Spec => []RunningIsLive
<1>1. TypeInv /\ LiveInv => RunningIsLive
  <2> SUFFICES ASSUME TypeInv, LiveInv, status \in {"pending", "running"}, ~Interrupted
               PROVE  (\E t \in Loops : pc[t] # "idle") \/ \E a \in Approvers : apc[a] = "spawn"
    BY DEF RunningIsLive
  <2>0. TypeOK
    BY DEF TypeInv
  <2>1. cancels = 0
    BY <2>0 DEF Interrupted, TypeOK
  <2>2. CASE Streaming
    BY <2>0, <2>2 DEF Interrupted, LiveInv, TypeOK
  <2>3. CASE ~Streaming
    BY <2>1, <2>3 DEF LiveInv, Undisturbed, InCharge, Waiting
  <2> QED BY <2>2, <2>3
<1> QED BY <1>1, TypeInvariant, LiveInvariant, PTL
=============================================================================
