# Agent Nexus: a verification project

TLA+ models of the Agent Nexus services, the TLC configurations that check
them on small instances, and TLAPS proofs of what matters most for every
instance. Paths below are relative to the repository root; `handler/` stands for
`services/api/internal/api/handler/`.

Contents: [the system](#the-system), [what is modelled](#what-is-modelled),
[the runs](#the-runs), [bounds](#bounds), [fairness](#fairness),
[the proofs](#the-proofs), [limits](#what-is-only-checked-and-what-is-left-out),
[known behaviours](#known-behaviours-that-no-run-states), [plan](#plan).

    tlc -workers 2 -config RunSafety.cfg MCRunLifecycle
    tlapm RunLifecycleProofs.tla

## The system

The API service (Go, `services/api`) executes AI agents. A second Go service, the
runner (`services/runner`), hosts long coding sessions. PostgreSQL is the only
durable store. The web frontend, a WhatsApp adapter and other chat channels are clients.

| Component | State | Operations | Hard part |
|---|---|---|---|
| **Run lifecycle and approval gate** (`handler/invoke.go` executeRun, `approval.go`, `wait_state.go`, `resume.go`, `runs.go`) | `runs.status`, `approval_requests`, `run_wait_states`; in memory `approvalRegistry`, `runCancels`, `conversationLocks` | start, model call, tool call, gate, park, approve, resume, cancel | a goroutine, an approver and a canceller act on one row with single unrelated statements; any of them may die in between |
| **Boot recovery** (`cmd/server/main.go`) | the same rows | sweep at boot | must tell a resumable run from an orphan by its row alone |
| **Session wait** (`handler/session_wait.go`, `tools/native/launch_session.go`) | `sessionRegistry`, the same snapshot table | launch, wait, park, callback, watchdog | callbacks are early, late, duplicated or lost |
| **Runner** (`services/runner/main.go`) | session map, journal files, a git clone per session | launch, subscribe, cancel, callback with retries, journal recovery, salvage and push | crash between effect and journal; one session, many subscribers; work that must survive a killed session |
| **Workflow executor** (`handler/invoke.go` executeGroupRun, `workflow_nodes.go`) | node outputs, loop counters, `workflow_checkpoints` | branch, join, loop, sub-run, checkpoint, recover | parallel branches write one checkpoint |
| **Gateway** (`handler/gateway.go`, `repository/gateway.go`, `tools/native/whatsapp.go`) | events, outbound messages, channel sessions, contacts, pairing requests, escalations, reminders, scheduled messages | receive, dispatch, poll and reply, ask, remind, decide, send | at-least-once input; poller deadline races a late answer; pages, owners and agents write the same rows |
| **Connector sync** (`handler/connectors.go`, `internal/connector`) | sync jobs, checkpoints, documents, chunks, `syncCancels` | sync, cancel, complete, fail, recover at boot | cancel races completion; a document is stored in several statements |
| **Evaluations** (`handler/evals.go`) | eval runs, results, counters under a lock | trigger, run, grade, count, analyse | a worker pool against saves, deletes and a page that analyses |
| **Run-scoped resources** (`tools/native`, `handler/invoke.go`) | `ephemeral`, `source_run_id` of agents, skills, tools, workflows | create, promote, delete, clean up a tree | sub-runs outlive or precede the clean-up |
| **Agent builder and chat** (`handler/nexus_ai.go`, `agents.go`, `groups.go`) | the collections of one agent, the graph of one workflow | replace, attach, detach, chat | replacements are DELETE and INSERT under READ COMMITTED |
| **MCP client and OAuth** (`handler/mcp_oauth.go`, `mcp.go`, `mcp_executor.go`) | tokens, one mutex per server, mirrored tools | load, refresh, save, sync | a rotated token is lost or presented twice |
| **Webhooks; tools, memory, retrieval, catalog, providers; log hub, rate limiter, migrations, CRUD, web** | content, or small | one call or critical section each | no protocol of their own |

They interact through the database rows above, through in-process channels
(the approver finds the goroutine by run id in `approvalRegistry`, the session
callback in `sessionRegistry`, a user's answer in `userInputRegistry`), and over HTTP
(API to runner: launch and cancel; runner to API: callback; API to adapter and back).
The gateway, webhooks, workflows and evaluations all start runs and end up in `executeRun`.

What makes each component correct:

* *Run*: no tool call is executed twice, before its approval, out of order, or
  beyond `max_steps`; a cancelled run stays cancelled; a decision always has an
  effect; a run shown as active is either executed or can be moved on.
* *Session wait and runner*: one result per session reaches exactly the call that
  launched it; a lost callback is eventually noticed; a duplicate has no effect; a
  branch that a session reports has its work on the remote.
* *Workflow*: a join sees every branch; a recovered workflow continues from a
  state it was in; loops and step limits stay bounded.
* *Gateway*: an inbound message is used once, an echo never; a chat's runs take
  turns; what is scheduled is sent as scheduled; what an owner decides stands; who
  is blocked gets no message.
* *Connector sync*: a document taken for unchanged has its chunks; a job has one
  terminal status; a completed sync forgets older checkpoints.
* *Evaluations*: the counters and the analysis account for the results, every
  evaluation ends, the last save is the one evaluated.
* *Resources*: what a tree of runs has made for itself goes at its end, not before.
* *Builder*: what an agent has is what the last replacement asked for.
* *MCP*: a replaced refresh token is not presented again; the approval gate reads the
  risk level that the user chose.

`PROJECT.json` lists the hazards, each at its line, with the properties that cover it.

## What is modelled

| Module | What it is |
|---|---|
| `RunLifecycle` | one run, with everybody who acts on it: the detailed model and its properties |
| `ToolCallOrder` | the abstract specification of a run: calls in order, at most once, gated ones after approval |
| `RunLifecycleInv`, `RunLifecycleProofs` | the inductive invariants of a run, and the proofs |
| `RunnerSessions` | the runner's sessions, subscribers, callbacks and journal |
| `SessionWait`, `SessionWaitProofs` | EXTENDS `RunnerSessions` with the runs of the API service that wait for them; proofs about both |
| `SessionWork` | what a session does with git |
| `WorkflowGraph`, `WorkflowRun`, `WorkflowRunProofs` | the graph of a workflow; one workflow run: walks, branches, checkpoints, recovery; proofs |
| `ConnectorSync`, `ConnectorSyncProofs` | the syncs of one connector; proofs |
| `GatewayInbox`, `GatewaySchedule`, `GatewayContacts`, `GatewayProofs` | inbound messages; reminders and scheduled messages; contacts, pairings, escalations, switches and sends; proofs about the three and their composition |
| `Evals`, `EvalsProofs` | evaluations; proofs |
| `Resources`, `AgentBuilder` | what runs build and clean up; the editing of one agent and workflow |
| `ServicesProofs` | proofs about `SessionWork`, `AgentBuilder` and `Resources`, and about `MCServices`, their composition with `Evals` and `McpServers` |
| `McpServers`, `McpServersProofs` | one MCP server with its tokens and mirrored tools; proofs |
| `MC...` | what TLC instantiates: the sets and loads of each instance |

`MCGateway` and `MCServices` put components side by side that share no table and no
memory. A variable `part`, fixed in the initial state, says which one moves; the others
stay at one of their first states. Their behaviours are the union of those of the
parts, not an interleaving of them, which would only multiply the states.

Every database statement (or transaction), registry operation, channel operation and
HTTP request that another actor can come before or after is an action of its own, in
the order of the code. What is merged is named in the module's comments.

### State of a run

`status`, `snapshot` and `requests` are the database rows. `registry`, `mutex`,
`cancelFn` are the three `sync.Map` entries of the run and `chan` the buffered
channels; a crash loses them. `client` is the open SSE request whose context the
first goroutine uses. `pc`, `call`, `steps`, `decision`, `ctxDone` are the locals
of each `executeRun` goroutine; `apc`, `choice`, `row`, `target`, `held` those of
each Approve handler; `cpc` that of Cancel. `executed` is history.

The snapshot keeps `CallIndex` and `StepCount`; its other fields are content.
`NoSnapshot` (call 0) is the missing row.

### Actions of a run

Each database statement, registry operation and channel operation is one action,
since others may act between any two of them. The order is the code's.

| Code | Actions |
|---|---|
| `executeRun` entry and exit | `RegisterRunCancel`, `LockConversation`, `ClaimRun`, `Abort`, `FailRun`, `Succeed`, `Exit` |
| tool-calling loop | `CallModel`, `Dispatch`, `ApplyDecision`, `ExecuteTool` |
| approval gate | `InsertRequest`, `MarkWaiting`, `SaveWaitState`, `RegisterApprovalWait`, `ReceiveDecision`, `ExpireWait`, `GiveUpOnSender`, `DropWaitState`, `UnmarkWaiting` |
| `Approve` and `ResumeApprovedRun` | `ReadStatus`, `PickRequest`, `RecordDecision`, `ClaimChannel`, `Deliver`, `ClaimWaitState`, `Revive`, `Spawn`, `FailUnresumable` |
| `Cancel` | `CancelStatus`, `CancelGoroutine`, `CancelPurge` |
| environment | `ClientDisconnects`, `OtherRunLocks`, `OtherRunUnlocks`, `Restart` (crash and boot sweep) |

A statement that uses the goroutine's `ctx` has no effect once `ctxDone`; one that
uses `dbCtx` always has. The status writes of `MarkWaiting`, `UnmarkWaiting` and
`FailUnresumable` carry no guard, the others refuse to overwrite `cancelled`: both as
in the code. The model's batches are flattened: call `k` is the `k`-th tool call
that the run is asked for, in whichever batch it came.

The definitions under "Faulty variants" are plausible bugs. No behaviour of
`Spec` uses them; each property is known to fail when one of them takes the place
of the action it varies.

### Connector sync

`rows`, `conn`, `synced`, `doc` and `chunks` are the database: the sync jobs with
their checkpoints, `connectors.status`, `last_synced_at`, and per file the stored hash and
the stored chunks. `cancelFn` is the connector's entry in `syncCancels`. `pc`, `pos`,
`from`, `since`, `text`, `owned`, `ctxDone` are the locals of each sync goroutine
(`owned`: the document id it writes chunks under is the id of the row). `src` is
the directory. The content of a file is the time of its last edit, which stands for
its hash and its modification time alike.

| Code | Actions |
|---|---|
| `Sync`, `runSync` (`handler/connectors.go`) | `SyncRequest`, `CreateSyncJob`, `RunSync`, `ExitSync` |
| `Pipeline.Sync`, `LoadLastCheckpoint` | `LoadConnector`, `LoadLastCheckpoint` |
| the filesystem provider's walk | `SkipResumed`, `VisitFile`, `NoteProgress`, `EndWalk` |
| `emit` (`connector/pipeline.go`) | `LookupDocument`, `UpsertDocument`, `DeleteChunks`, `InsertChunks` |
| `Reporter.Complete`, `Reporter.Fail` | `CompleteJob`, `CompleteConnector`, `FailJob`, `FailConnector` |
| `CancelSync` | `CancelSignal`, `CancelDelete`, `CancelJobs`, `CancelConnector` |
| `RecoverInterruptedSyncs`, `launchSync` | `RecoverJobs`, `RecoverConnector`, `LaunchSync`, `AnnounceSync` |
| environment | `Edit`, `Restart` (crash) |

### Session wait and runner

`status`, `snapshot`, `saved` are rows; `registry`, `chan` memory of the API; `sessions`,
`current` memory of the runner and `journal` its files. `asked`, `answers`, `told`, `unsure`
are history.

| Code | Actions |
|---|---|
| the session wait in `executeRun`, `launch_session.go` | `Launch`, `LaunchFails`, `SaveKey`, `RegisterSessionWait`, `SaveWaitState`, `MarkWait`, `Park`, `GiveUp`, `DropWaitState`, `UnmarkWait`, `Finish` |
| `SessionCallback`, `ResumeSessionRun` | `SendSessionResult`, `ClaimWaitState`, `ResumeByCallback`, `IgnoreCallback`, `Revive`, `Resume` |
| `sweepStaleSessionWaits` | `SweepStale` |
| `Cancel` | `CancelStatus`, `CancelRun`, `CancelRunnerSession`, `CancelPurge` |
| runner: launch, finish, callback | `HandleLaunch` (`JoinSession`, `StartSession`), `HandleCancel`, `FinishSession`, `CleanSession`, `MissCallback` |
| runner: crash and `recoverJournals` | `CrashRunner`, `ReadJournal`, `RemoveJournal` |
| environment | `Disconnect`, `Restart` |

A callback's arrival and its claim or send are one step, as is a wake-up with the next
statement. The content of a result is the number of its session. The watchdog and a
child's timeout come after the runner's own cap (240 minutes against 120 and its retries).

`SessionWork` follows one clone from `CloneBase` to `Report`; `remote` is the ticket's
branch. Claude is external and may commit, push by hand, leave the branch, or be killed
by a timeout or a cancel; any git command may fail, and the runner may crash anywhere.

### Workflow

`checkpoint`, `status`, `sub` are rows; `walk` is what the branches of one walk share and
`branch` their goroutines (queue, position, stop nodes). An output is there or not; a
condition's outcome is free. One action per kind of node (`StartNode`, `Fork`, `JoinNode`,
`RunAgent`, `Supervise`, `CallWebhook`, `SendMessage`, `FollowRoute`, `Loop`, `DeliverEnd`), `Reuse` for what the
checkpoint holds, `WriteCheckpoint` after each, `FinishWalk` and `DeleteCheckpoint` at
the end, and `Restart`, `ListInterrupted`, `RecoverRun` for a crash and the boot's recovery.

### Gateway

* `GatewayInbox`: `Receive`, `Claim`, `DropEcho`, `OwnerCommand`, `AutoApprove`, `Admit`, `Refuse`, `AnswerRun`,
  `EnsureConversation`, `Dispatch` are `handleInbound`; `StartRun`, `ParkRun`, `AskUser`, `TakeAnswer`,
  `AskTimesOut`, `EndRun` the run; `PollSuccess`, `PollFailure`, `PollTimeout`, `PostReply` the poller.
  The adapter posts an event up to twice and its echo filter may fail.
* `GatewaySchedule`: `Fetch`, `Take`, `Send`, `Reschedule`, `Complete` are a dispatcher's round, from the
  copies it fetched; `EditReminder`, `EditMessage`, `CancelRow`, `SwitchChannel`, `Crash` come between.
* `GatewayContacts`: tasks (page requests, owner commands, tool calls) that decide pairings,
  edit, add, remove, import and toggle contacts, change switches, push them to the adapter,
  escalate and resolve, and send. `RequestPairing`, `Decide`, `AddPaired`, `FindPaired`, `FlipPaired` are the
  statements of a pairing decision; `BeginSend`, `ResolveContact`, `ResolveAddress`, `RecordSend`,
  `PostSend` those of a send.

### Evaluations, resources, builder, MCP servers

* `Evals`: `TriggerRun`, `SaveAgent` with `TriggerAutoRunsForAgent`, `MarkRunning`, `LoadAgent`, the worker's
  `StartCase` to `CreateResult`, `CompleteRun`, the two analyses (`DoAnalysis`, `AnalyzeRun`), and edits of
  suites and cases in between.
* `Resources`: what each native tool inserts, promotes or deletes; `CallAgent`, `RunWorkflow`, `StartNode`
  grow the tree; `EndLoop`, `StopPolling`, `Park`, `CancelParked` end parts of it; `Clean` is one
  statement of the clean-up.
* `AgentBuilder`: a request is a list of parts; `Delete`, `InsertItem`, `Commit` are the statements of a
  replacing transaction, `ReadRow`, `WriteRow` the two halves of a read-modify-write, and
  `Complete`, `ExecuteTool`, `AppendResult`, `NextRound` the chat's tool loop.
* `McpServers`: `OAuthStart` to `SaveTokens` the browser flow; `Lock`, `LoadMCPOAuthDoc`, `RefreshToken`,
  `SaveRefreshed`, `Unlock` a call's token; `ListTools`, `SyncServerTools` a sync;
  `UpdateToolRisk`, `MirrorRisk` and `DeleteMirrors`, `DeleteServer` the two-statement requests.

## The runs

| Configuration | Question | Result |
|---|---|---|
| `RunSafety` | Do parks, resumes, two crashes, two cancels, a disconnect, failed snapshots and stalled sends ever break the calls' order, approval, uniqueness or budget? | holds (142,150 states) |
| `RunLiveness` | Does every goroutine end and every recorded decision move the run on, and is a running run executed by somebody? | holds (19,750 states) |
| `SyncIndex` | Is every stale or damaged document accounted for by an edit, a cancel or a crash, does every job end, does the connector leave `syncing`? | holds (385,698 states) |
| `SessionAnswers` | Is a waiting run answered once, with its own session's result, and does every wait end, with a fault of either process or of the network? | holds |
| `WorkflowWalks` | Do joins wait, is a success complete, does a resumed walk reuse its checkpoint, does every run end, over four graphs? | holds (263,144 states) |
| `Gateway` | Are messages used once, echoes harmless, a chat's runs in turn, sends as scheduled, decisions effective, the blocked left alone? | holds (171,743 states) |
| `Services` | Evaluations that add up and end, trees that clean up, replacements that replace, tokens not raced, risk levels kept, work pushed? | holds (604,512 states) |
| `RunCancelTerminal` | "Cancel is terminal: never resurrect a cancelled run with a later status write." (`handler/runs.go:142`) | **violated** |
| `RunDoubleApprove` | "two callers can't resume the same run twice" (`handler/resume.go:13`) | **violated** |
| `SessionDuplicate` | "Agent Nexus treats duplicate deliveries as no-ops" (`services/runner/main.go:679`) | **violated** |
| `WorkflowRerun` | "a crashed run can be resumed without re-executing finished agent/supervisor nodes" (`handler/invoke.go:1505`) | **violated** |
| `ResourcesKept` | "auto-delete when this run ends unless ephemeral=false is explicitly provided" (`tools/native/code_tool.go:57`) | **violated** |

The five violations are behaviours of the code:

* *Cancel is not terminal.* The run is cancelled just before the goroutine executes
  `UPDATE runs SET status='approval_wait'`, whose statement context was not yet
  cancelled. The cancelled run shows as waiting. The same two unguarded writes stand in
  the session and user-input waits.
* *Two approvers, two executions.* Both read the same pending row. The first claims the
  channel. The second finds no channel and claims the snapshot, which the goroutine
  has not deleted yet. Goroutine and resumed goroutine both execute the call.
* *A duplicate callback resumes a run.* The first callback's 200 is lost; the goroutine has
  received the result and not yet deleted the snapshot. The runner's retry finds no
  channel, claims the snapshot, and starts the run a second time.
* *A second restart repeats finished nodes.* A checkpoint holds the outputs of this walk only.
  A resumed walk writes its first checkpoint without those of the old one that it has
  not reached yet; after another restart they are executed again.
* *A permanent tool goes with the run.* Asked for a tool whose name is taken,
  `native_create_code_tool` attaches the existing one and answers with the flag it was
  asked for, while the row keeps its own.

## Bounds

`RunSafety` and `RunLiveness`:

* `Loops`: goroutines that exist at the same time. Three in `RunSafety`: the one
  that parks, the one that replaces it, and one to spare. The proof shows that a second
  and a third waiting goroutine cannot occur with serial approvals. Identities are reused
  after `Exit`, so their number does not bound the number of resumes.
* `Approvers`: one in the safety run, because with two the properties do not hold
  (`RunDoubleApprove`). An approver is reused any number of times.
* `Calls` and `Gated`: three calls, the first two gated. Two gated calls let a run park
  twice and let a decision reach the wrong one; the ungated third tests the budget.
* `MaxSteps = 1`: the smallest value for which a forgotten step count is visible
  before the last call.
* `MaxCancels`, `MaxRestarts`: two each, so that one can follow the
  recovery from another. `Restart` and `CancelStatus` are guarded by them.
* The flags `SaveMayFail` and `SendMayStall` add the error paths; `RunSafety` sets both.

`RunLiveness` uses a smaller instance (two calls, one cancel) because temporal checking
costs more. Two of its settings are assumptions and not just bounds:

* `MaxRestarts = 0`. The process may die after a decision was recorded and before it was
  handed on. The sweep keeps the run, since it has a snapshot, and a second Approve finds
  no pending request: `DecisionTakesEffect` is then false, although waiting runs are said to
  "resume on the approval decision" after a restart (`cmd/server/main.go:78`).
* `SendMayStall = FALSE`. A sender that has claimed the channel and is not scheduled
  for more than five seconds loses the decision it recorded. The code accepts this
  (`handler/approval.go:120`), and so the liveness run excludes it.

`RunningIsLive` is stated for runs that were neither cancelled nor left by their
client. After a disconnect just before the gate the two status writes do nothing,
and the goroutine parks while the run shows as `running`. This is a gap of the code
that the property's comment records.

`SyncIndex`:

* three files and three jobs: a first, a middle and a last file; a job that
  is interrupted, one that resumes it, and one after that. `CheckpointEvery = 1` (20 in
  the code) puts a checkpoint behind every file, which three files need to have any.
* one edit, one cancel, one crash. Each of the bounds `DamageIsBounded` and
  `IndexIsAccountedFor` is reached: with one less both are violated.
* `Overlap = FALSE` is an assumption: a sync is requested only when none is
  running and no cancel or recovery is under way. The handler does not enforce it
  (the web client hides its button while the connector shows as syncing).
* `SyncsSettle` exempts crashes: the recovery returns early when no job was running
  (`handler/connectors.go:273`), so that a crash between the write to the job and the write
  to the connector leaves the connector in `syncing`.

`SessionAnswers`, `SessionDuplicate`: two runs that want one session key, the second a child
run; two sessions, so that the second run can join the first's or follow it; one fault of
either process or of a request, whose answer may be lost (`Ambiguous`). `MaxTries` is the runner's number
of attempts: one is enough to lose a callback for good, two to post it twice. A run
whose answer got lost or came twice is in `unsure`, and excused from what `SessionDuplicate`
refutes.

`WorkflowWalks`: four graphs. A parallel section with a webhook, and a supervisor; a loop with a
condition; a condition that leads back; a condition whose ways meet again. The first and the last are
`Structured`, so that `SuccessIsComplete` and `ResumedNotRerun` speak of them; the `Shapes` assumption of
`MCWorkflowRun` has TLC confirm this and what they require. Eleven steps (100 in the code) let the longest of them be
exceeded; two faults allow a second restart. `Overlap = FALSE` excludes a run that is
started between a boot and its recovery. `WorkflowRerun` has the first graph alone and more steps.

`Gateway`: a load lets two or three requests overlap (a command and others' messages, two of
one chat, one posted twice). One question, one fault, three ticks, one edit, one failure: each is
enough for the races above, and a second of each only repeats them. `SearchCap = 1` (10 in the
code) lets one blocked contact fill the page that `blockedRecipient` looks at, and two overflow it.
`MaxInterval` is the longest interval of a series; the clock stops before the last slots, so that a
next one always exists, as it does in the code, whose calendar has no end.

`Services`: three cases with two workers, so that one case waits; two evaluations and two
saves; a tree of runs four deep with two moves (three in `ResourcesKept`); two requests on an agent
with two names; three jobs on one MCP server with four grants; two coding sessions of one
ticket and a review, with one change and one git fault.

`CHECK_DEADLOCK FALSE` stands in the configurations whose budgets (jobs, messages, sessions,
faults) run out: when the goroutines have ended nothing is left to do. The runs of
`RunLifecycle` check deadlock.

## Fairness

`FairSpec` of `RunLifecycle` adds, and nothing more:

* weak fairness of each goroutine's next step and of each handler's next step:
  the Go scheduler runs them, database statements return, timers fire. It is one
  condition per goroutine, not one per action, so no branch is favoured: a
  model that always answers, or never does, are both allowed;
* strong fairness of `LockConversation`: `sync.Mutex` hands the lock to a waiter that
  has been starved for one millisecond, so it cannot lose for ever to other runs;
* weak fairness of `OtherRunUnlocks`: other runs of the conversation end
  (this is `LoopsFinish` for those runs).

Nobody is obliged to approve, cancel, disconnect or crash.

`ConnectorSync` has weak fairness of each job's next step, of each request's and of the
recovery's, for the same reason. `SessionWait` and `WorkflowRun` have weak fairness of their
`Work`, all steps of goroutines and handlers together, without cancels, disconnects and
restarts: each of these steps uses something up, so that none can keep the others from
their turn for ever. `MCGateway` has weak fairness of the requests, of the runs, of the pollers
(each with its deadline) and of each dispatcher; `MCServices` of the goroutines and workers of
evaluations. In each the model's and the agent's runs are taken to end, which is what `LoopsFinish`
states of a run. Users, Claude, the adapter and the authorisation server owe nothing.

## The proofs

Each theorem is about a component's own specification, for any value of its constants that
its named ASSUMEs allow: any number of goroutines, files, sessions, messages, contacts, jobs,
cancels and crashes. The components' next-state relations are the ones that TLC
checks. Every inductive invariant was checked with TLC before it was proved.

| Module | Theorem | Statement | Further assumption |
|---|---|---|---|
| `RunLifecycleProofs` | `TypeInvariant`, `TypeCorrect` | `[]TypeInv`, `[]TypeOK` | |
| | `LiveInvariant`, `RunningHasLoop` | `[]LiveInv`, `[]RunningIsLive` | |
| | `TokenInvariant` | `[]TokenInv` | `SerialApprovals` |
| | `ExecutedAtMostOnce`, `ExecutedOnceApproved`, `ExecutedWithinBudget` | `[]AtMostOnce`, `[]ApprovedFirst`, `[]StepBudget` | `SerialApprovals` |
| | `KeepsOrder` | `KeepsCallOrder` (refinement of `ToolCallOrder`) | `SerialApprovals` |
| `SessionWaitProofs` | `WaitInvariant`, `WaitTypeCorrect` | `[]WaitInv`, `[]TypeOK` | |
| | `CallsAnsweredOnce`, `ResultsBelong`, `WaitsAnswerable` | `[]AnsweredOnce`, `[]ResultBelongs`, `[]WaitIsAnswerable` | |
| `WorkflowRunProofs` | `WorkflowInvariant`, `WorkflowTypeCorrect` | `[](ShapeInv /\ WalksInv /\ TreeInv)`, `[]TypeOK` | |
| | `JoinsWait` | `[]JoinWaits` | |
| | `WalksOnce`, `ResumedOnce` | `[](FreshInv /\ OnceInv /\ ResumeInv)`, `[]ResumedNotRerun` | |
| | `SuccessComplete` | `[]SuccessIsComplete` | `Overlap = FALSE` |
| `ConnectorSyncProofs` | `SyncInvariant`, `SyncTypeCorrect` | `[]SyncInv`, `[]TypeOK` | `Overlap = FALSE` |
| | `DamageBounded`, `IndexAccountedFor` | `[]DamageIsBounded`, `[]IndexIsAccountedFor` | `Overlap = FALSE` |
| `ServicesProofs` | `WorkInvariant`, `WorkIsPushed` | `[]WorkInv`, `[]WorkReachesRemote` | |
| | `BuilderInvariant`, `BuilderTypeCorrect` | `[]BuilderInv`, `[]BuilderTypeOK` | |
| | `CollectionsAccounted` | `[]HeldIsAccounted` | |
| | `ResourcesInvariant`, `ResourcesTypeCorrect` | `[]ResourcesInv`, `[]ResourcesTypeOK` | |
| | `CleanedWithTheirTree` | `[]CleanedWithTheTree` | |
| | `PartsBehave`, `ServicesTypeCorrect` | each part's specification; `[]TypeOK` of `MCServices` | |
| `EvalsProofs` | `EvalsInvariant`, `EvalsTypeCorrect` | `[]EvalsInv`, `[]EvalsTypeOK` | |
| | `ResultsAccounted`, `LatestEvaluated` | `[]ResultsAddUp`, `[]LatestIsEvaluated` | |
| `McpServersProofs` | `McpInvariant`, `McpTypeCorrect` | `[]McpInv`, `[]McpTypeOK` | |
| | `GrantNotRaced`, `MirrorsFollow` | `[]GrantIsNotRaced`, `[]MirrorsAgree` | |
| `GatewayProofs` | `InboxInvariant`, `InboxTypeCorrect` | `[]InboxInv`, `[]InboxTypeOK` | |
| | `MessageUsedOnce`, `EchoIsHarmless`, `ChatTakesTurns` | `[]OneUsePerMessage`, `[]EchoStartsNothing`, `[]RunsTakeTurns` | |
| | `ContactsInvariant`, `ContactsTypeCorrect` | `[]ContactsInv`, `[]ContactsTypeOK` | |
| | `DecisionsHold`, `BlockedStayOut` | `[]DecisionsStand`, `[]BlockedNotMessaged` | |
| | `ScheduleInvariant`, `ScheduleTypeCorrect` | `[]ScheduleInv`, `[]ScheduleTypeOK` | |
| | `SentAsScheduled` | `[]SendsAsScheduled` | |
| | `GatewayPartsBehave`, `GatewayTypeCorrect` | each part's specification; `[]TypeOK` of `MCGateway` | |

The proof of each invariant has one lemma per conjunct or per actor, with one case per
action, and frame lemmas for the actions that leave a part alone.

### A run

`SerialApprovals` says that at most one Approve request is handled at a time
(`\A a, b \in Approvers : a = b`). Without it the theorems are false: that is what
`RunDoubleApprove` shows. It is the weakest repair to ask of the code: a
`status='pending'` guard on the update of the request, together with a check of the
rows affected, would establish it.

**TypeInv.** `TypeOK` alone is not inductive: `ExecuteTool` needs a call number of at
least 1 and a step count within the budget, both of which may come out of the snapshot
and the handler that claimed it. `TypeInv` adds those ranges.

**TokenInv.** `AtMostOnce` says nothing about who may execute next, so it is far from
inductive. The right to go on with the run is treated as a token:

* it is with the goroutine at work (`SoleInv`: no decision is then outstanding;
  `ConsumedInv`: no snapshot then exists);
* or it lies in the snapshot, of which a goroutine at the gate is the second holder,
  until the decision on the one pending request (`RequestInv`) goes either to that
  goroutine through its channel (`ChannelInv`, `DeliverInv`) or to the handler
  that claims the snapshot (`ReviveInv`);
* or it is on its way to a new goroutine, queued behind the one it replaces
  (`SuccessorInv`, `MutexInv`).

`FrontierInv` then says that whoever holds the token stands behind everything that was
executed: nothing from its call number on has been executed, and its step count
covers what was. `ApprovalInv` says that an approval that travels is on record.
The three safety properties follow, and `KeepsOrder` maps every step to a step of
`ToolCallOrder` or a stutter, with `approved` read off the request rows.

**LiveInv.** `RunningIsLive` needs no assumption on approvers. A run that shows as pending or running, and that
no cancel and no client has interrupted, is in somebody's charge: a goroutine at a place from which it writes
the status again (`InCharge`), or a handler that has claimed the snapshot and is about to start
one. Nothing says that only one of them is, which is why serial approvals are not asked for: a second approver may put a second
goroutine in charge, but nobody leaves the run without.

### A session wait

**WaitInv** has three parts. `Placed` and `Answerable` say who is where when the row says `session_wait`, and give
`WaitIsAnswerable`. `OneAnswer` says that at most one of these will answer the current call: the goroutine in
its wait together with the snapshot it has left, a callback or watchdog that has claimed the snapshot, or a resume that is on
its way to a goroutine. `Told` says that what the runner still owes a run belongs to the session that the run asked for last, or is a result
that it was told before. With `Answered`, the calls so far, that gives `AnsweredOnce` and `ResultBelongs`
for the runs that are not in `unsure`.

### A workflow run

The branches of a walk are numbered by their ancestry: a branch `b` forks `Append(b, i)`. **ShapeInv** and **TreeInv** say that
whatever is above a branch is there and waits at `fork`, and that a branch below `b` stays in the section that `b`
has forked, whose joins it stops at. The section is the least set that is closed under the
edges, which is the form that lets a step along an edge be proved to stay inside. `JoinWaits` follows: whoever
works on a join of a section would stand below, beside or above the branch that stops at it, and each is excluded.

**WalksOnce** is about `Structured` graphs: every section is entered by its parallel node, ways meet again behind a
condition or at a join, nothing leads back. Then a walk queues every node once: a node is queued by one of its
sources, which is spent by that; of two sources one is dominated by a branch of a condition that the other
excludes, or both are in one section and the join is queued by the section's root alone. It needs the
distinctness of what is queued at any moment in all branches, which each of the five moves of a branch (`Uses` and
`GrowsBy`: it ends, hands off, takes a node, queues successors, forks) is shown to keep. `ResumedOnce` follows with
`ResumeInv`: what a resumed walk found in its checkpoint is still `cached` until the walk comes to it.

`SuccessComplete` adds what a walk has behind it and before it. Behind: an agent that a walk has come to, and that is no longer
being worked on, has an output, here or in the checkpoint, and outputs come from sub-runs that succeeded (`HeldInv`, `AchievedInv`), or
somebody has cancelled. Before: as long as the walk has not failed, a node of every set `on` that leads to a required node is queued,
being worked on, or is the node itself and has been come to (`Coming`); in a `Narrow` graph a branch that reaches its join has nothing else
queued to lose. When no branch is left only the last case remains. `AloneInv` says that a recovery and a walk exclude each other, which is what
`Overlap = FALSE` is for: with `Overlap = TRUE` TLC refutes the property on a graph of one agent, which the
recovered walk runs again while the first one reports success.

### A connector's syncs

`DamageIsBounded` and `IndexIsAccountedFor` count: so many damaged or missing documents for so many
edits, cancels and restarts. **SyncInv** has two parts. One places the only sync there
is: at which file it is, what it has read of it, and that the files before it are in order.
The other takes the sets of broken and of lost files and shows that each grows by at most one
element, and only in a step that spends a cancel or a restart (or an edit); the
cardinalities follow from that with the library's theorems about finite sets.
`Overlap = FALSE` is the assumption of the run; with two syncs of one connector at once both
would write the one document and neither count would hold.

### The git work of a session

**WorkInv** says by the place where a session stands what its clone holds: what it has committed
is at most what Claude changed, and a session that no failed command and no crash has hit, and that
Claude has left on the ticket's branch, has pushed all of it by the time that it reports, and
names the branch exactly if there was something to push. A review session never writes the
branch. How many faults there were plays no part.

### The editing of an agent

`HeldIsAccounted` alone is not inductive: it is about what a replacement leaves once it
commits, and nothing in it says what the replacement will leave while its transaction is open.
**BuilderInv** adds that (`Replacing`): of what the collection holds, whatever the open transaction has not removed is
asked for by the replacement, or has been committed by others since its DELETE. A commit
of anybody else meets every open replacement of its collection (`CommittedStep`), so
that the account is right when it closes, in whatever order the DELETEs and COMMITs fall.

### The resources of a tree of runs

`CleanedWithTheTree` is about the ancestors of a run, which `Resources` has as the least set closed under `parent`.
**ResourcesInv** says where the members of a tree are: a run that is called stands below one that waits for it, an attached
worker has nobody above it that is over, and every row made for the time of a run names a run of its tree. One lemma
is about a run that moves and one about a run that begins, since only the second changes the ancestry.

### The compositions

`PartsBehave` and `GatewayPartsBehave` say that a behaviour of `MCServices` and of `MCGateway` is, seen through the variables of
each part, a behaviour of that part's own specification. What is proved of the parts therefore holds in
the compositions that TLC runs, and their `TypeOK` is one of the consequences.

### Evaluations

**EvalsInv** follows an evaluation through its phases. Before its goroutine feeds cases
no worker, run or result is there (`Phase`); while it does (`Feeding`), the cases still to start and those started
are, disjointly, those it listed, the counters and failures are those of the cases graded so far
(`Counted`), and a result is what its worker has graded (`Stored`). At `CompleteRun` no worker is busy,
so every listed case has been graded and the counters add up to the total, by the theorems on
cardinalities. `Covered` says of everybody who is about to store an analysis that it is about
every failed result: failed results only disappear, so a stale analysis covers more than there is, never less.
`Dues` is the invariant of `LatestIsEvaluated`: a save that must be evaluated has a trigger to come, an evaluation that has not
loaded the agent, or one that has loaded it since. The workers take the least case first; that there is a least
one is proved from the well-foundedness of the naturals.

### MCP servers

**McpInv** has four parts. `Placed`: who is where, and that only the holder of the mutex is between
`Lock` and `Unlock`. `Funded`: every token a job holds was issued, and the one it is about to store has not been replaced. `Accounted`: a refresh token that
the authorisation server has replaced is either excused (its successor was not kept), or the job
that replaced it holds the mutex and stands before `SaveRefreshed`; so that another call, which
needs the mutex to load a token and present it, finds the successor in the row.
`Mirroring`: while a server's row is there its mirrored rows carry the level that the user was told, unless
one of the two-statement requests was crossed.

### The gateway

**InboxInv** has a part per property. `ClaimsInv`: of the requests with one event only the one
that inserted the event's row gets past the claim, and the event has been used by none before it.
`EchoInv`: a text that was sent to the account's own chat was recorded before it left, so the
request that carries its echo finds the record. `TurnsInv`: the runs of a chat share
its session's conversation, and of the runs of one conversation one at most executes.

**ContactsInv**: `PlacesInv` says of whoever writes a contact whose row it is and which row
(an insert never replaces; a decision flips the row it has found). `VerdictInv`: a decision under
way that nobody has contested carries the role of the verdict, and once it is over the contact has
it, and keeps its id for as long as the verdict stands. `EscalationInv`: of a pending
escalation nobody has been told that he decided it. `BlockInv`: the senders that have been
blocked ever since a send began are blocked now; a recipient is checked when it is picked, against
a page of at most `SearchCap` rows on which the blocked come first, so that all of them are on
it when they fit. That last step is a statement about cardinalities of finite sets.

**ScheduleInv**: a pending row of which no dispatcher has a copy in hand has had its slot sent for failures alone (`Unsent`); a series stands
at a slot later than its last recorded send, because the next slot is the least one in the future (there is
one, as the longest interval is `MaxInterval`); and of a row that was stopped at most one copy is at large, the
one a dispatcher had fetched before.

## What is only checked, and what is left out

Out of the provers' reach, and left to TLC: the liveness properties, ENABLED, and the five
counterexamples, which are about the instance of their configuration.

`Overlap = FALSE` of `ConnectorSync` and of `WorkflowRun`, and `SerialApprovals`, are assumptions of the theorems that name
them. Every other safety property of the passing runs is proved as it stands.

Left out of `RunLifecycle`: database errors, other than that of `saveWaitState` (Approve writes
through the request's context and ignores the error, `handler/runs.go:430`, so an approver who
disconnects at the wrong moment has the tool executed on a decision that is not on record);
the 30-minute deadline of `dbCtx` (`handler/invoke.go:494`), which starts before the wait for the
conversation mutex; delegated and parallel agent calls, of which those executed before a park
are executed again (`handler/invoke.go:1188`); nested runs, except that `CanPark = FALSE` gives the gate its
other branch; the `input` an approver may send along, which the loop ignores
(`handler/invoke.go:1399`) and the product's page describes as an override
(`apps/web/src/app/docs/run-states/page.tsx:79`); several API processes, since the registries and the
locks are per process and the code says that it assumes one replica.

Left out of `ConnectorSync`: the GitHub and Confluence providers, whose checkpoints
are sets of finished repositories and spaces; the adoption of repositories after a sync;
files that are removed or cannot be read; database errors; a document of which only some
chunks are stored (chunks are there in full or count as missing); the one-hour limit
on what the recovery resumes.

Left out of `SessionWait` and the runner: progress reports, the lessons and the repository map
of a launch, a stream line longer than the scanner's buffer, `dbCtx`'s deadline.
Of `WorkflowRun`: the contents of outputs and panics of a branch. Of the gateway: linked ids, accounts,
the approval relay, providers other than WhatsApp, the conversation's own contents. Of `Evals`: the text of
cases, overrides and corrections of results. Of `Resources`: the deletion of conversations. Of `AgentBuilder`: the
rows that the chat's single-row tools insert. Of `McpServers`: endpoints, PKCE, the edit and encryption of
a server's row. The other components are listed in `PROJECT.json` with the reason.

## Known behaviours that no run states

Met while modelling, each within the code's reach and excused by name in the property it
would break, or outside the instance's assumptions.

* *Runs.* For a run that may not park, `approval_wait` is visible before the channel is
  registered, and Approve then fails a run whose goroutine is alive (`handler/runs.go:436`).
* *Syncs.* Completing clears the completed job's own checkpoint only: an older, interrupted job's is found
  again by the next sync (`connector/syncstate/reporter.go:89`). Two syncs of one connector share one cancel
  entry, which the first to end removes (`handler/connectors.go:65`). A resume point whose file
  was deleted skips the rest of the walk.
* *Sessions.* A callback that comes before its run has registered is ignored, and the watchdog
  answers instead. A relaunch under a key removes the journal of the session before. A
  cancel can leave `session_wait` without a snapshot; a crash between `SaveWaitState` and `MarkWait`
  a snapshot that a later callback revives. A cancel stops whichever session has the key.
* *Branches.* When Claude works on a branch of its own, the salvage compares its head and pushes the
  ticket's. Two tickets may map to one branch name.
* *Workflows.* Nested workflows are executed again on resume (`handler/invoke.go:2075`); a run started between
  a boot and its recovery is walked twice (2464); a failed branch may end as success with partial
  output (1802); end deliveries fire again. A section inside a section with a join of its own: the outer section's
  search finds the inner join too, and queues it after the inner branch has passed it, so that the outer join and
  what follows are walked twice, although the comment says that "the join is processed exactly once by the parent branch" (2077; the graph `Nested` in `MCWorkflowRun`). A branch that comes to its section's join drops what
  else it has queued (1821). With a walk beside a recovery, one of them may succeed while the other's
  failed sub-run is the newest of its node: `SuccessIsComplete` is stated without such an overlap.
* *Gateway.* A crash between claim and dispatch loses the message. A run that waits for a session is
  answered with an apology, and its answer is never delivered. An edit during a send is
  overwritten by the stale write behind it, and so is a cancel. A `recurrence_end_at` that is not RFC 3339
  ends a series after its first message. Approve and reject at the same time can leave the
  request's status and the contact's role apart; more blocked contacts than a page holds let one through.
* *Evaluations.* A parked run is graded with empty output; an override never changes the score.
* *Resources.* What a run built stays when the process dies or the run is cancelled while
  parked; a node parked when an ancestor cleans up loses what it built.
* *Builder.* Two saves at once leave a union of their graphs, and a run that loads nodes and edges during a
  save sees parts of both.
* *MCP.* A token whose save failed is lost; the browser flow does not take the mutex; a sync leaves
  mirrored tools that the server no longer lists; a mirrored row is taken over by another
  server's tool of that name.

## Plan

What is left, in this order.

1. The creation of reminders and scheduled messages by tools and pages in `GatewaySchedule`.
2. The dispatch of delegated and parallel calls in `RunLifecycle`, and the deadline of `dbCtx`.
3. Webhook triggers and the rate limiter, which have no module yet.
