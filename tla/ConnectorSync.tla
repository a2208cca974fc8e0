---------------------------- MODULE ConnectorSync ----------------------------
(***************************************************************************)
(* Synchronising one connector: the Sync and CancelSync handlers, the      *)
(* goroutine that walks the source and indexes its documents, the          *)
(* checkpoint that lets a later job go on where one stopped, and the       *)
(* recovery of interrupted jobs at boot.  The source is a directory (the   *)
(* filesystem provider), whose files 1..Docs are walked in order.          *)
(*                                                                         *)
(* The content of a file is the time of its last edit; 0 is "nothing".     *)
(* The chunks of a document are there in full or count as missing.         *)
(***************************************************************************)
EXTENDS Integers, Sequences, FiniteSets

CONSTANTS
  Docs,             \* number of files
  CheckpointEvery,  \* a checkpoint after so many files (20 in the code)
  MaxJobs,          \* bound: sync jobs
  MaxEdits,         \* bound: edits of files
  MaxCancels,       \* bound: cancels that find a sync
  MaxRestarts,      \* bound: crashes of the API process
  Overlap           \* FALSE: syncs are started one at a time, by assumption;
                    \* TRUE: as the web client allows it

ASSUME DocsAssumption == Docs \in Nat /\ CheckpointEvery \in Nat \ {0}
ASSUME BoundsAssumption ==
  /\ {MaxJobs, MaxEdits, MaxCancels, MaxRestarts} \subseteq Nat
  /\ Overlap \in BOOLEAN

VARIABLES
  (* the source, and the time *)
  src, clock,
  (* PostgreSQL *)
  rows,        \* connector_sync_jobs, oldest first
  conn,        \* connectors.status
  synced,      \* connectors.last_synced_at, 0 if never
  doc,         \* connector_documents.content_hash of each file, 0 if no row
  chunks,      \* connector_chunks of each file
  (* memory of the API process *)
  cancelFn,    \* syncCancels: the job whose cancel func is stored, or 0
  starting,    \* Sync requests that have yet to insert their job
  ccp, boot,   \* the CancelSync request and the recovery at boot
  (* the goroutine of each job *)
  pc, pos, from, since, text, owned, ctxDone,
  (* what is left of the budgets *)
  edits, cancels, restarts

sourceVars == <<src, clock, edits>>
indexVars == <<doc, chunks>>
requestVars == <<starting, ccp, boot>>
walkVars == <<pos, from, since, text, owned>>
budgets == <<cancels, restarts>>
vars == <<sourceVars, rows, conn, synced, indexVars, cancelFn, requestVars,
          pc, walkVars, ctxDone, budgets>>

Jobs == 1..MaxJobs
Files == 1..Docs
JobStatus == {"running", "completed", "failed", "interrupted"}
JobPC == {"off", "announce", "store", "load", "resume", "walk", "lookup", "upsert",
          "purge", "insert", "note", "fail", "disconnect", "complete", "connect", "exit"}

Cur(j) == pos[j] + 1    \* the file the job is at
Checkpointed == {j \in DOMAIN rows : rows[j].status \in {"interrupted", "failed"} /\ rows[j].cp > 0}

Init ==
  /\ src = [d \in Files |-> 1] /\ clock = 1 /\ edits = 0
  /\ rows = <<>>
  /\ conn = "disconnected"
  /\ synced = 0
  /\ doc = [d \in Files |-> 0] /\ chunks = [d \in Files |-> 0]
  /\ cancelFn = 0
  /\ starting = 0 /\ ccp = "idle" /\ boot = "idle"
  /\ pc = [j \in Jobs |-> "off"]
  /\ pos = [j \in Jobs |-> 0] /\ from = [j \in Jobs |-> 0]
  /\ since = [j \in Jobs |-> 0] /\ text = [j \in Jobs |-> 0]
  /\ owned = [j \in Jobs |-> FALSE] /\ ctxDone = [j \in Jobs |-> FALSE]
  /\ cancels = 0 /\ restarts = 0

Goto(j, at, to) == pc[j] = at /\ pc' = [pc EXCEPT ![j] = to]

-----------------------------------------------------------------------------
(* Faulty variants of actions below: bugs this code could plausibly have.  *)
(* No behaviour of Spec uses them; each breaks a property stated below.    *)

(* The checkpoint names the file after the one that was processed. *)
NoteOneAhead(j) ==
  /\ Goto(j, "note", "walk")
  /\ pos' = [pos EXCEPT ![j] = @ + 1]
  /\ rows' = [rows EXCEPT ![j].cp = pos[j] + 2]
  /\ UNCHANGED <<sourceVars, conn, synced, indexVars, cancelFn, requestVars,
                 from, since, text, owned, ctxDone, budgets>>

(* The id of an existing document is not reused. *)
LookupForgetsID(j) ==
  /\ pc[j] = "lookup"
  /\ pc' = [pc EXCEPT ![j] = IF ctxDone[j] THEN "exit"
                             ELSE IF doc[Cur(j)] = text[j] THEN "note" ELSE "upsert"]
  /\ owned' = [owned EXCEPT ![j] = FALSE]
  /\ UNCHANGED <<sourceVars, rows, conn, synced, indexVars, cancelFn, requestVars,
                 pos, from, since, text, ctxDone, budgets>>

(* A resumed walk skips the file behind the resume point, too. *)
SkipResumedOneMore(j) ==
  /\ Goto(j, "walk", "walk")
  /\ pos[j] < Docs /\ ~ctxDone[j]
  /\ from[j] > 0 /\ Cur(j) <= from[j] + 1
  /\ pos' = [pos EXCEPT ![j] = @ + 1]
  /\ UNCHANGED <<sourceVars, rows, conn, synced, indexVars, cancelFn, requestVars,
                 from, since, text, owned, ctxDone, budgets>>

(* Fail leaves the connector alone. *)
FailJobOnly(j) ==
  /\ Goto(j, "fail", "exit")
  /\ rows' = [rows EXCEPT ![j].status = "failed"]
  /\ UNCHANGED <<sourceVars, conn, synced, indexVars, cancelFn, requestVars,
                 walkVars, ctxDone, budgets>>

-----------------------------------------------------------------------------
(* The source *)

Edit(d) ==
  /\ edits < MaxEdits /\ edits' = edits + 1
  /\ clock' = clock + 1
  /\ src' = [src EXCEPT ![d] = clock + 1]
  /\ UNCHANGED <<rows, conn, synced, indexVars, cancelFn, requestVars,
                 pc, walkVars, ctxDone, budgets>>

-----------------------------------------------------------------------------
(* POST /connectors/{id}/sync *)

Quiet ==
  /\ \A j \in Jobs : pc[j] = "off"
  /\ starting = 0 /\ ccp = "idle" /\ boot = "idle"

(* The handler itself has no guard; the web client offers Sync unless the  *)
(* connector is shown as syncing.                                          *)
SyncRequest ==
  /\ IF Overlap THEN conn # "syncing" ELSE Quiet
  /\ Len(rows) + starting < MaxJobs
  /\ starting' = starting + 1
  /\ conn' = "syncing"
  /\ UNCHANGED <<sourceVars, rows, synced, indexVars, cancelFn, ccp, boot,
                 pc, walkVars, ctxDone, budgets>>

NewJob == [status |-> "running", cp |-> 0]

CreateSyncJob ==
  /\ starting > 0 /\ starting' = starting - 1
  /\ rows' = Append(rows, NewJob)
  /\ pc' = [pc EXCEPT ![Len(rows) + 1] = "store"]
  /\ UNCHANGED <<sourceVars, conn, synced, indexVars, cancelFn, ccp, boot,
                 walkVars, ctxDone, budgets>>

(* runSync: syncCancels.Store under the connector's id, then go. *)
RunSync(j) ==
  /\ Goto(j, "store", "load")
  /\ cancelFn' = j
  /\ UNCHANGED <<sourceVars, rows, conn, synced, indexVars, requestVars,
                 walkVars, ctxDone, budgets>>

-----------------------------------------------------------------------------
(* Pipeline.Sync, with the filesystem provider's FetchStream.  Statements  *)
(* of emit use ctx and do nothing once it is cancelled; the Reporter's     *)
(* statements have a context of their own.                                 *)

(* repo.Get: with a cancelled ctx, an error that wraps context.Canceled. *)
LoadConnector(j) ==
  /\ Goto(j, "load", IF ctxDone[j] THEN "exit" ELSE "resume")
  /\ since' = [since EXCEPT ![j] = synced]
  /\ UNCHANGED <<sourceVars, rows, conn, synced, indexVars, cancelFn, requestVars,
                 pos, from, text, owned, ctxDone, budgets>>

(* The newest interrupted or failed job with a checkpoint, completed ones  *)
(* being passed over.                                                      *)
LoadLastCheckpoint(j) ==
  /\ Goto(j, "resume", "walk")
  /\ from' = [from EXCEPT ![j] =
       IF ctxDone[j] \/ Checkpointed = {} THEN 0
       ELSE LET last == CHOOSE k \in Checkpointed : \A i \in Checkpointed : i <= k
            IN  rows[last].cp]
  /\ UNCHANGED <<sourceVars, rows, conn, synced, indexVars, cancelFn, requestVars,
                 pos, since, text, owned, ctxDone, budgets>>

(* The file is at or before the resume point. *)
SkipResumed(j) ==
  /\ Goto(j, "walk", "walk")
  /\ pos[j] < Docs /\ ~ctxDone[j]
  /\ Cur(j) <= from[j]
  /\ pos' = [pos EXCEPT ![j] = @ + 1]
  /\ UNCHANGED <<sourceVars, rows, conn, synced, indexVars, cancelFn, requestVars,
                 from, since, text, owned, ctxDone, budgets>>

(* ModTime().Before(LastSyncedAt): skipped without a look at its content;  *)
(* any other file behind the resume point is read.                         *)
VisitFile(j) ==
  /\ pc[j] = "walk"
  /\ pos[j] < Docs /\ ~ctxDone[j]
  /\ Cur(j) > from[j]
  /\ IF src[Cur(j)] < since[j]
     THEN pc' = [pc EXCEPT ![j] = "note"] /\ UNCHANGED text
     ELSE pc' = [pc EXCEPT ![j] = "lookup"] /\ text' = [text EXCEPT ![j] = src[Cur(j)]]
  /\ UNCHANGED <<sourceVars, rows, conn, synced, indexVars, cancelFn, requestVars,
                 pos, from, since, owned, ctxDone, budgets>>

(* The walk ends: at the last file, with a directory it cannot read, or,   *)
(* when there is a file left to look at, because ctx was cancelled.        *)
EndWalk(j) ==
  /\ pc[j] = "walk"
  /\ \/ pos[j] = Docs /\ pc' = [pc EXCEPT ![j] = "complete"]
     \/ pc' = [pc EXCEPT ![j] = "fail"]
     \/ pos[j] < Docs /\ ctxDone[j] /\ pc' = [pc EXCEPT ![j] = "exit"]
  /\ UNCHANGED <<sourceVars, rows, conn, synced, indexVars, cancelFn, requestVars,
                 walkVars, ctxDone, budgets>>

(* emit: the document's id and hash.  Cancelled before the check of ctx,   *)
(* the walk ends; cancelled after it, the upsert fails and the walk goes   *)
(* on.  A document with the same hash is taken for indexed.                *)
LookupDocument(j) ==
  /\ pc[j] = "lookup"
  /\ \/ ctxDone[j] /\ pc' = [pc EXCEPT ![j] = "exit"]
     \/ ctxDone[j] /\ pc' = [pc EXCEPT ![j] = "note"]
     \/ ~ctxDone[j] /\ pc' = [pc EXCEPT ![j] =
                                IF doc[Cur(j)] = text[j] THEN "note" ELSE "upsert"]
  /\ owned' = [owned EXCEPT ![j] = doc[Cur(j)] # 0]
  /\ UNCHANGED <<sourceVars, rows, conn, synced, indexVars, cancelFn, requestVars,
                 pos, from, since, text, ctxDone, budgets>>

(* The new hash is stored first.  A row that another sync has inserted     *)
(* meanwhile keeps its id, and the chunks of this one will have no parent. *)
UpsertDocument(j) ==
  /\ Goto(j, "upsert", IF ctxDone[j] THEN "note" ELSE "purge")
  /\ doc' = IF ctxDone[j] THEN doc ELSE [doc EXCEPT ![Cur(j)] = text[j]]
  /\ owned' = [owned EXCEPT ![j] = @ \/ doc[Cur(j)] = 0]
  /\ UNCHANGED <<sourceVars, rows, conn, synced, chunks, cancelFn, requestVars,
                 pos, from, since, text, ctxDone, budgets>>

SetChunks(j, v) ==
  chunks' = IF ctxDone[j] \/ ~owned[j] THEN chunks ELSE [chunks EXCEPT ![Cur(j)] = v]

DeleteChunks(j) ==
  /\ Goto(j, "purge", "insert")
  /\ SetChunks(j, 0)
  /\ UNCHANGED <<sourceVars, rows, conn, synced, doc, cancelFn, requestVars,
                 walkVars, ctxDone, budgets>>

InsertChunks(j) ==
  /\ Goto(j, "insert", "note")
  /\ SetChunks(j, text[j])
  /\ UNCHANGED <<sourceVars, rows, conn, synced, doc, cancelFn, requestVars,
                 walkVars, ctxDone, budgets>>

(* processed++ and, every so many files, the checkpoint. *)
NoteProgress(j) ==
  /\ Goto(j, "note", "walk")
  /\ pos' = [pos EXCEPT ![j] = @ + 1]
  /\ rows' = IF (Cur(j) - from[j]) % CheckpointEvery = 0
             THEN [rows EXCEPT ![j].cp = Cur(j)] ELSE rows
  /\ UNCHANGED <<sourceVars, conn, synced, indexVars, cancelFn, requestVars,
                 from, since, text, owned, ctxDone, budgets>>

-----------------------------------------------------------------------------
(* The end of runSync.  Reporter.Fail and Reporter.Complete do not look at *)
(* the job's status.                                                       *)

FailJob(j) ==
  /\ Goto(j, "fail", "disconnect")
  /\ rows' = [rows EXCEPT ![j].status = "failed"]
  /\ UNCHANGED <<sourceVars, conn, synced, indexVars, cancelFn, requestVars,
                 walkVars, ctxDone, budgets>>

FailConnector(j) ==
  /\ Goto(j, "disconnect", "exit")
  /\ conn' = "error"
  /\ UNCHANGED <<sourceVars, rows, synced, indexVars, cancelFn, requestVars,
                 walkVars, ctxDone, budgets>>

CompleteJob(j) ==
  /\ Goto(j, "complete", "connect")
  /\ rows' = [rows EXCEPT ![j] = [status |-> "completed", cp |-> 0]]
  /\ UNCHANGED <<sourceVars, conn, synced, indexVars, cancelFn, requestVars,
                 walkVars, ctxDone, budgets>>

(* last_synced_at = NOW() *)
CompleteConnector(j) ==
  /\ Goto(j, "connect", "exit")
  /\ conn' = "connected"
  /\ clock' = clock + 1
  /\ synced' = clock + 1
  /\ UNCHANGED <<src, edits, rows, indexVars, cancelFn, requestVars,
                 walkVars, ctxDone, budgets>>

(* The deferred syncCancels.Delete, whoever's entry is there. *)
ExitSync(j) ==
  /\ Goto(j, "exit", "off")
  /\ cancelFn' = 0
  /\ pos' = [pos EXCEPT ![j] = 0] /\ from' = [from EXCEPT ![j] = 0]
  /\ since' = [since EXCEPT ![j] = 0] /\ text' = [text EXCEPT ![j] = 0]
  /\ owned' = [owned EXCEPT ![j] = FALSE] /\ ctxDone' = [ctxDone EXCEPT ![j] = FALSE]
  /\ UNCHANGED <<sourceVars, rows, conn, synced, indexVars, requestVars, budgets>>

-----------------------------------------------------------------------------
(* POST /connectors/{id}/sync/cancel *)

CancelSignal ==
  /\ ccp = "idle" /\ ccp' = "delete"
  /\ cancels < MaxCancels /\ cancels' = cancels + 1
  /\ cancelFn # 0
  /\ ctxDone' = [ctxDone EXCEPT ![cancelFn] = TRUE]
  /\ UNCHANGED <<sourceVars, rows, conn, synced, indexVars, cancelFn, starting, boot,
                 pc, walkVars, restarts>>

CancelDelete ==
  /\ ccp = "delete" /\ ccp' = "mark"
  /\ cancelFn' = 0
  /\ UNCHANGED <<sourceVars, rows, conn, synced, indexVars, starting, boot,
                 pc, walkVars, ctxDone, budgets>>

InterruptRunning ==
  rows' = [j \in DOMAIN rows |->
             IF rows[j].status = "running" THEN [rows[j] EXCEPT !.status = "interrupted"]
             ELSE rows[j]]

(* Every running job of the connector is marked. *)
CancelJobs ==
  /\ ccp = "mark" /\ ccp' = "connect"
  /\ InterruptRunning
  /\ UNCHANGED <<sourceVars, conn, synced, indexVars, cancelFn, starting, boot,
                 pc, walkVars, ctxDone, budgets>>

CancelConnector ==
  /\ ccp = "connect" /\ ccp' = "idle"
  /\ conn' = "connected"
  /\ UNCHANGED <<sourceVars, rows, synced, indexVars, cancelFn, starting, boot,
                 pc, walkVars, ctxDone, budgets>>

-----------------------------------------------------------------------------
(* Crash, and RecoverInterruptedSyncs in the next process. *)

Restart ==
  /\ restarts < MaxRestarts /\ restarts' = restarts + 1
  /\ cancelFn' = 0
  /\ starting' = 0 /\ ccp' = "idle" /\ boot' = "due"
  /\ pc' = [j \in Jobs |-> "off"]
  /\ pos' = [j \in Jobs |-> 0] /\ from' = [j \in Jobs |-> 0]
  /\ since' = [j \in Jobs |-> 0] /\ text' = [j \in Jobs |-> 0]
  /\ owned' = [j \in Jobs |-> FALSE] /\ ctxDone' = [j \in Jobs |-> FALSE]
  /\ UNCHANGED <<sourceVars, rows, conn, synced, indexVars, cancels>>

(* No running job: the recovery returns early. *)
RecoverJobs ==
  /\ boot = "due"
  /\ boot' = IF \E j \in DOMAIN rows : rows[j].status = "running" THEN "reset" ELSE "idle"
  /\ InterruptRunning
  /\ UNCHANGED <<sourceVars, conn, synced, indexVars, cancelFn, starting, ccp,
                 pc, walkVars, ctxDone, budgets>>

RecoverConnector ==
  /\ boot = "reset" /\ boot' = "query"
  /\ conn' = IF conn = "syncing" THEN "error" ELSE conn
  /\ UNCHANGED <<sourceVars, rows, synced, indexVars, cancelFn, starting, ccp,
                 pc, walkVars, ctxDone, budgets>>

(* An interrupted job (of the last hour) with a checkpoint is resumed by a *)
(* new job, which is created before the connector is marked.               *)
LaunchSync ==
  /\ boot = "query" /\ boot' = "idle"
  /\ IF /\ \E j \in Checkpointed : rows[j].status = "interrupted"
        /\ Len(rows) + starting < MaxJobs
     THEN rows' = Append(rows, NewJob) /\ pc' = [pc EXCEPT ![Len(rows) + 1] = "announce"]
     ELSE UNCHANGED <<rows, pc>>
  /\ UNCHANGED <<sourceVars, conn, synced, indexVars, cancelFn, starting, ccp,
                 walkVars, ctxDone, budgets>>

AnnounceSync(j) ==
  /\ Goto(j, "announce", "store")
  /\ conn' = "syncing"
  /\ UNCHANGED <<sourceVars, rows, synced, indexVars, cancelFn, requestVars,
                 walkVars, ctxDone, budgets>>

-----------------------------------------------------------------------------
JobStep(j) ==
  \/ AnnounceSync(j) \/ RunSync(j) \/ LoadConnector(j) \/ LoadLastCheckpoint(j)
  \/ SkipResumed(j) \/ VisitFile(j) \/ EndWalk(j)
  \/ LookupDocument(j) \/ UpsertDocument(j) \/ DeleteChunks(j) \/ InsertChunks(j)
  \/ NoteProgress(j) \/ FailJob(j) \/ FailConnector(j)
  \/ CompleteJob(j) \/ CompleteConnector(j) \/ ExitSync(j)

CancelStep == CancelDelete \/ CancelJobs \/ CancelConnector
BootStep == RecoverJobs \/ RecoverConnector \/ LaunchSync

Next ==
  \/ \E d \in Files : Edit(d)
  \/ SyncRequest \/ CreateSyncJob
  \/ \E j \in Jobs : JobStep(j)
  \/ CancelSignal \/ CancelStep
  \/ Restart \/ BootStep

Spec == Init /\ [][Next]_vars

(* Goroutines and handlers are scheduled, statements and reads return.     *)
(* Nobody has to edit, sync or cancel.                                     *)
Fairness ==
  /\ WF_vars(CreateSyncJob) /\ WF_vars(CancelStep) /\ WF_vars(BootStep)
  /\ \A j \in Jobs : WF_vars(JobStep(j))

FairSpec == Spec /\ Fairness
-----------------------------------------------------------------------------
(* Correctness *)

(* The shape of every variable; a checkpoint names a file that exists. *)
TypeOK ==
  /\ src \in [Files -> Nat] /\ clock \in Nat
  /\ rows \in Seq([status : JobStatus, cp : 0..Docs]) /\ Len(rows) <= MaxJobs
  /\ conn \in {"disconnected", "connected", "syncing", "error"}
  /\ synced \in Nat
  /\ doc \in [Files -> Nat] /\ chunks \in [Files -> Nat]
  /\ cancelFn \in 0..MaxJobs
  /\ starting \in Nat
  /\ ccp \in {"idle", "delete", "mark", "connect"}
  /\ boot \in {"idle", "due", "reset", "query"}
  /\ pc \in [Jobs -> JobPC]
  /\ pos \in [Jobs -> 0..Docs] /\ from \in [Jobs -> 0..Docs]
  /\ since \in [Jobs -> Nat] /\ text \in [Jobs -> Nat]
  /\ owned \in [Jobs -> BOOLEAN] /\ ctxDone \in [Jobs -> BOOLEAN]
  /\ edits \in Nat /\ cancels \in Nat /\ restarts \in Nat

(* A document whose stored hash is not the hash of its chunks is taken for *)
(* indexed by every later sync.  Only a cancel or a crash leaves one       *)
(* behind, and each of them at most one.                                   *)
InTheMaking(d) == \E j \in Jobs : pc[j] \in {"purge", "insert"} /\ Cur(j) = d
Damaged == {d \in Files : chunks[d] # doc[d] /\ ~InTheMaking(d)}
DamageIsBounded == Cardinality(Damaged) <= cancels + restarts

(* Once a sync has completed, every document that cannot be found as it is *)
(* in the source is accounted for by an edit, a cancel or a crash, one     *)
(* document each: failures and resumes lose nothing.                       *)
IndexIsAccountedFor ==
  synced # 0 =>
    Cardinality({d \in Files : chunks[d] # src[d]}) <= edits + cancels + restarts

(* Every job comes to an end, by itself, by a cancel, or by the recovery   *)
(* after a crash.                                                          *)
SyncsEnd ==
  \A j \in Jobs :
    (j \in DOMAIN rows /\ rows[j].status = "running") ~>
    (j \in DOMAIN rows /\ rows[j].status # "running")

(* A connector does not stay in syncing, unless the process dies.  (If it  *)
(* dies between the write to the job and the write to the connector, the   *)
(* recovery finds no running job and leaves the connector as it is.)       *)
ConnectorSettles == conn = "syncing" ~> conn # "syncing" \/ restarts > 0

\* A started sync comes to an end, for its job and for its connector.
SyncsSettle == SyncsEnd /\ ConnectorSettles
=============================================================================
