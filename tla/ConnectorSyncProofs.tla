-------------------------- MODULE ConnectorSyncProofs --------------------------
(* While the syncs of a connector follow one another, what its index has lost   *)
(* is bounded by the edits, cancels and crashes, for any number of them, of     *)
(* files and of jobs.                                                           *)
EXTENDS ConnectorSync, TLAPS, FiniteSetTheorems, SequenceTheorems, WellFoundedInduction

\* Fields of a job's goroutine that is on its way.
Active(j) == pc[j] # "off"
Busy == {"lookup", "upsert", "purge", "insert", "note"}
Making(j) == pc[j] \in {"purge", "insert"}

\* Syncs follow one another: one request or one goroutine, and none while the recovery runs.
OneAtATime ==
  /\ \A j, k \in Jobs : Active(j) /\ Active(k) => j = k
  /\ starting \in {0, 1}
  /\ starting = 1 \/ boot # "idle" => \A j \in Jobs : ~Active(j)
  /\ starting = 1 => boot = "idle" /\ Len(rows) < MaxJobs
  /\ cancelFn # 0 => Active(cancelFn) /\ pc[cancelFn] \notin {"announce", "store"}
  /\ \A j \in Jobs : Active(j) => j \in DOMAIN rows
  /\ \A j \in Jobs : ~Active(j) => pos[j] = 0 /\ from[j] = 0 /\ ~ctxDone[j]

\* The chunks of a document are no newer than its row, its row no newer than the file.
InOrder ==
  /\ \A d \in Files : chunks[d] <= doc[d] /\ doc[d] <= src[d] /\ 1 <= src[d] /\ src[d] <= clock
  /\ synced <= clock

\* What the goroutine of a job knows of the file it is at.
AtFile(j) ==
  /\ pc[j] \in {"announce", "store", "load", "resume"} => pos[j] = 0 /\ from[j] = 0
  /\ pc[j] \in Busy => Cur(j) \in Files
  /\ since[j] <= synced
  /\ pc[j] \in {"lookup", "upsert", "purge", "insert"} => 1 <= text[j] /\ text[j] <= src[Cur(j)]
  /\ pc[j] = "lookup" => doc[Cur(j)] <= text[j]
  /\ pc[j] = "upsert" /\ ~ctxDone[j] => doc[Cur(j)] < text[j] /\ (owned[j] <=> doc[Cur(j)] # 0)
  /\ Making(j) => doc[Cur(j)] = text[j] /\ chunks[Cur(j)] < text[j] /\ owned[j]
  /\ pc[j] = "note" /\ ~ctxDone[j] /\ synced = 0 => doc[Cur(j)] = text[j] /\ text[j] <= src[Cur(j)]
  /\ pc[j] \in {"complete", "connect"} => pos[j] = Docs

\* Documents without their chunks, and the one that a cancelled job is about to leave so.
Broken == Damaged \cup {Cur(j) : j \in {k \in Jobs : Making(k) /\ ctxDone[k]}}

\* Files that a completed sync, a checkpoint or the job at work has behind it.
Covered == {d \in Files : \/ synced # 0
                          \/ \E k \in DOMAIN rows : d <= rows[k].cp
                          \/ \E j \in Jobs : d <= pos[j] \/ d <= from[j]}
\* The file at hand, when the job has an old copy of it or will not finish it.
Slips(j) == pc[j] \in Busy /\ (ctxDone[j] \/ text[j] # src[Cur(j)])
Slipping == {Cur(j) : j \in {k \in Jobs : Slips(k)}}
Lost == Damaged \cup {d \in Covered : chunks[d] # src[d]} \cup (IF synced = 0 THEN Slipping ELSE {})

SyncInv ==
  /\ TypeOK /\ OneAtATime /\ InOrder /\ \A j \in Jobs : AtFile(j)
  /\ Cardinality(Broken) <= cancels + restarts
  /\ Cardinality(Lost) <= edits + cancels + restarts

-----------------------------------------------------------------------------
Row == [status : JobStatus, cp : 0..Docs]

\* Every nonempty set of positions has a last one.
LEMMA LastPosition ==
  ASSUME NEW n \in Nat, NEW T \in SUBSET (1..n), T # {}
  PROVE  \E k \in T : \A i \in T : i <= k
<1> DEFINE U == {n - i : i \in T}
<1>1. PICK t \in T : TRUE
  OBVIOUS
<1>2. \A i \in T : i \in Nat /\ n - i \in Nat
  OBVIOUS
<1>3. U \subseteq Nat
  BY <1>2
<1>4. U # {}
  <2>1. n - t \in U
    BY <1>1
  <2> QED BY <2>1
<1>5. PICK m \in U : \A y \in U : ~ (<<y, m>> \in OpToRel(<, Nat))
  BY <1>3, <1>4, WFMin, NatLessThanWellFounded
<1>6. PICK k \in T : m = n - k
  OBVIOUS
<1>7. ASSUME NEW i \in T PROVE i <= k
  <2>1. n - i \in U
    OBVIOUS
  <2>2. ~(<<n - i, m>> \in OpToRel(<, Nat))
    BY <1>5, <2>1
  <2>3. ~(n - i < m)
    BY <2>1, <2>2, <1>3 DEF OpToRel
  <2> QED BY <2>3, <1>6, <1>2
<1> QED BY <1>7

\* The rows of the jobs stay rows, and as many, when one of them is written.
LEMMA RowWritten ==
  ASSUME NEW r \in Seq(Row), NEW i \in DOMAIN r, NEW w \in Row
  PROVE  /\ [r EXCEPT ![i] = w] \in Seq(Row)
         /\ Len([r EXCEPT ![i] = w]) = Len(r)
         /\ DOMAIN [r EXCEPT ![i] = w] = DOMAIN r
<1>1. i \in 1..Len(r)
  OBVIOUS
<1> QED BY <1>1, ExceptSeq

\* CancelJobs and RecoverJobs keep every checkpoint.
LEMMA Interrupted ==
  ASSUME TypeOK, InterruptRunning
  PROVE  /\ rows' \in Seq(Row) /\ Len(rows') = Len(rows) /\ DOMAIN rows' = DOMAIN rows
         /\ \A k \in DOMAIN rows : rows'[k].cp = rows[k].cp
<1>1. rows \in Seq(Row)
  BY DEF TypeOK, Row
<1>2. DOMAIN rows = 1..Len(rows) /\ Len(rows) \in Nat
  BY <1>1
<1>3. \A k \in DOMAIN rows : rows[k] \in Row
  BY <1>1
<1>4. \A k \in DOMAIN rows : rows'[k] \in Row /\ rows'[k].cp = rows[k].cp
  BY <1>3 DEF InterruptRunning, Row, JobStatus
<1>5. rows' \in [1..Len(rows) -> Row]
  BY <1>2, <1>4 DEF InterruptRunning
<1>6. rows' \in Seq(Row)
  BY <1>5, <1>2, SeqDef
<1> QED BY <1>5, <1>6, <1>4, <1>2, LenProperties

\* CreateSyncJob and LaunchSync add a row without a checkpoint.
LEMMA JobAdded ==
  ASSUME TypeOK, rows' = Append(rows, NewJob)
  PROVE  /\ rows' \in Seq(Row) /\ Len(rows') = Len(rows) + 1
         /\ DOMAIN rows' = DOMAIN rows \cup {Len(rows) + 1}
         /\ \A k \in DOMAIN rows : rows'[k] = rows[k]
         /\ rows'[Len(rows) + 1].cp = 0
<1>1. rows \in Seq(Row) /\ NewJob \in Row
  BY DocsAssumption DEF TypeOK, Row, NewJob, JobStatus
<1> QED BY <1>1, AppendProperties DEF NewJob

\* A resumed walk starts at a checkpoint of a row.
LEMMA ResumePoint ==
  ASSUME TypeOK, NEW j \in Jobs, LoadLastCheckpoint(j)
  PROVE  /\ from'[j] = 0 \/ \E k \in DOMAIN rows : from'[j] = rows[k].cp
         /\ \A i \in Jobs \ {j} : from'[i] = from[i]
         /\ from' \in [Jobs -> 0..Docs]
<1> DEFINE last == CHOOSE k \in Checkpointed : \A i \in Checkpointed : i <= k
<1>1. rows \in Seq(Row) /\ \A k \in DOMAIN rows : rows[k].cp \in 0..Docs
  <2>1. rows \in Seq(Row)
    BY DEF TypeOK, Row
  <2>2. \A k \in DOMAIN rows : rows[k] \in Row
    BY <2>1
  <2> QED BY <2>1, <2>2 DEF Row
<1>2. CASE ctxDone[j] \/ Checkpointed = {}
  <2>1. from' = [from EXCEPT ![j] = 0]
    BY <1>2 DEF LoadLastCheckpoint
  <2> QED BY <2>1, DocsAssumption DEF TypeOK
<1>3. CASE ~ctxDone[j] /\ Checkpointed # {}
  <2>1. Checkpointed \subseteq 1..Len(rows) /\ Len(rows) \in Nat
    BY <1>1 DEF Checkpointed
  <2>2. \E k \in Checkpointed : \A i \in Checkpointed : i <= k
    BY <2>1, <1>3, LastPosition
  <2>3. last \in Checkpointed
    BY <2>2
  <2>4. last \in DOMAIN rows
    BY <2>3 DEF Checkpointed
  <2>5. from' = [from EXCEPT ![j] = rows[last].cp]
    BY <1>3 DEF LoadLastCheckpoint
  <2> HIDE DEF last
  <2> QED BY <2>4, <2>5, <1>1 DEF TypeOK
<1> QED BY <1>2, <1>3

\* A checkpoint is written by NoteProgress alone, and says how far the walk is.
RowsMove ==
  /\ rows' \in Seq(Row) /\ Len(rows') <= MaxJobs /\ DOMAIN rows \subseteq DOMAIN rows'
  /\ \A k \in DOMAIN rows', d \in Files : d <= rows'[k].cp =>
        \/ k \in DOMAIN rows /\ d <= rows[k].cp
        \/ \E j \in Jobs : NoteProgress(j) /\ d <= pos'[j]

\* Job rows are left alone, ...
LEMMA RowsKept == ASSUME TypeOK, UNCHANGED rows PROVE RowsMove
BY DEF TypeOK, RowsMove, Row

\* ... interrupted by a boot, ...
LEMMA RowsInterrupted == ASSUME TypeOK, InterruptRunning PROVE RowsMove
BY Interrupted DEF TypeOK, RowsMove

\* ... added, ...
LEMMA RowsAdded == ASSUME TypeOK, rows' = Append(rows, NewJob), Len(rows) < MaxJobs PROVE RowsMove
<1>1. Len(rows) \in Nat /\ MaxJobs \in Nat
  BY BoundsAssumption DEF TypeOK
<1> QED BY <1>1, JobAdded DEF TypeOK, RowsMove, Files

\* ... or written by the sync they belong to.
LEMMA RowsWritten ==
  ASSUME TypeOK, OneAtATime, NEW j \in Jobs, Active(j), AtFile(j),
         FailJob(j) \/ CompleteJob(j) \/ NoteProgress(j)
  PROVE  RowsMove
<1> DEFINE w == IF FailJob(j) THEN [rows[j] EXCEPT !.status = "failed"]
                ELSE IF CompleteJob(j) THEN [status |-> "completed", cp |-> 0]
                ELSE IF (Cur(j) - from[j]) % CheckpointEvery = 0 THEN [rows[j] EXCEPT !.cp = Cur(j)]
                ELSE rows[j]
<1>1. j \in DOMAIN rows /\ rows \in Seq(Row) /\ rows[j] \in Row
  <2>1. j \in DOMAIN rows /\ rows \in Seq(Row)
    BY DEF OneAtATime, TypeOK, Row
  <2> QED BY <2>1
<1>2. CASE FailJob(j)
  <2>1. rows' = [rows EXCEPT ![j] = w]
    BY <1>2, <1>1 DEF FailJob
  <2>2. w \in Row /\ w.cp = rows[j].cp
    BY <1>2, <1>1 DEF Row, JobStatus
  <2> HIDE DEF w
  <2> QED BY <2>1, <2>2, <1>1, RowWritten DEF RowsMove, TypeOK
<1>3. CASE CompleteJob(j)
  <2>1. rows' = [rows EXCEPT ![j] = w]
    BY <1>3, <1>1 DEF CompleteJob, FailJob, Goto
  <2>2. w \in Row /\ w.cp = 0
    BY <1>3, <1>1, DocsAssumption DEF Row, JobStatus, CompleteJob, FailJob, Goto
  <2> HIDE DEF w
  <2>3. \A d \in Files : ~(d <= w.cp)
    BY <2>2 DEF Files
  <2> QED BY <2>1, <2>2, <2>3, <1>1, RowWritten DEF RowsMove, TypeOK
<1>4. CASE NoteProgress(j)
  <2>1. Cur(j) \in Files /\ pos'[j] = Cur(j)
    BY <1>4 DEF NoteProgress, AtFile, Busy, Goto, Cur, TypeOK
  <2>2. rows' = [rows EXCEPT ![j] = w]
    <3>1. ~FailJob(j) /\ ~CompleteJob(j)
      BY <1>4 DEF NoteProgress, FailJob, CompleteJob, Goto
    <3>2. rows = [rows EXCEPT ![j] = rows[j]]
      BY <1>1
    <3> QED BY <3>1, <3>2, <1>4 DEF NoteProgress
  <2>3. w \in Row /\ (w.cp = rows[j].cp \/ w.cp = pos'[j])
    <3>1. Cur(j) \in 0..Docs /\ [rows[j] EXCEPT !.cp = Cur(j)] \in Row
      BY <1>1, <2>1, DocsAssumption DEF Row, Files
    <3>2. ~FailJob(j) /\ ~CompleteJob(j)
      BY <1>4 DEF NoteProgress, FailJob, CompleteJob, Goto
    <3>3. [rows[j] EXCEPT !.cp = Cur(j)].cp = Cur(j)
      BY <1>1 DEF Row
    <3> QED BY <3>1, <3>2, <3>3, <1>1, <2>1
  <2> HIDE DEF w
  <2> QED BY <2>2, <2>3, <1>1, <1>4, RowWritten DEF RowsMove, TypeOK
<1> QED BY <1>2, <1>3, <1>4

\* The state of the goroutines and of the index, without the counts.
Walk == TypeOK /\ OneAtATime /\ InOrder /\ \A j \in Jobs : AtFile(j)

\* No step moves a job row otherwise.
LEMMA RowsStep == ASSUME Walk, [Next]_vars PROVE RowsMove
<1>1. ASSUME NEW j \in Jobs, JobStep(j) PROVE RowsMove
  <2>1. CASE FailJob(j) \/ CompleteJob(j) \/ NoteProgress(j)
    <3>1. Active(j)
      BY <2>1 DEF FailJob, CompleteJob, NoteProgress, Goto, Active
    <3> QED BY <2>1, <3>1, RowsWritten DEF Walk
  <2>2. CASE ~(FailJob(j) \/ CompleteJob(j) \/ NoteProgress(j))
    <3>1. UNCHANGED rows
      BY <1>1, <2>2 DEF JobStep, AnnounceSync, RunSync, LoadConnector, LoadLastCheckpoint, SkipResumed,
         VisitFile, EndWalk, LookupDocument, UpsertDocument, DeleteChunks, InsertChunks, FailConnector,
         CompleteConnector, ExitSync
    <3> QED BY <3>1, RowsKept DEF Walk
  <2> QED BY <2>1, <2>2
<1>2. ASSUME CancelJobs \/ RecoverJobs PROVE RowsMove
  BY <1>2, RowsInterrupted DEF Walk, CancelJobs, RecoverJobs
<1>3. ASSUME CreateSyncJob PROVE RowsMove
  <2>1. Len(rows) < MaxJobs
    BY <1>3 DEF CreateSyncJob, Walk, OneAtATime
  <2> QED BY <1>3, <2>1, RowsAdded DEF CreateSyncJob, Walk
<1>4. ASSUME LaunchSync PROVE RowsMove
  <2>1. UNCHANGED rows \/ (Len(rows) < MaxJobs /\ rows' = Append(rows, NewJob))
    <3>1. Len(rows) \in Nat /\ starting \in Nat /\ MaxJobs \in Nat
      BY BoundsAssumption DEF Walk, TypeOK
    <3> QED BY <1>4, <3>1 DEF LaunchSync
  <2> QED BY <2>1, RowsAdded, RowsKept DEF Walk
<1>5. ASSUME \/ UNCHANGED vars \/ \E d \in Files : Edit(d)
             \/ SyncRequest \/ CancelSignal \/ CancelDelete \/ CancelConnector
             \/ Restart \/ RecoverConnector
      PROVE  RowsMove
  BY <1>5, RowsKept DEF Walk, vars, Edit, SyncRequest, CancelSignal, CancelDelete, CancelConnector,
     Restart, RecoverConnector
<1> QED BY <1>1, <1>2, <1>3, <1>4, <1>5 DEF Next, CancelStep, BootStep

\* A goroutine that is neither created nor ended by its step stays the only one.
LEMMA StillOne ==
  ASSUME Walk, RowsMove, NEW j \in Jobs, Active(j), NEW p \in JobPC \ {"off", "announce", "store"},
         pc' = [pc EXCEPT ![j] = p],
         UNCHANGED <<cancelFn, starting, boot, ctxDone>>,
         \A i \in Jobs \ {j} : pos'[i] = pos[i] /\ from'[i] = from[i]
  PROVE  OneAtATime'
<1>1. pc \in [Jobs -> JobPC] /\ starting # 1 /\ boot = "idle" /\ (cancelFn # 0 => cancelFn \in Jobs)
  BY BoundsAssumption DEF Walk, TypeOK, OneAtATime, Jobs
<1>2. \A i \in Jobs : Active(i)' <=> Active(i)
  BY <1>1 DEF Active
<1>3. pc'[j] = p /\ \A i \in Jobs \ {j} : pc'[i] = pc[i]
  BY <1>1
<1> QED BY <1>1, <1>2, <1>3 DEF Walk, OneAtATime, RowsMove

\* The goroutines that have ended know nothing of a file.
LEMMA OthersAtFile ==
  ASSUME Walk, NEW j \in Jobs, Active(j),
         \A i \in Jobs \ {j} : pc'[i] = pc[i] /\ since'[i] = since[i], synced <= synced',
         synced' \in Nat
  PROVE  \A i \in Jobs \ {j} : AtFile(i)'
<1>1. ASSUME NEW i \in Jobs \ {j} PROVE AtFile(i)'
  <2>1. pc'[i] = "off"
    BY DEF Walk, OneAtATime, Active
  <2>2. since[i] <= synced /\ since[i] \in Nat /\ synced \in Nat
    BY DEF Walk, TypeOK, AtFile
  <2>3. since'[i] <= synced'
    BY <2>2
  <2> QED BY <2>1, <2>3 DEF AtFile, Busy, Making
<1> QED BY <1>1

\* The broken documents are those of before, or a fault has happened, which breaks one more.
BrokenMove ==
  \/ Broken' \subseteq Broken /\ cancels' + restarts' = cancels + restarts
  \/ /\ CancelSignal /\ Broken' \subseteq Broken \cup {Cur(cancelFn)}
     /\ cancels' + restarts' = cancels + restarts + 1
  \/ /\ Restart /\ (\E x : Broken' \subseteq Broken \cup {x})
     /\ cancels' + restarts' = cancels + restarts + 1

\* Nothing breaks while documents and the current files stay as they are.
LEMMA SameBroken ==
  ASSUME Walk, UNCHANGED <<doc, chunks, cancels, restarts>>,
         \A i \in Jobs : /\ Making(i)' <=> Making(i)
                         /\ Making(i) => Cur(i)' = Cur(i) /\ (ctxDone'[i] => ctxDone[i])
  PROVE  BrokenMove
<1>1. \A d \in Files : InTheMaking(d)' <=> InTheMaking(d)
  BY DEF InTheMaking, Making
<1>2. Damaged' \subseteq Damaged
  BY <1>1 DEF Damaged
<1>3. Broken' \subseteq Broken
  BY <1>2 DEF Broken
<1> QED BY <1>3 DEF BrokenMove

\* The shape of the state.
LEMMA TypeStep ==
  ASSUME Walk, [Next]_vars, RowsMove
  PROVE  TypeOK'
<1>0. rows' \in Seq([status : JobStatus, cp : 0..Docs]) /\ Len(rows') <= MaxJobs
  BY DEF RowsMove, Row
<1>T. TypeOK
  BY DEF Walk
<1>1. ASSUME NEW j \in Jobs, AnnounceSync(j) PROVE TypeOK'
  <2>1. pc' \in [Jobs -> JobPC]
    BY <1>1, <1>T DEF AnnounceSync, Goto, TypeOK, JobPC
  <2>2. conn' \in {"disconnected", "connected", "syncing", "error"}
    BY <1>1, <1>T DEF AnnounceSync, Goto, TypeOK
  <2> QED BY <1>0, <1>T, <1>1, <2>1, <2>2, Zenon DEF AnnounceSync, Goto, TypeOK, sourceVars, indexVars,
             requestVars, walkVars, budgets
<1>2. ASSUME NEW j \in Jobs, RunSync(j) PROVE TypeOK'
  <2>1. cancelFn' \in 0..MaxJobs
    BY <1>2, BoundsAssumption DEF RunSync, Goto, Jobs
  <2>2. pc' \in [Jobs -> JobPC]
    BY <1>2, <1>T DEF RunSync, Goto, TypeOK, JobPC
  <2> QED BY <1>0, <1>T, <1>2, <2>1, <2>2, Zenon DEF RunSync, Goto, TypeOK, sourceVars, indexVars,
             requestVars, walkVars, budgets
<1>3. ASSUME NEW j \in Jobs, LoadConnector(j) PROVE TypeOK'
  <2>1. pc' \in [Jobs -> JobPC]
    BY <1>3, <1>T DEF LoadConnector, Goto, TypeOK, JobPC
  <2>2. since' \in [Jobs -> Nat]
    BY <1>3, <1>T DEF LoadConnector, Goto, TypeOK
  <2> QED BY <1>0, <1>T, <1>3, <2>1, <2>2, Zenon DEF LoadConnector, Goto, TypeOK, sourceVars, indexVars,
             requestVars, walkVars, budgets
<1>4. ASSUME NEW j \in Jobs, LoadLastCheckpoint(j) PROVE TypeOK'
  <2>1. from' \in [Jobs -> 0..Docs]
    BY <1>4, ResumePoint DEF Walk
  <2>2. pc' \in [Jobs -> JobPC]
    BY <1>4, <1>T DEF LoadLastCheckpoint, Goto, TypeOK, JobPC
  <2> QED BY <1>0, <1>T, <1>4, <2>1, <2>2, Zenon DEF LoadLastCheckpoint, Goto, TypeOK, sourceVars, indexVars,
             requestVars, walkVars, budgets
<1>5. ASSUME NEW j \in Jobs, SkipResumed(j) PROVE TypeOK'
  <2>1. pos' \in [Jobs -> 0..Docs]
    <3>1. pos[j] + 1 \in 0..Docs
      <4>1. pos[j] \in 0..Docs
        BY <1>T DEF TypeOK
      <4> QED BY <4>1, <1>5, DocsAssumption DEF SkipResumed
    <3> QED BY <3>1, <1>5, <1>T DEF SkipResumed, TypeOK
  <2>2. pc' \in [Jobs -> JobPC]
    BY <1>5, <1>T DEF SkipResumed, Goto, TypeOK, JobPC
  <2> QED BY <1>0, <1>T, <1>5, <2>1, <2>2, Zenon DEF SkipResumed, Goto, TypeOK, sourceVars, indexVars,
             requestVars, walkVars, budgets
<1>6. ASSUME NEW j \in Jobs, VisitFile(j) PROVE TypeOK'
  <2>1. Cur(j) \in Files
    <3>1. pos[j] \in 0..Docs
      BY <1>T DEF TypeOK
    <3> QED BY <1>6, <3>1, DocsAssumption DEF VisitFile, Cur, Files
  <2>2. text' = text \/ text' = [text EXCEPT ![j] = src[Cur(j)]]
    BY <1>6 DEF VisitFile
  <2>3. pc' \in [Jobs -> JobPC]
    BY <1>6, <1>T DEF VisitFile, Goto, TypeOK, JobPC
  <2>4. text' \in [Jobs -> Nat]
    BY <2>1, <2>2, <1>T DEF TypeOK
  <2> QED BY <1>0, <1>T, <1>6, <2>1, <2>2, <2>3, <2>4, Zenon DEF VisitFile, Goto, TypeOK, sourceVars,
             indexVars, requestVars, walkVars, budgets
<1>7. ASSUME NEW j \in Jobs, EndWalk(j) PROVE TypeOK'
  <2>1. pc' \in [Jobs -> JobPC]
    BY <1>7, <1>T DEF EndWalk, Goto, TypeOK, JobPC
  <2> QED BY <1>0, <1>T, <1>7, <2>1, Zenon DEF EndWalk, Goto, TypeOK, sourceVars, indexVars, requestVars,
             walkVars, budgets
<1>8. ASSUME NEW j \in Jobs, LookupDocument(j) PROVE TypeOK'
  <2>1. pc' \in [Jobs -> JobPC]
    BY <1>8, <1>T DEF LookupDocument, Goto, TypeOK, JobPC
  <2>2. owned' \in [Jobs -> BOOLEAN]
    BY <1>8, <1>T DEF LookupDocument, Goto, TypeOK
  <2> QED BY <1>0, <1>T, <1>8, <2>1, <2>2, Zenon DEF LookupDocument, Goto, TypeOK, sourceVars, indexVars,
             requestVars, walkVars, budgets
<1>9. ASSUME NEW j \in Jobs, UpsertDocument(j) PROVE TypeOK'
  <2>1. Cur(j) \in Files
    BY <1>9, <1>T, DocsAssumption DEF UpsertDocument, Goto, Walk, TypeOK, AtFile, Busy, Cur, Files
  <2>2. pc' \in [Jobs -> JobPC]
    BY <1>9, <1>T DEF UpsertDocument, Goto, TypeOK, JobPC
  <2>3. doc' \in [Files -> Nat]
    BY <2>1, <1>9, <1>T DEF UpsertDocument, Goto, TypeOK
  <2>4. owned' \in [Jobs -> BOOLEAN]
    BY <1>9, <1>T DEF UpsertDocument, Goto, TypeOK
  <2> QED BY <1>0, <1>T, <1>9, <2>1, <2>2, <2>3, <2>4, Zenon DEF UpsertDocument, Goto, TypeOK, sourceVars,
             indexVars, requestVars, walkVars, budgets
<1>10. ASSUME NEW j \in Jobs, DeleteChunks(j) PROVE TypeOK'
  <2>1. Cur(j) \in Files
    BY <1>10, <1>T, DocsAssumption DEF DeleteChunks, SetChunks, Goto, Walk, TypeOK, AtFile, Busy, Cur, Files
  <2>2. pc' \in [Jobs -> JobPC]
    BY <1>10, <1>T DEF DeleteChunks, SetChunks, Goto, TypeOK, JobPC
  <2>3. chunks' \in [Files -> Nat]
    BY <2>1, <1>10, <1>T DEF DeleteChunks, SetChunks, Goto, TypeOK
  <2> QED BY <1>0, <1>T, <1>10, <2>1, <2>2, <2>3, Zenon DEF DeleteChunks, SetChunks, Goto, TypeOK,
             sourceVars, indexVars, requestVars, walkVars, budgets
<1>11. ASSUME NEW j \in Jobs, InsertChunks(j) PROVE TypeOK'
  <2>1. Cur(j) \in Files
    BY <1>11, <1>T, DocsAssumption DEF InsertChunks, SetChunks, Goto, Walk, TypeOK, AtFile, Busy, Cur, Files
  <2>2. pc' \in [Jobs -> JobPC]
    BY <1>11, <1>T DEF InsertChunks, SetChunks, Goto, TypeOK, JobPC
  <2>3. chunks' \in [Files -> Nat]
    BY <2>1, <1>11, <1>T DEF InsertChunks, SetChunks, Goto, TypeOK
  <2> QED BY <1>0, <1>T, <1>11, <2>1, <2>2, <2>3, Zenon DEF InsertChunks, SetChunks, Goto, TypeOK,
             sourceVars, indexVars, requestVars, walkVars, budgets
<1>12. ASSUME NEW j \in Jobs, NoteProgress(j) PROVE TypeOK'
  <2>1. pos' \in [Jobs -> 0..Docs]
    <3>1. pos[j] + 1 \in 0..Docs
      BY <1>12, <1>T, DocsAssumption DEF NoteProgress, TypeOK, Walk, AtFile, Busy, Goto, Files, Cur
    <3> QED BY <3>1, <1>12, <1>T DEF NoteProgress, TypeOK
  <2>2. pc' \in [Jobs -> JobPC]
    BY <1>12, <1>T DEF NoteProgress, Goto, TypeOK, JobPC
  <2> QED BY <1>0, <1>T, <1>12, <2>1, <2>2, Zenon DEF NoteProgress, Goto, TypeOK, sourceVars, indexVars,
             requestVars, walkVars, budgets
<1>13. ASSUME NEW j \in Jobs, FailJob(j) PROVE TypeOK'
  <2>1. pc' \in [Jobs -> JobPC]
    BY <1>13, <1>T DEF FailJob, Goto, TypeOK, JobPC
  <2> QED BY <1>0, <1>T, <1>13, <2>1, Zenon DEF FailJob, Goto, TypeOK, sourceVars, indexVars, requestVars,
             walkVars, budgets
<1>14. ASSUME NEW j \in Jobs, FailConnector(j) PROVE TypeOK'
  <2>1. pc' \in [Jobs -> JobPC]
    BY <1>14, <1>T DEF FailConnector, Goto, TypeOK, JobPC
  <2>2. conn' \in {"disconnected", "connected", "syncing", "error"}
    BY <1>14, <1>T DEF FailConnector, Goto, TypeOK
  <2> QED BY <1>0, <1>T, <1>14, <2>1, <2>2, Zenon DEF FailConnector, Goto, TypeOK, sourceVars, indexVars,
             requestVars, walkVars, budgets
<1>15. ASSUME NEW j \in Jobs, CompleteJob(j) PROVE TypeOK'
  <2>1. pc' \in [Jobs -> JobPC]
    BY <1>15, <1>T DEF CompleteJob, Goto, TypeOK, JobPC
  <2> QED BY <1>0, <1>T, <1>15, <2>1, Zenon DEF CompleteJob, Goto, TypeOK, sourceVars, indexVars,
             requestVars, walkVars, budgets
<1>16. ASSUME NEW j \in Jobs, CompleteConnector(j) PROVE TypeOK'
  <2>1. pc' \in [Jobs -> JobPC]
    BY <1>16, <1>T DEF CompleteConnector, Goto, TypeOK, JobPC
  <2>2. clock' \in Nat
    BY <1>16, <1>T DEF CompleteConnector, Goto, TypeOK
  <2>3. synced' \in Nat
    BY <1>16, <1>T DEF CompleteConnector, Goto, TypeOK
  <2>4. conn' \in {"disconnected", "connected", "syncing", "error"}
    BY <1>16, <1>T DEF CompleteConnector, Goto, TypeOK
  <2> QED BY <1>0, <1>T, <1>16, <2>1, <2>2, <2>3, <2>4, Zenon DEF CompleteConnector, Goto, TypeOK,
             sourceVars, indexVars, requestVars, walkVars, budgets
<1>17. ASSUME NEW j \in Jobs, ExitSync(j) PROVE TypeOK'
  <2>1. pc' \in [Jobs -> JobPC]
    BY <1>17, <1>T, BoundsAssumption, DocsAssumption DEF ExitSync, Goto, TypeOK, JobPC
  <2>2. pos' \in [Jobs -> 0..Docs]
    BY <1>17, <1>T, BoundsAssumption, DocsAssumption DEF ExitSync, Goto, TypeOK
  <2>3. from' \in [Jobs -> 0..Docs]
    BY <1>17, <1>T, BoundsAssumption, DocsAssumption DEF ExitSync, Goto, TypeOK
  <2>4. since' \in [Jobs -> Nat]
    BY <1>17, <1>T, BoundsAssumption, DocsAssumption DEF ExitSync, Goto, TypeOK
  <2>5. text' \in [Jobs -> Nat]
    BY <1>17, <1>T, BoundsAssumption, DocsAssumption DEF ExitSync, Goto, TypeOK
  <2>6. owned' \in [Jobs -> BOOLEAN]
    BY <1>17, <1>T, BoundsAssumption, DocsAssumption DEF ExitSync, Goto, TypeOK
  <2>7. ctxDone' \in [Jobs -> BOOLEAN]
    BY <1>17, <1>T, BoundsAssumption, DocsAssumption DEF ExitSync, Goto, TypeOK
  <2>8. cancelFn' \in 0..MaxJobs
    BY <1>17, BoundsAssumption DEF ExitSync, Goto, Jobs
  <2> QED BY <1>0, <1>T, <1>17, <2>1, <2>2, <2>3, <2>4, <2>5, <2>6, <2>7, <2>8, Zenon DEF ExitSync, Goto,
             TypeOK, sourceVars, indexVars, requestVars, walkVars, budgets
<1>18. ASSUME NEW d \in Files, Edit(d) PROVE TypeOK'
  <2>1. src' \in [Files -> Nat]
    BY <1>18, <1>T DEF Edit, TypeOK
  <2>2. clock' \in Nat
    BY <1>18, <1>T DEF Edit, TypeOK
  <2>3. edits' \in Nat
    BY <1>18, <1>T DEF Edit, TypeOK
  <2> QED BY <1>0, <1>T, <1>18, <2>1, <2>2, <2>3, Zenon DEF Edit, TypeOK, sourceVars, indexVars, requestVars,
             walkVars, budgets
<1>19. ASSUME CancelDelete PROVE TypeOK'
  <2>1. cancelFn' \in 0..MaxJobs
    BY <1>19, BoundsAssumption DEF CancelDelete, Jobs
  <2>2. ccp' \in {"idle", "delete", "mark", "connect"}
    BY <1>19, <1>T DEF CancelDelete, TypeOK
  <2> QED BY <1>0, <1>T, <1>19, <2>1, <2>2, Zenon DEF CancelDelete, TypeOK, sourceVars, indexVars,
             requestVars, walkVars, budgets
<1>20. ASSUME CancelJobs PROVE TypeOK'
  <2>1. ccp' \in {"idle", "delete", "mark", "connect"}
    BY <1>20, <1>T DEF CancelJobs, TypeOK
  <2> QED BY <1>0, <1>T, <1>20, <2>1, Zenon DEF CancelJobs, TypeOK, sourceVars, indexVars, requestVars,
             walkVars, budgets
<1>21. ASSUME CancelConnector PROVE TypeOK'
  <2>1. ccp' \in {"idle", "delete", "mark", "connect"}
    BY <1>21, <1>T DEF CancelConnector, TypeOK
  <2>2. conn' \in {"disconnected", "connected", "syncing", "error"}
    BY <1>21, <1>T DEF CancelConnector, TypeOK
  <2> QED BY <1>0, <1>T, <1>21, <2>1, <2>2, Zenon DEF CancelConnector, TypeOK, sourceVars, indexVars,
             requestVars, walkVars, budgets
<1>22. ASSUME CancelSignal PROVE TypeOK'
  <2>1. ctxDone' \in [Jobs -> BOOLEAN]
    BY <1>22, <1>T DEF CancelSignal, TypeOK
  <2>2. cancels' \in Nat
    BY <1>22, <1>T DEF CancelSignal, TypeOK
  <2>3. ccp' \in {"idle", "delete", "mark", "connect"}
    BY <1>22, <1>T DEF CancelSignal, TypeOK
  <2> QED BY <1>0, <1>T, <1>22, <2>1, <2>2, <2>3, Zenon DEF CancelSignal, TypeOK, sourceVars, indexVars,
             requestVars, walkVars, budgets
<1>23. ASSUME Restart PROVE TypeOK'
  <2>1. pc' \in [Jobs -> JobPC]
    BY <1>23, <1>T, BoundsAssumption, DocsAssumption DEF Restart, TypeOK, JobPC
  <2>2. pos' \in [Jobs -> 0..Docs]
    BY <1>23, <1>T, BoundsAssumption, DocsAssumption DEF Restart, TypeOK
  <2>3. from' \in [Jobs -> 0..Docs]
    BY <1>23, <1>T, BoundsAssumption, DocsAssumption DEF Restart, TypeOK
  <2>4. since' \in [Jobs -> Nat]
    BY <1>23, <1>T, BoundsAssumption, DocsAssumption DEF Restart, TypeOK
  <2>5. text' \in [Jobs -> Nat]
    BY <1>23, <1>T, BoundsAssumption, DocsAssumption DEF Restart, TypeOK
  <2>6. owned' \in [Jobs -> BOOLEAN]
    BY <1>23, <1>T, BoundsAssumption, DocsAssumption DEF Restart, TypeOK
  <2>7. ctxDone' \in [Jobs -> BOOLEAN]
    BY <1>23, <1>T, BoundsAssumption, DocsAssumption DEF Restart, TypeOK
  <2>8. restarts' \in Nat
    BY <1>23, <1>T DEF Restart, TypeOK
  <2>9. starting' \in Nat
    BY <1>23, <1>T DEF Restart, TypeOK
  <2>10. cancelFn' \in 0..MaxJobs
    BY <1>23, BoundsAssumption DEF Restart, Jobs
  <2>11. ccp' \in {"idle", "delete", "mark", "connect"}
    BY <1>23, <1>T DEF Restart, TypeOK
  <2>12. boot' \in {"idle", "due", "reset", "query"}
    BY <1>23, <1>T DEF Restart, TypeOK
  <2> QED BY <1>0, <1>T, <1>23, <2>1, <2>2, <2>3, <2>4, <2>5, <2>6, <2>7, <2>8, <2>9, <2>10, <2>11, <2>12,
             Zenon DEF Restart, TypeOK, sourceVars, indexVars, requestVars, walkVars, budgets
<1>24. ASSUME RecoverJobs PROVE TypeOK'
  <2>1. boot' \in {"idle", "due", "reset", "query"}
    BY <1>24, <1>T DEF RecoverJobs, TypeOK
  <2> QED BY <1>0, <1>T, <1>24, <2>1, Zenon DEF RecoverJobs, TypeOK, sourceVars, indexVars, requestVars,
             walkVars, budgets
<1>25. ASSUME RecoverConnector PROVE TypeOK'
  <2>1. boot' \in {"idle", "due", "reset", "query"}
    BY <1>25, <1>T DEF RecoverConnector, TypeOK
  <2>2. conn' \in {"disconnected", "connected", "syncing", "error"}
    BY <1>25, <1>T DEF RecoverConnector, TypeOK
  <2> QED BY <1>0, <1>T, <1>25, <2>1, <2>2, Zenon DEF RecoverConnector, TypeOK, sourceVars, indexVars,
             requestVars, walkVars, budgets
<1>26. ASSUME LaunchSync PROVE TypeOK'
  <2>1. pc' \in [Jobs -> JobPC]
    BY <1>26, <1>T, BoundsAssumption, DocsAssumption DEF LaunchSync, TypeOK, JobPC, Jobs
  <2>2. boot' \in {"idle", "due", "reset", "query"}
    BY <1>26, <1>T DEF LaunchSync, TypeOK
  <2> QED BY <1>0, <1>T, <1>26, <2>1, <2>2, Zenon DEF LaunchSync, TypeOK, sourceVars, indexVars, requestVars,
             walkVars, budgets
<1>27. ASSUME CreateSyncJob PROVE TypeOK'
  <2>1. pc' \in [Jobs -> JobPC]
    BY <1>27, <1>T, BoundsAssumption, DocsAssumption DEF CreateSyncJob, TypeOK, JobPC, Jobs
  <2>2. starting' \in Nat
    BY <1>27, <1>T DEF CreateSyncJob, TypeOK
  <2> QED BY <1>0, <1>T, <1>27, <2>1, <2>2, Zenon DEF CreateSyncJob, TypeOK, sourceVars, indexVars,
             requestVars, walkVars, budgets
<1>28. ASSUME SyncRequest PROVE TypeOK'
  <2>1. starting' \in Nat
    BY <1>28, <1>T DEF SyncRequest, Quiet, TypeOK
  <2>2. conn' \in {"disconnected", "connected", "syncing", "error"}
    BY <1>28, <1>T DEF SyncRequest, Quiet, TypeOK
  <2> QED BY <1>0, <1>T, <1>28, <2>1, <2>2, Zenon DEF SyncRequest, Quiet, TypeOK, sourceVars, indexVars,
             requestVars, walkVars, budgets
<1>29. ASSUME UNCHANGED vars PROVE TypeOK'
  BY <1>29, <1>T DEF TypeOK, vars, sourceVars, indexVars, requestVars, walkVars, budgets
<1> QED BY <1>1, <1>2, <1>3, <1>4, <1>5, <1>6, <1>7, <1>8, <1>9, <1>10, <1>11, <1>12, <1>13, <1>14, <1>15,
           <1>16, <1>17, <1>18, <1>19, <1>20, <1>21, <1>22, <1>23, <1>24, <1>25, <1>26, <1>27, <1>28,
           <1>29 DEF Next, JobStep, CancelStep, BootStep

\* Syncs follow one another.
LEMMA OneStep ==
  ASSUME Walk, TypeOK', [Next]_vars, RowsMove, Overlap = FALSE
  PROVE  OneAtATime'
<1>1. ASSUME NEW j \in Jobs,
             \/ LoadConnector(j) \/ LoadLastCheckpoint(j) \/ SkipResumed(j) \/ VisitFile(j) \/ EndWalk(j)
             \/ LookupDocument(j) \/ UpsertDocument(j) \/ DeleteChunks(j) \/ InsertChunks(j) \/ NoteProgress(j)
             \/ FailJob(j) \/ FailConnector(j) \/ CompleteJob(j) \/ CompleteConnector(j)
      PROVE  OneAtATime'
  <2>1. Active(j) /\ pc' = [pc EXCEPT ![j] = pc'[j]] /\ pc'[j] \in JobPC \ {"off", "announce", "store"}
    BY <1>1 DEF Walk, TypeOK, Active, JobPC, Goto, LoadConnector, LoadLastCheckpoint, SkipResumed, VisitFile,
       EndWalk, LookupDocument, UpsertDocument, DeleteChunks, InsertChunks, NoteProgress, FailJob,
       FailConnector, CompleteJob, CompleteConnector
  <2>2. UNCHANGED <<cancelFn, starting, boot, ctxDone>>
    BY <1>1 DEF requestVars, LoadConnector, LoadLastCheckpoint, SkipResumed, VisitFile, EndWalk,
       LookupDocument, UpsertDocument, DeleteChunks, InsertChunks, NoteProgress, FailJob, FailConnector,
       CompleteJob, CompleteConnector
  <2>3. \A i \in Jobs \ {j} : pos'[i] = pos[i] /\ from'[i] = from[i]
    BY <1>1 DEF Walk, TypeOK, walkVars, LoadConnector, LoadLastCheckpoint, SkipResumed, VisitFile, EndWalk,
       LookupDocument, UpsertDocument, DeleteChunks, InsertChunks, NoteProgress, FailJob, FailConnector,
       CompleteJob, CompleteConnector
  <2> QED BY <2>1, <2>2, <2>3, StillOne
<1>2. ASSUME NEW j \in Jobs, AnnounceSync(j) PROVE OneAtATime'
  BY SMTT(30), <1>2, DocsAssumption, BoundsAssumption DEF AnnounceSync, Goto, Walk, OneAtATime, Active, TypeOK,
     RowsMove, Jobs, sourceVars, indexVars, requestVars, walkVars, budgets
<1>3. ASSUME NEW j \in Jobs, RunSync(j) PROVE OneAtATime'
  <2>1. cancelFn' = j /\ pc[j] = "store" /\ pc'[j] = "load" /\ \A i \in Jobs \ {j} : pc'[i] = pc[i]
    BY <1>3 DEF RunSync, Goto, Walk, TypeOK
  <2>2. UNCHANGED <<starting, boot, ctxDone, pos, from>>
    BY <1>3 DEF RunSync, requestVars, walkVars
  <2>3. \A i \in Jobs : Active(i)' <=> Active(i)
    BY <2>1 DEF Active
  <2> QED BY <2>1, <2>2, <2>3 DEF Walk, OneAtATime, Active, RowsMove
<1>4. ASSUME NEW j \in Jobs, ExitSync(j) PROVE OneAtATime'
  BY <1>4, DocsAssumption, BoundsAssumption DEF ExitSync, Goto, Walk, OneAtATime, Active, TypeOK, RowsMove,
     Jobs, sourceVars, indexVars, requestVars, walkVars, budgets
<1>5. ASSUME NEW d \in Files, Edit(d) PROVE OneAtATime'
  BY <1>5, DocsAssumption, BoundsAssumption DEF Edit, Walk, OneAtATime, Active, TypeOK, RowsMove, Jobs,
     sourceVars, indexVars, requestVars, walkVars, budgets
<1>6. ASSUME CancelDelete PROVE OneAtATime'
  BY <1>6, DocsAssumption, BoundsAssumption DEF CancelDelete, Walk, OneAtATime, Active, TypeOK, RowsMove,
     Jobs, sourceVars, indexVars, requestVars, walkVars, budgets
<1>7. ASSUME CancelJobs PROVE OneAtATime'
  BY <1>7, Interrupted DEF CancelJobs, Walk, OneAtATime, Active, walkVars
<1>8. ASSUME CancelConnector PROVE OneAtATime'
  BY <1>8, DocsAssumption, BoundsAssumption DEF CancelConnector, Walk, OneAtATime, Active, TypeOK, RowsMove,
     Jobs, sourceVars, indexVars, requestVars, walkVars, budgets
<1>9. ASSUME CancelSignal PROVE OneAtATime'
  BY <1>9, DocsAssumption, BoundsAssumption DEF CancelSignal, Walk, OneAtATime, Active, TypeOK, RowsMove,
     Jobs, sourceVars, indexVars, requestVars, walkVars, budgets
<1>10. ASSUME Restart PROVE OneAtATime'
  BY <1>10, DocsAssumption, BoundsAssumption DEF Restart, Walk, OneAtATime, Active, TypeOK, RowsMove, Jobs,
     sourceVars, indexVars, requestVars, walkVars, budgets
<1>11. ASSUME RecoverJobs PROVE OneAtATime'
  BY <1>11, DocsAssumption, BoundsAssumption DEF RecoverJobs, Walk, OneAtATime, Active, TypeOK, RowsMove,
     Jobs, sourceVars, indexVars, requestVars, walkVars, budgets
<1>12. ASSUME RecoverConnector PROVE OneAtATime'
  BY <1>12, DocsAssumption, BoundsAssumption DEF RecoverConnector, Walk, OneAtATime, Active, TypeOK,
     RowsMove, Jobs, sourceVars, indexVars, requestVars, walkVars, budgets
<1>13. ASSUME LaunchSync PROVE OneAtATime'
  BY <1>13, DocsAssumption, BoundsAssumption DEF LaunchSync, Walk, OneAtATime, Active, TypeOK, RowsMove,
     Jobs, sourceVars, indexVars, requestVars, walkVars, budgets
<1>14. ASSUME CreateSyncJob PROVE OneAtATime'
  BY <1>14, DocsAssumption, BoundsAssumption DEF CreateSyncJob, Walk, OneAtATime, Active, TypeOK, RowsMove,
     Jobs, sourceVars, indexVars, requestVars, walkVars, budgets
<1>15. ASSUME SyncRequest PROVE OneAtATime'
  BY <1>15, DocsAssumption, BoundsAssumption DEF SyncRequest, Quiet, Walk, OneAtATime, Active, TypeOK,
     RowsMove, Jobs, sourceVars, indexVars, requestVars, walkVars, budgets
<1>16. ASSUME UNCHANGED vars PROVE OneAtATime'
  BY <1>16 DEF Walk, OneAtATime, Active, vars, sourceVars, indexVars, requestVars, walkVars, budgets
<1> QED BY <1>1, <1>2, <1>3, <1>4, <1>5, <1>6, <1>7, <1>8, <1>9, <1>10, <1>11, <1>12, <1>13, <1>14, <1>15,
           <1>16 DEF Next, JobStep, CancelStep, BootStep

\* The order of the edits, the rows and the chunks.
LEMMA OrderStep ==
  ASSUME Walk, TypeOK', [Next]_vars
  PROVE  InOrder'
<1>1. ASSUME NEW j \in Jobs, UpsertDocument(j) PROVE InOrder'
  BY <1>1 DEF UpsertDocument, Goto, Walk, InOrder, TypeOK, Cur, AtFile, Making, sourceVars, indexVars
<1>2. ASSUME NEW j \in Jobs, DeleteChunks(j) PROVE InOrder'
  BY <1>2 DEF DeleteChunks, SetChunks, Goto, Walk, InOrder, TypeOK, Cur, AtFile, Making, sourceVars, indexVars
<1>3. ASSUME NEW j \in Jobs, InsertChunks(j) PROVE InOrder'
  BY <1>3 DEF InsertChunks, SetChunks, Goto, Walk, InOrder, TypeOK, Cur, AtFile, Making, sourceVars, indexVars
<1>4. ASSUME NEW j \in Jobs, CompleteConnector(j) PROVE InOrder'
  BY <1>4 DEF CompleteConnector, Goto, Walk, InOrder, TypeOK, sourceVars, indexVars
<1>5. ASSUME NEW d \in Files, Edit(d) PROVE InOrder'
  BY <1>5 DEF Edit, Walk, InOrder, TypeOK, sourceVars, indexVars
<1>6. ASSUME NEW j \in Jobs,
             \/ AnnounceSync(j) \/ RunSync(j) \/ LoadConnector(j) \/ LoadLastCheckpoint(j)
             \/ SkipResumed(j) \/ VisitFile(j) \/ EndWalk(j) \/ LookupDocument(j) \/ NoteProgress(j)
             \/ FailJob(j) \/ FailConnector(j) \/ CompleteJob(j) \/ ExitSync(j)
      PROVE  InOrder'
  BY <1>6 DEF AnnounceSync, RunSync, LoadConnector, LoadLastCheckpoint, SkipResumed, VisitFile, EndWalk,
     LookupDocument, NoteProgress, FailJob, FailConnector, CompleteJob, ExitSync, Goto, Walk,
     InOrder, sourceVars, indexVars
<1>7. ASSUME \/ CancelDelete \/ CancelJobs \/ CancelConnector \/ CancelSignal \/ Restart \/ RecoverJobs
             \/ RecoverConnector \/ LaunchSync \/ CreateSyncJob \/ SyncRequest
      PROVE  InOrder'
  BY <1>7 DEF CancelDelete, CancelJobs, CancelConnector, CancelSignal, Restart, RecoverJobs,
     RecoverConnector, LaunchSync, CreateSyncJob, SyncRequest, Quiet, Walk, InOrder, sourceVars,
     indexVars
<1>8. ASSUME UNCHANGED vars PROVE InOrder'
  BY <1>8 DEF Walk, InOrder, vars, sourceVars, indexVars
<1> QED BY <1>1, <1>2, <1>3, <1>4, <1>5, <1>6, <1>7, <1>8 DEF Next, JobStep, CancelStep, BootStep

\* What the goroutines know of the files they are at.
LEMMA AtFileStep ==
  ASSUME Walk, TypeOK', [Next]_vars
  PROVE  \A i \in Jobs : AtFile(i)'
<1>1. ASSUME NEW j \in Jobs, AnnounceSync(j) PROVE \A i \in Jobs : AtFile(i)'
  <2>1. Active(j) /\ \A i \in Jobs \ {j} : pc'[i] = pc[i] /\ since'[i] = since[i]
    BY <1>1 DEF AnnounceSync, Goto, Active, Walk, TypeOK, walkVars
  <2>2. synced <= synced' /\ synced' \in Nat
    BY <1>1 DEF AnnounceSync, Goto, Walk, TypeOK, InOrder
  <2>3. AtFile(j)'
    BY <1>1, DocsAssumption DEF AnnounceSync, Goto, AtFile, Cur, Busy, Making, Walk, TypeOK, InOrder, Files,
       walkVars, indexVars, sourceVars
  <2> QED BY <2>1, <2>2, <2>3, OthersAtFile
<1>2. ASSUME NEW j \in Jobs, RunSync(j) PROVE \A i \in Jobs : AtFile(i)'
  <2>1. Active(j) /\ \A i \in Jobs \ {j} : pc'[i] = pc[i] /\ since'[i] = since[i]
    BY <1>2 DEF RunSync, Goto, Active, Walk, TypeOK, walkVars
  <2>2. synced <= synced' /\ synced' \in Nat
    BY <1>2 DEF RunSync, Goto, Walk, TypeOK, InOrder
  <2>3. AtFile(j)'
    BY <1>2, DocsAssumption DEF RunSync, Goto, AtFile, Cur, Busy, Making, Walk, TypeOK, InOrder, Files,
       walkVars, indexVars, sourceVars
  <2> QED BY <2>1, <2>2, <2>3, OthersAtFile
<1>3. ASSUME NEW j \in Jobs, LoadConnector(j) PROVE \A i \in Jobs : AtFile(i)'
  <2>1. Active(j) /\ \A i \in Jobs \ {j} : pc'[i] = pc[i] /\ since'[i] = since[i]
    BY <1>3 DEF LoadConnector, Goto, Active, Walk, TypeOK, walkVars
  <2>2. synced <= synced' /\ synced' \in Nat
    BY <1>3 DEF LoadConnector, Goto, Walk, TypeOK, InOrder
  <2>3. AtFile(j)'
    BY <1>3, DocsAssumption DEF LoadConnector, Goto, AtFile, Cur, Busy, Making, Walk, TypeOK, InOrder, Files,
       walkVars, indexVars, sourceVars
  <2> QED BY <2>1, <2>2, <2>3, OthersAtFile
<1>4. ASSUME NEW j \in Jobs, LoadLastCheckpoint(j) PROVE \A i \in Jobs : AtFile(i)'
  <2>1. Active(j) /\ \A i \in Jobs \ {j} : pc'[i] = pc[i] /\ since'[i] = since[i]
    BY <1>4 DEF LoadLastCheckpoint, Goto, Active, Walk, TypeOK, walkVars
  <2>2. synced <= synced' /\ synced' \in Nat
    BY <1>4 DEF LoadLastCheckpoint, Goto, Walk, TypeOK, InOrder
  <2>3. AtFile(j)'
    BY <1>4, DocsAssumption DEF LoadLastCheckpoint, Goto, AtFile, Cur, Busy, Making, Walk, TypeOK, InOrder,
       Files, walkVars, indexVars, sourceVars
  <2> QED BY <2>1, <2>2, <2>3, OthersAtFile
<1>5. ASSUME NEW j \in Jobs, SkipResumed(j) PROVE \A i \in Jobs : AtFile(i)'
  <2>1. Active(j) /\ \A i \in Jobs \ {j} : pc'[i] = pc[i] /\ since'[i] = since[i]
    BY <1>5 DEF SkipResumed, Goto, Active, Walk, TypeOK, walkVars
  <2>2. synced <= synced' /\ synced' \in Nat
    BY <1>5 DEF SkipResumed, Goto, Walk, TypeOK, InOrder
  <2>3. AtFile(j)'
    BY <1>5, DocsAssumption DEF SkipResumed, Goto, AtFile, Cur, Busy, Making, Walk, TypeOK, InOrder, Files,
       walkVars, indexVars, sourceVars
  <2> QED BY <2>1, <2>2, <2>3, OthersAtFile
<1>6. ASSUME NEW j \in Jobs, VisitFile(j) PROVE \A i \in Jobs : AtFile(i)'
  <2>1. Active(j) /\ \A i \in Jobs \ {j} : pc'[i] = pc[i] /\ since'[i] = since[i]
    BY <1>6 DEF VisitFile, Goto, Active, Walk, TypeOK, walkVars
  <2>2. synced <= synced' /\ synced' \in Nat
    BY <1>6 DEF VisitFile, Goto, Walk, TypeOK, InOrder
  <2>3. AtFile(j)'
    <3>1. pos[j] \in 0..Docs /\ pc \in [Jobs -> JobPC] /\ text \in [Jobs -> Nat] /\ since[j] \in Nat
      BY DEF Walk, TypeOK
    <3>2. Cur(j) \in Files /\ Cur(j)' = Cur(j)
      BY <1>6, <3>1, DocsAssumption DEF VisitFile, Cur, Files, walkVars
    <3>3. src[Cur(j)] \in Nat /\ doc[Cur(j)] \in Nat /\ synced \in Nat
      BY <3>2 DEF Walk, TypeOK
    <3>4. since[j] <= synced /\ 1 <= src[Cur(j)] /\ doc[Cur(j)] <= src[Cur(j)]
      BY <3>2 DEF Walk, AtFile, InOrder
    <3>5. UNCHANGED <<src, doc, chunks, since, synced, pos, ctxDone>>
      BY <1>6 DEF VisitFile, sourceVars, indexVars, walkVars
    <3>6. CASE src[Cur(j)] < since[j]
      <4>1. pc'[j] = "note" /\ synced # 0
        BY <1>6, <3>1, <3>3, <3>4, <3>6 DEF VisitFile
      <4> QED BY <3>2, <3>4, <3>5, <4>1 DEF AtFile, Busy, Making
    <3>7. CASE ~(src[Cur(j)] < since[j])
      <4>1. pc'[j] = "lookup" /\ text'[j] = src[Cur(j)]
        BY <1>6, <3>1, <3>7 DEF VisitFile
      <4> QED BY <3>2, <3>3, <3>4, <3>5, <4>1 DEF AtFile, Busy, Making
    <3> QED BY <3>6, <3>7
  <2> QED BY <2>1, <2>2, <2>3, OthersAtFile
<1>7. ASSUME NEW j \in Jobs, EndWalk(j) PROVE \A i \in Jobs : AtFile(i)'
  <2>1. Active(j) /\ \A i \in Jobs \ {j} : pc'[i] = pc[i] /\ since'[i] = since[i]
    BY <1>7 DEF EndWalk, Goto, Active, Walk, TypeOK, walkVars
  <2>2. synced <= synced' /\ synced' \in Nat
    BY <1>7 DEF EndWalk, Goto, Walk, TypeOK, InOrder
  <2>3. AtFile(j)'
    <3>1. pc'[j] \in {"complete", "fail", "exit"} /\ (pc'[j] = "complete" => pos[j] = Docs)
      BY <1>7 DEF EndWalk, Walk, TypeOK
    <3>2. UNCHANGED <<pos, since, synced>>
      BY <1>7 DEF EndWalk, walkVars
    <3> QED BY <3>1, <3>2 DEF AtFile, Busy, Making, Walk
  <2> QED BY <2>1, <2>2, <2>3, OthersAtFile
<1>8. ASSUME NEW j \in Jobs, LookupDocument(j) PROVE \A i \in Jobs : AtFile(i)'
  <2>1. Active(j) /\ \A i \in Jobs \ {j} : pc'[i] = pc[i] /\ since'[i] = since[i]
    BY <1>8 DEF LookupDocument, Goto, Active, Walk, TypeOK, walkVars
  <2>2. synced <= synced' /\ synced' \in Nat
    BY <1>8 DEF LookupDocument, Goto, Walk, TypeOK, InOrder
  <2>3. AtFile(j)'
    <3>1. pc[j] = "lookup" /\ owned'[j] = (doc[Cur(j)] # 0) /\ pc'[j] \in {"exit", "note", "upsert"}
      BY <1>8 DEF LookupDocument, Walk, TypeOK
    <3>2. UNCHANGED <<src, doc, chunks, pos, from, since, synced, text, ctxDone>> /\ Cur(j)' = Cur(j)
      BY <1>8 DEF LookupDocument, sourceVars, indexVars, Cur
    <3>3. ~ctxDone[j] => pc'[j] = IF doc[Cur(j)] = text[j] THEN "note" ELSE "upsert"
      BY <1>8 DEF LookupDocument, Walk, TypeOK
    <3>4. Cur(j) \in Files /\ since[j] <= synced /\ 1 <= text[j] /\ text[j] <= src[Cur(j)] /\ doc[Cur(j)] <= text[j]
      BY <3>1 DEF Walk, AtFile, Busy
    <3>5. doc[Cur(j)] \in Nat /\ text[j] \in Nat /\ src[Cur(j)] \in Nat
      BY <3>4 DEF Walk, TypeOK
    <3>6. owned'[j] <=> doc[Cur(j)] # 0
      BY <3>1
    <3>7. CASE ctxDone[j]
      BY <3>1, <3>2, <3>4, <3>7 DEF AtFile, Busy, Making
    <3>8. CASE ~ctxDone[j] /\ doc[Cur(j)] = text[j]
      BY <3>2, <3>3, <3>4, <3>8 DEF AtFile, Busy, Making
    <3>9. CASE ~ctxDone[j] /\ doc[Cur(j)] # text[j]
      <4>1. doc[Cur(j)] < text[j]
        BY <3>4, <3>5, <3>9
      <4> QED BY <3>2, <3>3, <3>4, <3>6, <3>9, <4>1 DEF AtFile, Busy, Making
    <3> QED BY <3>7, <3>8, <3>9
  <2> QED BY <2>1, <2>2, <2>3, OthersAtFile
<1>9. ASSUME NEW j \in Jobs, UpsertDocument(j) PROVE \A i \in Jobs : AtFile(i)'
  <2>1. Active(j) /\ \A i \in Jobs \ {j} : pc'[i] = pc[i] /\ since'[i] = since[i]
    BY <1>9 DEF UpsertDocument, Goto, Active, Walk, TypeOK, walkVars
  <2>2. synced <= synced' /\ synced' \in Nat
    BY <1>9 DEF UpsertDocument, Goto, Walk, TypeOK, InOrder
  <2>3. AtFile(j)'
    <3>1. pc[j] = "upsert" /\ pc'[j] = (IF ctxDone[j] THEN "note" ELSE "purge")
      BY <1>9 DEF UpsertDocument, Goto, Walk, TypeOK
    <3>2. UNCHANGED <<src, chunks, pos, from, since, synced, text, ctxDone>> /\ Cur(j)' = Cur(j)
      BY <1>9 DEF UpsertDocument, sourceVars, Cur
    <3>3. Cur(j) \in Files /\ since[j] <= synced /\ 1 <= text[j] /\ text[j] <= src[Cur(j)]
      BY <3>1 DEF Walk, AtFile, Busy
    <3>4. doc[Cur(j)] \in Nat /\ text[j] \in Nat /\ src[Cur(j)] \in Nat /\ chunks[Cur(j)] \in Nat
      BY <3>3 DEF Walk, TypeOK
    <3>5. CASE ctxDone[j]
      BY <3>1, <3>2, <3>3, <3>5 DEF AtFile, Busy, Making
    <3>6. CASE ~ctxDone[j]
      <4>1. doc'[Cur(j)] = text[j]
        BY <1>9, <3>3, <3>6 DEF UpsertDocument, Walk, TypeOK
      <4>2. owned'[j] = (owned[j] \/ doc[Cur(j)] = 0)
        BY <1>9 DEF UpsertDocument, Walk, TypeOK
      <4>3. doc[Cur(j)] < text[j] /\ (owned[j] <=> doc[Cur(j)] # 0) /\ chunks[Cur(j)] <= doc[Cur(j)]
        BY <3>1, <3>3, <3>6 DEF Walk, AtFile, InOrder
      <4>4. chunks[Cur(j)] < text[j]
        BY <3>4, <4>3
      <4>5. owned'[j]
        BY <4>2, <4>3
      <4> QED BY <3>1, <3>2, <3>3, <3>6, <4>1, <4>4, <4>5 DEF AtFile, Busy, Making
    <3> QED BY <3>5, <3>6
  <2> QED BY <2>1, <2>2, <2>3, OthersAtFile
<1>10. ASSUME NEW j \in Jobs, DeleteChunks(j) PROVE \A i \in Jobs : AtFile(i)'
  <2>1. Active(j) /\ \A i \in Jobs \ {j} : pc'[i] = pc[i] /\ since'[i] = since[i]
    BY <1>10 DEF DeleteChunks, SetChunks, Goto, Active, Walk, TypeOK, walkVars
  <2>2. synced <= synced' /\ synced' \in Nat
    BY <1>10 DEF DeleteChunks, SetChunks, Goto, Walk, TypeOK, InOrder
  <2>3. AtFile(j)'
    BY <1>10, DocsAssumption DEF DeleteChunks, SetChunks, Goto, AtFile, Cur, Busy, Making, Walk, TypeOK,
       InOrder, Files, walkVars, indexVars, sourceVars
  <2> QED BY <2>1, <2>2, <2>3, OthersAtFile
<1>11. ASSUME NEW j \in Jobs, InsertChunks(j) PROVE \A i \in Jobs : AtFile(i)'
  <2>1. Active(j) /\ \A i \in Jobs \ {j} : pc'[i] = pc[i] /\ since'[i] = since[i]
    BY <1>11 DEF InsertChunks, SetChunks, Goto, Active, Walk, TypeOK, walkVars
  <2>2. synced <= synced' /\ synced' \in Nat
    BY <1>11 DEF InsertChunks, SetChunks, Goto, Walk, TypeOK, InOrder
  <2>3. AtFile(j)'
    BY <1>11, DocsAssumption DEF InsertChunks, SetChunks, Goto, AtFile, Cur, Busy, Making, Walk, TypeOK,
       InOrder, Files, walkVars, indexVars, sourceVars
  <2> QED BY <2>1, <2>2, <2>3, OthersAtFile
<1>12. ASSUME NEW j \in Jobs, NoteProgress(j) PROVE \A i \in Jobs : AtFile(i)'
  <2>1. Active(j) /\ \A i \in Jobs \ {j} : pc'[i] = pc[i] /\ since'[i] = since[i]
    BY <1>12 DEF NoteProgress, Goto, Active, Walk, TypeOK, walkVars
  <2>2. synced <= synced' /\ synced' \in Nat
    BY <1>12 DEF NoteProgress, Goto, Walk, TypeOK, InOrder
  <2>3. AtFile(j)'
    BY <1>12, DocsAssumption DEF NoteProgress, Goto, AtFile, Cur, Busy, Making, Walk, TypeOK, InOrder, Files,
       walkVars, indexVars, sourceVars
  <2> QED BY <2>1, <2>2, <2>3, OthersAtFile
<1>13. ASSUME NEW j \in Jobs, FailJob(j) PROVE \A i \in Jobs : AtFile(i)'
  <2>1. Active(j) /\ \A i \in Jobs \ {j} : pc'[i] = pc[i] /\ since'[i] = since[i]
    BY <1>13 DEF FailJob, Goto, Active, Walk, TypeOK, walkVars
  <2>2. synced <= synced' /\ synced' \in Nat
    BY <1>13 DEF FailJob, Goto, Walk, TypeOK, InOrder
  <2>3. AtFile(j)'
    BY <1>13, DocsAssumption DEF FailJob, Goto, AtFile, Cur, Busy, Making, Walk, TypeOK, InOrder, Files,
       walkVars, indexVars, sourceVars
  <2> QED BY <2>1, <2>2, <2>3, OthersAtFile
<1>14. ASSUME NEW j \in Jobs, FailConnector(j) PROVE \A i \in Jobs : AtFile(i)'
  <2>1. Active(j) /\ \A i \in Jobs \ {j} : pc'[i] = pc[i] /\ since'[i] = since[i]
    BY <1>14 DEF FailConnector, Goto, Active, Walk, TypeOK, walkVars
  <2>2. synced <= synced' /\ synced' \in Nat
    BY <1>14 DEF FailConnector, Goto, Walk, TypeOK, InOrder
  <2>3. AtFile(j)'
    BY <1>14, DocsAssumption DEF FailConnector, Goto, AtFile, Cur, Busy, Making, Walk, TypeOK, InOrder,
       Files, walkVars, indexVars, sourceVars
  <2> QED BY <2>1, <2>2, <2>3, OthersAtFile
<1>15. ASSUME NEW j \in Jobs, CompleteJob(j) PROVE \A i \in Jobs : AtFile(i)'
  <2>1. Active(j) /\ \A i \in Jobs \ {j} : pc'[i] = pc[i] /\ since'[i] = since[i]
    BY <1>15 DEF CompleteJob, Goto, Active, Walk, TypeOK, walkVars
  <2>2. synced <= synced' /\ synced' \in Nat
    BY <1>15 DEF CompleteJob, Goto, Walk, TypeOK, InOrder
  <2>3. AtFile(j)'
    BY <1>15, DocsAssumption DEF CompleteJob, Goto, AtFile, Cur, Busy, Making, Walk, TypeOK, InOrder, Files,
       walkVars, indexVars, sourceVars
  <2> QED BY <2>1, <2>2, <2>3, OthersAtFile
<1>16. ASSUME NEW j \in Jobs, CompleteConnector(j) PROVE \A i \in Jobs : AtFile(i)'
  <2>1. Active(j) /\ \A i \in Jobs \ {j} : pc'[i] = pc[i] /\ since'[i] = since[i]
    BY <1>16 DEF CompleteConnector, Goto, Active, Walk, TypeOK, walkVars
  <2>2. synced <= synced' /\ synced' \in Nat
    BY <1>16 DEF CompleteConnector, Goto, Walk, TypeOK, InOrder
  <2>3. AtFile(j)'
    BY <1>16, DocsAssumption DEF CompleteConnector, Goto, AtFile, Cur, Busy, Making, Walk, TypeOK, InOrder,
       Files, walkVars, indexVars, sourceVars
  <2> QED BY <2>1, <2>2, <2>3, OthersAtFile
<1>17. ASSUME NEW j \in Jobs, ExitSync(j) PROVE \A i \in Jobs : AtFile(i)'
  <2>1. Active(j) /\ \A i \in Jobs \ {j} : pc'[i] = pc[i] /\ since'[i] = since[i]
    BY <1>17 DEF ExitSync, Goto, Active, Walk, TypeOK, walkVars
  <2>2. synced <= synced' /\ synced' \in Nat
    BY <1>17 DEF ExitSync, Goto, Walk, TypeOK, InOrder
  <2>3. AtFile(j)'
    BY <1>17, DocsAssumption DEF ExitSync, Goto, AtFile, Cur, Busy, Making, Walk, TypeOK, InOrder, Files,
       walkVars, indexVars, sourceVars
  <2> QED BY <2>1, <2>2, <2>3, OthersAtFile
<1>18. ASSUME NEW d \in Files, Edit(d) PROVE \A i \in Jobs : AtFile(i)'
  <2>1. UNCHANGED <<doc, chunks, pc, pos, from, since, text, owned, ctxDone, synced>>
    BY <1>18 DEF Edit, indexVars, walkVars
  <2>2. \A e \in Files : src[e] <= src'[e] /\ src[e] \in Nat /\ src'[e] \in Nat
    BY SMTT(30), <1>18 DEF Edit, Walk, TypeOK, InOrder
  <2>3. ASSUME NEW i \in Jobs PROVE AtFile(i)'
    <3>1. AtFile(i) /\ Cur(i)' = Cur(i) /\ text[i] \in Nat /\ text'[i] = text[i]
      BY <2>1 DEF Walk, TypeOK, Cur
    <3>2. pc[i] \in Busy /\ text[i] <= src[Cur(i)] => text[i] <= src'[Cur(i)]
      BY <2>2, <3>1 DEF AtFile
    <3> QED BY <2>1, <3>1, <3>2 DEF AtFile, Busy, Making
  <2> QED BY <2>3
<1>19. ASSUME CancelDelete PROVE \A i \in Jobs : AtFile(i)'
  BY <1>19, DocsAssumption, BoundsAssumption DEF CancelDelete, AtFile, Cur, Busy, Making, Walk, TypeOK,
     OneAtATime, Active, InOrder, Jobs, Files, walkVars, indexVars, sourceVars
<1>20. ASSUME CancelJobs PROVE \A i \in Jobs : AtFile(i)'
  BY <1>20, DocsAssumption, BoundsAssumption DEF CancelJobs, AtFile, Cur, Busy, Making, Walk, TypeOK,
     OneAtATime, Active, InOrder, Jobs, Files, walkVars, indexVars, sourceVars
<1>21. ASSUME CancelConnector PROVE \A i \in Jobs : AtFile(i)'
  BY <1>21, DocsAssumption, BoundsAssumption DEF CancelConnector, AtFile, Cur, Busy, Making, Walk, TypeOK,
     OneAtATime, Active, InOrder, Jobs, Files, walkVars, indexVars, sourceVars
<1>22. ASSUME CancelSignal PROVE \A i \in Jobs : AtFile(i)'
  BY <1>22, DocsAssumption, BoundsAssumption DEF CancelSignal, AtFile, Cur, Busy, Making, Walk, TypeOK,
     OneAtATime, Active, InOrder, Jobs, Files, walkVars, indexVars, sourceVars
<1>23. ASSUME Restart PROVE \A i \in Jobs : AtFile(i)'
  BY <1>23, DocsAssumption, BoundsAssumption DEF Restart, AtFile, Cur, Busy, Making, Walk, TypeOK,
     OneAtATime, Active, InOrder, Jobs, Files, walkVars, indexVars, sourceVars
<1>24. ASSUME RecoverJobs PROVE \A i \in Jobs : AtFile(i)'
  BY <1>24, DocsAssumption, BoundsAssumption DEF RecoverJobs, AtFile, Cur, Busy, Making, Walk, TypeOK,
     OneAtATime, Active, InOrder, Jobs, Files, walkVars, indexVars, sourceVars
<1>25. ASSUME RecoverConnector PROVE \A i \in Jobs : AtFile(i)'
  BY <1>25, DocsAssumption, BoundsAssumption DEF RecoverConnector, AtFile, Cur, Busy, Making, Walk, TypeOK,
     OneAtATime, Active, InOrder, Jobs, Files, walkVars, indexVars, sourceVars
<1>26. ASSUME LaunchSync PROVE \A i \in Jobs : AtFile(i)'
  <2>1. UNCHANGED <<src, doc, chunks, pos, from, since, text, owned, ctxDone, synced>>
    BY <1>26 DEF LaunchSync, indexVars, sourceVars, walkVars
  <2>2. ASSUME NEW i \in Jobs PROVE AtFile(i)'
    <3>1. pc'[i] \in {"off", "announce"} /\ pos[i] = 0 /\ from[i] = 0
      <4>1. pc[i] = "off" /\ pos[i] = 0 /\ from[i] = 0
        BY <1>26 DEF LaunchSync, Walk, OneAtATime, Active
      <4> QED BY <1>26, <4>1 DEF LaunchSync, Walk, TypeOK
    <3> QED BY <2>1, <3>1 DEF AtFile, Busy, Making, Walk
  <2> QED BY <2>2
<1>27. ASSUME CreateSyncJob PROVE \A i \in Jobs : AtFile(i)'
  BY <1>27, DocsAssumption, BoundsAssumption DEF CreateSyncJob, AtFile, Cur, Busy, Making, Walk, TypeOK,
     OneAtATime, Active, InOrder, Jobs, Files, walkVars, indexVars, sourceVars
<1>28. ASSUME SyncRequest PROVE \A i \in Jobs : AtFile(i)'
  BY <1>28, DocsAssumption, BoundsAssumption DEF SyncRequest, Quiet, AtFile, Cur, Busy, Making, Walk, TypeOK,
     OneAtATime, Active, InOrder, Jobs, Files, walkVars, indexVars, sourceVars
<1>29. ASSUME UNCHANGED vars PROVE \A i \in Jobs : AtFile(i)'
  BY <1>29 DEF Walk, AtFile, Cur, Busy, Making, vars, sourceVars, indexVars, requestVars, walkVars, budgets
<1> QED BY <1>1, <1>2, <1>3, <1>4, <1>5, <1>6, <1>7, <1>8, <1>9, <1>10, <1>11, <1>12, <1>13, <1>14, <1>15,
           <1>16, <1>17, <1>18, <1>19, <1>20, <1>21, <1>22, <1>23, <1>24, <1>25, <1>26, <1>27, <1>28,
           <1>29 DEF Next, JobStep, CancelStep, BootStep

\* A document is left without its chunks by a cancel or by a crash, and by nothing else.
LEMMA BrokenStep ==
  ASSUME Walk, [Next]_vars
  PROVE  BrokenMove
<1>1. ASSUME NEW j \in Jobs, UpsertDocument(j) PROVE BrokenMove
  <2>1. CASE ctxDone[j]
    <3>1. UNCHANGED <<doc, chunks, cancels, restarts, pos, ctxDone>> /\ \A i \in Jobs : Making(i)' <=> Making(i)
      BY <1>1, <2>1 DEF UpsertDocument, Goto, budgets, Making, Walk, TypeOK
    <3> QED BY <3>1, SameBroken DEF Cur
  <2>2. CASE ~ctxDone[j]
    <3>1. Making(j)' /\ ~Making(j) /\ UNCHANGED <<chunks, cancels, restarts, pos, ctxDone>>
      BY <1>1, <2>2 DEF UpsertDocument, Goto, Making, Walk, TypeOK, budgets
    <3>2. \A i \in Jobs \ {j} : ~Making(i) /\ ~Making(i)'
      <4>1. \A i \in Jobs \ {j} : pc[i] = "off" /\ pc'[i] = "off"
        BY <1>1 DEF UpsertDocument, Goto, Walk, TypeOK, OneAtATime, Active
      <4> QED BY <4>1 DEF Making
    <3>3. \A d \in Files \ {Cur(j)} : doc'[d] = doc[d]
      BY <1>1 DEF UpsertDocument, Goto, Walk, TypeOK
    <3>4. Broken' \subseteq Broken
      BY <3>1, <3>2, <3>3, <2>2 DEF Broken, Damaged, InTheMaking, Making, Cur
    <3> QED BY <3>1, <3>4 DEF BrokenMove
  <2> QED BY <2>1, <2>2
<1>2. ASSUME NEW j \in Jobs, DeleteChunks(j) PROVE BrokenMove
  <2>1. Making(j)' /\ Making(j) /\ UNCHANGED <<doc, cancels, restarts, pos, ctxDone>>
    BY <1>2 DEF DeleteChunks, SetChunks, Goto, Making, Walk, TypeOK, budgets, walkVars
  <2>2. \A i \in Jobs \ {j} : ~Making(i) /\ ~Making(i)'
    <3>1. \A i \in Jobs \ {j} : pc[i] = "off" /\ pc'[i] = "off"
      BY <1>2 DEF DeleteChunks, SetChunks, Goto, Walk, TypeOK, OneAtATime, Active
    <3> QED BY <3>1 DEF Making
  <2>3. \A d \in Files \ {Cur(j)} : chunks'[d] = chunks[d]
    BY <1>2 DEF DeleteChunks, SetChunks, Goto, Walk, TypeOK
  <2>4. Broken' \subseteq Broken
    BY <2>1, <2>2, <2>3 DEF Broken, Damaged, InTheMaking, Making, Cur
  <2> QED BY <2>1, <2>4 DEF BrokenMove
<1>3. ASSUME NEW j \in Jobs, InsertChunks(j) PROVE BrokenMove
  <2>1. ~Making(j)' /\ Making(j) /\ UNCHANGED <<doc, cancels, restarts, pos, ctxDone>>
    BY <1>3 DEF InsertChunks, SetChunks, Goto, Making, Walk, TypeOK, budgets, walkVars
  <2>2. \A i \in Jobs \ {j} : ~Making(i) /\ ~Making(i)'
    <3>1. \A i \in Jobs \ {j} : pc[i] = "off" /\ pc'[i] = "off"
      BY <1>3 DEF InsertChunks, SetChunks, Goto, Walk, TypeOK, OneAtATime, Active
    <3> QED BY <3>1 DEF Making
  <2>3. \A d \in Files \ {Cur(j)} : chunks'[d] = chunks[d]
    BY <1>3 DEF InsertChunks, SetChunks, Goto, Walk, TypeOK
  <2>4. ~ctxDone[j] => chunks'[Cur(j)] = doc'[Cur(j)]
    <3>1. Cur(j) \in Files /\ owned[j] /\ doc[Cur(j)] = text[j]
      BY <2>1 DEF Walk, AtFile, Making, Busy
    <3> QED BY <1>3, <2>1, <3>1 DEF InsertChunks, SetChunks, Goto, Walk, TypeOK
  <2>5. Broken' \subseteq Broken
    <3>1. ASSUME NEW d \in Broken' PROVE d \in Broken
      <4>1. d \in Files /\ chunks'[d] # doc'[d]
        BY <3>1, <2>1, <2>2 DEF Broken, Damaged
      <4>2. CASE d = Cur(j)
        BY <4>1, <4>2, <2>1, <2>4 DEF Broken
      <4>3. CASE d # Cur(j)
        BY <4>1, <4>3, <2>1, <2>2, <2>3 DEF Broken, Damaged, InTheMaking, Making
      <4> QED BY <4>2, <4>3
    <3> QED BY <3>1
  <2> QED BY <2>1, <2>5 DEF BrokenMove
<1>4. ASSUME NEW j \in Jobs, ExitSync(j) PROVE BrokenMove
  <2>1. UNCHANGED <<doc, chunks, cancels, restarts>>
    BY <1>4 DEF ExitSync, Goto, indexVars, budgets
  <2>2. \A i \in Jobs : /\ Making(i)' <=> Making(i)
                        /\ Making(i) => Cur(i)' = Cur(i) /\ (ctxDone'[i] => ctxDone[i])
    BY <1>4 DEF ExitSync, Goto, Making, Cur, Walk, TypeOK, walkVars, OneAtATime, Active
  <2> QED BY <2>1, <2>2, SameBroken
<1>5. ASSUME CancelSignal PROVE BrokenMove
  <2>1. UNCHANGED <<doc, chunks, pc, pos, restarts>> /\ cancels' = cancels + 1
    BY <1>5 DEF CancelSignal, indexVars, walkVars
  <2>2. \A i \in Jobs \ {cancelFn} : ctxDone'[i] = ctxDone[i]
    BY <1>5 DEF CancelSignal, Walk, TypeOK
  <2>3. Broken' \subseteq Broken \cup {Cur(cancelFn)}
    BY <2>1, <2>2 DEF Broken, Damaged, InTheMaking, Making, Cur
  <2>4. cancels' + restarts' = cancels + restarts + 1
    <3>1. cancels \in Nat /\ restarts \in Nat
      BY DEF Walk, TypeOK
    <3> QED BY <2>1, <3>1
  <2> QED BY <1>5, <2>3, <2>4 DEF BrokenMove
<1>6. ASSUME Restart PROVE BrokenMove
  <2>1. UNCHANGED <<doc, chunks, cancels>> /\ restarts' = restarts + 1 /\ \A i \in Jobs : ~Making(i)'
    BY <1>6 DEF Restart, indexVars, Making
  <2>2. Broken' \subseteq {d \in Files : chunks[d] # doc[d]}
    BY <2>1 DEF Broken, Damaged
  <2>3. \A i, k \in Jobs : Making(i) /\ Making(k) => i = k
    BY DEF Walk, OneAtATime, Active, Making
  <2>4. PICK x : \A i \in Jobs : Making(i) => Cur(i) = x
    BY <2>3
  <2>5. Broken' \subseteq Broken \cup {x}
    BY <2>2, <2>4 DEF Broken, Damaged, InTheMaking, Making
  <2>6. cancels' + restarts' = cancels + restarts + 1
    <3>1. cancels \in Nat /\ restarts \in Nat
      BY DEF Walk, TypeOK
    <3> QED BY <2>1, <3>1
  <2> QED BY <1>6, <2>5, <2>6 DEF BrokenMove
<1>7. ASSUME NEW j \in Jobs,
             \/ AnnounceSync(j) \/ RunSync(j) \/ LoadConnector(j) \/ LoadLastCheckpoint(j)
             \/ SkipResumed(j) \/ VisitFile(j) \/ EndWalk(j) \/ LookupDocument(j) \/ NoteProgress(j)
             \/ FailJob(j) \/ FailConnector(j) \/ CompleteJob(j) \/ CompleteConnector(j)
      PROVE  BrokenMove
  <2>1. UNCHANGED <<doc, chunks, cancels, restarts>>
    BY <1>7 DEF AnnounceSync, RunSync, LoadConnector, LoadLastCheckpoint, SkipResumed, VisitFile, EndWalk,
       LookupDocument, NoteProgress, FailJob, FailConnector, CompleteJob, CompleteConnector, Goto, indexVars, budgets
  <2>2. \A i \in Jobs : /\ Making(i)' <=> Making(i)
                        /\ Making(i) => Cur(i)' = Cur(i) /\ (ctxDone'[i] => ctxDone[i])
    BY <1>7 DEF AnnounceSync, RunSync, LoadConnector, LoadLastCheckpoint, SkipResumed, VisitFile, EndWalk,
       LookupDocument, NoteProgress, FailJob, FailConnector, CompleteJob, CompleteConnector, Goto, Making, Cur, Walk, TypeOK, walkVars, OneAtATime, Active
  <2> QED BY <2>1, <2>2, SameBroken
<1>8. ASSUME \/ (\E d \in Files : Edit(d)) \/ CancelDelete \/ CancelJobs \/ CancelConnector
             \/ RecoverJobs \/ RecoverConnector \/ LaunchSync \/ CreateSyncJob \/ SyncRequest
      PROVE  BrokenMove
  <2>1. UNCHANGED <<doc, chunks, cancels, restarts>>
    BY <1>8 DEF Edit, CancelDelete, CancelJobs, CancelConnector, RecoverJobs, RecoverConnector, LaunchSync,
       CreateSyncJob, SyncRequest, Quiet, indexVars, budgets
  <2>2. \A i \in Jobs : /\ Making(i)' <=> Making(i)
                        /\ Making(i) => Cur(i)' = Cur(i) /\ (ctxDone'[i] => ctxDone[i])
    BY <1>8 DEF Edit, CancelDelete, CancelJobs, CancelConnector, RecoverJobs, RecoverConnector, LaunchSync,
       CreateSyncJob, SyncRequest, Quiet, Making, Cur, Walk, TypeOK, walkVars, OneAtATime, Active
  <2> QED BY <2>1, <2>2, SameBroken
<1>9. ASSUME UNCHANGED vars PROVE BrokenMove
  BY <1>9, SameBroken DEF vars, indexVars, budgets, walkVars, Making, Cur
<1> QED BY <1>1, <1>2, <1>3, <1>4, <1>5, <1>6, <1>7, <1>8, <1>9 DEF Next, JobStep, CancelStep, BootStep

\* A walk goes on to a file that a resume skips, or to one that NoteProgress is done with.
LEMMA PosStep ==
  ASSUME Walk, [Next]_vars, NEW i \in Jobs
  PROVE  \A d \in Files : d <= pos'[i] => d <= pos[i] \/ d <= from[i] \/ (NoteProgress(i) /\ d = Cur(i))
<1>1. ASSUME NEW j \in Jobs, SkipResumed(j)
      PROVE  \A d \in Files : d <= pos'[i] => d <= pos[i] \/ d <= from[i] \/ (NoteProgress(i) /\ d = Cur(i))
  <2>1. CASE i = j
    <3>1. pos'[j] = pos[j] + 1 /\ pos[j] \in Nat /\ from[j] \in Nat /\ pos[j] + 1 <= from[j]
      BY <1>1 DEF SkipResumed, Walk, TypeOK, Cur
    <3> QED BY <2>1, <3>1 DEF Files
  <2>2. CASE i # j
    BY <1>1, <2>2 DEF SkipResumed, Walk, TypeOK
  <2> QED BY <2>1, <2>2
<1>2. ASSUME NEW j \in Jobs, NoteProgress(j)
      PROVE  \A d \in Files : d <= pos'[i] => d <= pos[i] \/ d <= from[i] \/ (NoteProgress(i) /\ d = Cur(i))
  <2>1. CASE i = j
    <3>1. pos'[j] = pos[j] + 1 /\ pos[j] \in Nat
      BY <1>2 DEF NoteProgress, Walk, TypeOK
    <3> QED BY <1>2, <2>1, <3>1 DEF Cur, Files
  <2>2. CASE i # j
    BY <1>2, <2>2 DEF NoteProgress, Walk, TypeOK
  <2> QED BY <2>1, <2>2
<1>3. ASSUME NEW j \in Jobs, ExitSync(j)
      PROVE  \A d \in Files : d <= pos'[i] => d <= pos[i] \/ d <= from[i] \/ (NoteProgress(i) /\ d = Cur(i))
  <2>1. pos'[i] = 0 \/ pos'[i] = pos[i]
    BY <1>3 DEF ExitSync, Walk, TypeOK
  <2> QED BY <2>1 DEF Files
<1>4. ASSUME Restart
      PROVE  \A d \in Files : d <= pos'[i] => d <= pos[i] \/ d <= from[i] \/ (NoteProgress(i) /\ d = Cur(i))
  <2>1. pos'[i] = 0
    BY <1>4 DEF Restart
  <2> QED BY <2>1 DEF Files
<1>5. ASSUME NEW j \in Jobs,
             \/ AnnounceSync(j) \/ RunSync(j) \/ LoadConnector(j) \/ LoadLastCheckpoint(j)
             \/ VisitFile(j) \/ EndWalk(j) \/ LookupDocument(j) \/ UpsertDocument(j) \/ DeleteChunks(j)
             \/ InsertChunks(j) \/ FailJob(j) \/ FailConnector(j) \/ CompleteJob(j)
             \/ CompleteConnector(j)
      PROVE  \A d \in Files : d <= pos'[i] => d <= pos[i] \/ d <= from[i] \/ (NoteProgress(i) /\ d = Cur(i))
  BY <1>5 DEF AnnounceSync, RunSync, LoadConnector, LoadLastCheckpoint, VisitFile, EndWalk, LookupDocument,
     UpsertDocument, DeleteChunks, SetChunks, InsertChunks, FailJob, FailConnector, CompleteJob,
     CompleteConnector, Goto, Walk, TypeOK, walkVars
<1>6. ASSUME \/ (\E d \in Files : Edit(d)) \/ CancelDelete \/ CancelJobs \/ CancelConnector
             \/ CancelSignal \/ RecoverJobs \/ RecoverConnector \/ LaunchSync \/ CreateSyncJob
             \/ SyncRequest
      PROVE  \A d \in Files : d <= pos'[i] => d <= pos[i] \/ d <= from[i] \/ (NoteProgress(i) /\ d = Cur(i))
  BY <1>6 DEF Edit, CancelDelete, CancelJobs, CancelConnector, CancelSignal, RecoverJobs, RecoverConnector,
     LaunchSync, CreateSyncJob, SyncRequest, Quiet, Walk, TypeOK, walkVars
<1>7. ASSUME UNCHANGED vars
      PROVE  \A d \in Files : d <= pos'[i] => d <= pos[i] \/ d <= from[i] \/ (NoteProgress(i) /\ d = Cur(i))
  BY <1>7 DEF vars, walkVars
<1> QED BY <1>1, <1>2, <1>3, <1>4, <1>5, <1>6, <1>7 DEF Next, JobStep, CancelStep, BootStep

\* A resume point is a checkpoint of a job.
LEMMA FromStep ==
  ASSUME Walk, [Next]_vars, NEW i \in Jobs
  PROVE  from'[i] \in {0, from[i]} \/ \E k \in DOMAIN rows : from'[i] = rows[k].cp
<1>1. ASSUME NEW j \in Jobs, LoadLastCheckpoint(j)
      PROVE  from'[i] \in {0, from[i]} \/ \E k \in DOMAIN rows : from'[i] = rows[k].cp
  BY <1>1, ResumePoint DEF Walk
<1>2. ASSUME NEW j \in Jobs,
             \/ AnnounceSync(j) \/ RunSync(j) \/ LoadConnector(j) \/ SkipResumed(j) \/ VisitFile(j)
             \/ EndWalk(j) \/ LookupDocument(j) \/ UpsertDocument(j) \/ DeleteChunks(j)
             \/ InsertChunks(j) \/ NoteProgress(j) \/ FailJob(j) \/ FailConnector(j) \/ CompleteJob(j)
             \/ CompleteConnector(j) \/ ExitSync(j)
      PROVE  from'[i] \in {0, from[i]} \/ \E k \in DOMAIN rows : from'[i] = rows[k].cp
  BY <1>2 DEF AnnounceSync, RunSync, LoadConnector, SkipResumed, VisitFile, EndWalk, LookupDocument,
     UpsertDocument, DeleteChunks, SetChunks, InsertChunks, NoteProgress, FailJob, FailConnector,
     CompleteJob, CompleteConnector, ExitSync, Goto, Walk, TypeOK, walkVars
<1>3. ASSUME \/ (\E d \in Files : Edit(d)) \/ CancelDelete \/ CancelJobs \/ CancelConnector
             \/ CancelSignal \/ Restart \/ RecoverJobs \/ RecoverConnector \/ LaunchSync
             \/ CreateSyncJob \/ SyncRequest
      PROVE  from'[i] \in {0, from[i]} \/ \E k \in DOMAIN rows : from'[i] = rows[k].cp
  BY <1>3 DEF Edit, CancelDelete, CancelJobs, CancelConnector, CancelSignal, Restart, RecoverJobs,
     RecoverConnector, LaunchSync, CreateSyncJob, SyncRequest, Quiet, Walk, TypeOK, walkVars
<1>4. ASSUME UNCHANGED vars PROVE from'[i] \in {0, from[i]} \/ \E k \in DOMAIN rows : from'[i] = rows[k].cp
  BY <1>4 DEF vars, walkVars
<1> QED BY <1>1, <1>2, <1>3, <1>4 DEF Next, JobStep, CancelStep, BootStep

\* A sync that completes has been at every file.
LEMMA SyncedStep ==
  ASSUME Walk, [Next]_vars
  PROVE  synced' = synced \/ (synced' # 0 /\ Covered = Files)
<1>1. ASSUME NEW j \in Jobs, CompleteConnector(j) PROVE synced' = synced \/ (synced' # 0 /\ Covered = Files)
  <2>1. pos[j] = Docs
    BY <1>1 DEF CompleteConnector, Goto, Walk, AtFile
  <2>2. Covered = Files
    BY <2>1, DocsAssumption DEF Covered, Files
  <2>3. synced' # 0
    BY <1>1 DEF CompleteConnector, Walk, TypeOK
  <2> QED BY <2>2, <2>3
<1>2. ASSUME NEW j \in Jobs,
             \/ AnnounceSync(j) \/ RunSync(j) \/ LoadConnector(j) \/ LoadLastCheckpoint(j)
             \/ SkipResumed(j) \/ VisitFile(j) \/ EndWalk(j) \/ LookupDocument(j) \/ UpsertDocument(j)
             \/ DeleteChunks(j) \/ InsertChunks(j) \/ NoteProgress(j) \/ FailJob(j) \/ FailConnector(j)
             \/ CompleteJob(j) \/ ExitSync(j)
      PROVE  synced' = synced \/ (synced' # 0 /\ Covered = Files)
  BY <1>2 DEF AnnounceSync, RunSync, LoadConnector, LoadLastCheckpoint, SkipResumed, VisitFile, EndWalk,
     LookupDocument, UpsertDocument, DeleteChunks, SetChunks, InsertChunks, NoteProgress, FailJob,
     FailConnector, CompleteJob, ExitSync, Goto
<1>3. ASSUME \/ (\E d \in Files : Edit(d)) \/ CancelDelete \/ CancelJobs \/ CancelConnector
             \/ CancelSignal \/ Restart \/ RecoverJobs \/ RecoverConnector \/ LaunchSync
             \/ CreateSyncJob \/ SyncRequest
      PROVE  synced' = synced \/ (synced' # 0 /\ Covered = Files)
  BY <1>3 DEF Edit, CancelDelete, CancelJobs, CancelConnector, CancelSignal, Restart, RecoverJobs,
     RecoverConnector, LaunchSync, CreateSyncJob, SyncRequest, Quiet
<1>4. ASSUME UNCHANGED vars PROVE synced' = synced \/ (synced' # 0 /\ Covered = Files)
  BY <1>4 DEF vars
<1> QED BY <1>1, <1>2, <1>3, <1>4 DEF Next, JobStep, CancelStep, BootStep

\* Chunks fall behind their file by an edit, and by nothing else.
LEMMA StaleStep ==
  ASSUME Walk, [Next]_vars, NEW e \in Files, chunks'[e] # src'[e]
  PROVE  chunks[e] # src[e] \/ (edits' = edits + 1 /\ \E d \in Files : Edit(d) /\ e = d)
<1>1. ASSUME NEW j \in Jobs, DeleteChunks(j)
      PROVE  chunks[e] # src[e] \/ (edits' = edits + 1 /\ \E d \in Files : Edit(d) /\ e = d)
  <2>1. Cur(j) \in Files /\ chunks[Cur(j)] < text[j] /\ text[j] <= src[Cur(j)]
    BY <1>1 DEF DeleteChunks, SetChunks, Goto, Walk, AtFile, Making, Busy
  <2>2. chunks[Cur(j)] \in Nat /\ text[j] \in Nat /\ src[Cur(j)] \in Nat
    BY <2>1 DEF Walk, TypeOK
  <2>3. CASE e = Cur(j)
    BY <2>1, <2>2, <2>3
  <2>4. CASE e # Cur(j)
    BY <1>1, <2>4 DEF DeleteChunks, SetChunks, Goto, sourceVars, Walk, TypeOK
  <2> QED BY <2>3, <2>4
<1>2. ASSUME NEW j \in Jobs, InsertChunks(j)
      PROVE  chunks[e] # src[e] \/ (edits' = edits + 1 /\ \E d \in Files : Edit(d) /\ e = d)
  <2>1. Cur(j) \in Files /\ chunks[Cur(j)] < text[j] /\ text[j] <= src[Cur(j)]
    BY <1>2 DEF InsertChunks, SetChunks, Goto, Walk, AtFile, Making, Busy
  <2>2. chunks[Cur(j)] \in Nat /\ text[j] \in Nat /\ src[Cur(j)] \in Nat
    BY <2>1 DEF Walk, TypeOK
  <2>3. CASE e = Cur(j)
    BY <2>1, <2>2, <2>3
  <2>4. CASE e # Cur(j)
    BY <1>2, <2>4 DEF InsertChunks, SetChunks, Goto, sourceVars, Walk, TypeOK
  <2> QED BY <2>3, <2>4
<1>3. ASSUME NEW f \in Files, Edit(f)
      PROVE  chunks[e] # src[e] \/ (edits' = edits + 1 /\ \E d \in Files : Edit(d) /\ e = d)
  <2>1. CASE e = f
    BY <1>3, <2>1 DEF Edit
  <2>2. CASE e # f
    BY <1>3, <2>2 DEF Edit, indexVars, Walk, TypeOK
  <2> QED BY <2>1, <2>2
<1>4. ASSUME NEW j \in Jobs,
             \/ AnnounceSync(j) \/ RunSync(j) \/ LoadConnector(j) \/ LoadLastCheckpoint(j)
             \/ SkipResumed(j) \/ VisitFile(j) \/ EndWalk(j) \/ LookupDocument(j) \/ UpsertDocument(j)
             \/ NoteProgress(j) \/ FailJob(j) \/ FailConnector(j) \/ CompleteJob(j)
             \/ CompleteConnector(j) \/ ExitSync(j)
      PROVE  chunks[e] # src[e] \/ (edits' = edits + 1 /\ \E d \in Files : Edit(d) /\ e = d)
  BY <1>4 DEF AnnounceSync, RunSync, LoadConnector, LoadLastCheckpoint, SkipResumed, VisitFile, EndWalk,
     LookupDocument, UpsertDocument, NoteProgress, FailJob, FailConnector, CompleteJob,
     CompleteConnector, ExitSync, Goto, sourceVars, indexVars
<1>5. ASSUME \/ CancelDelete \/ CancelJobs \/ CancelConnector \/ CancelSignal \/ Restart \/ RecoverJobs
             \/ RecoverConnector \/ LaunchSync \/ CreateSyncJob \/ SyncRequest
      PROVE  chunks[e] # src[e] \/ (edits' = edits + 1 /\ \E d \in Files : Edit(d) /\ e = d)
  BY <1>5 DEF CancelDelete, CancelJobs, CancelConnector, CancelSignal, Restart, RecoverJobs,
     RecoverConnector, LaunchSync, CreateSyncJob, SyncRequest, Quiet, sourceVars, indexVars
<1>6. ASSUME UNCHANGED vars
      PROVE  chunks[e] # src[e] \/ (edits' = edits + 1 /\ \E d \in Files : Edit(d) /\ e = d)
  BY <1>6 DEF vars, sourceVars, indexVars
<1> QED BY <1>1, <1>2, <1>3, <1>4, <1>5, <1>6 DEF Next, JobStep, CancelStep, BootStep

SlipMove(i) ==
  \/ Slips(i) /\ Cur(i)' = Cur(i)
  \/ \E d \in Files : Edit(d) /\ Cur(i)' = d
  \/ CancelSignal /\ i = cancelFn /\ Cur(i)' = Cur(cancelFn)

\* A job loses hold of the file at hand by an edit or by a cancel, and by nothing else.
LEMMA SlipStep ==
  ASSUME Walk, [Next]_vars, NEW i \in Jobs, Slips(i)', synced = 0
  PROVE  SlipMove(i)
<1>1. ASSUME NEW j \in Jobs, AnnounceSync(j) PROVE SlipMove(i)
  BY <1>1 DEF AnnounceSync, Goto, Busy, Walk, TypeOK, Cur, SlipMove, Slips, sourceVars, walkVars, OneAtATime, Active
<1>2. ASSUME NEW j \in Jobs, RunSync(j) PROVE SlipMove(i)
  BY <1>2 DEF RunSync, Goto, Busy, Walk, TypeOK, Cur, SlipMove, Slips, sourceVars, walkVars, OneAtATime, Active
<1>3. ASSUME NEW j \in Jobs, LoadConnector(j) PROVE SlipMove(i)
  BY <1>3 DEF LoadConnector, Goto, Busy, Walk, TypeOK, Cur, SlipMove, Slips, sourceVars, walkVars, OneAtATime, Active
<1>4. ASSUME NEW j \in Jobs, LoadLastCheckpoint(j) PROVE SlipMove(i)
  BY <1>4 DEF LoadLastCheckpoint, Goto, Busy, Walk, TypeOK, Cur, SlipMove, Slips, sourceVars, walkVars,
     OneAtATime, Active
<1>5. ASSUME NEW j \in Jobs, SkipResumed(j) PROVE SlipMove(i)
  BY <1>5 DEF SkipResumed, Goto, Busy, Walk, TypeOK, Cur, SlipMove, Slips, sourceVars, walkVars, OneAtATime, Active
<1>6. ASSUME NEW j \in Jobs, VisitFile(j) PROVE SlipMove(i)
  <2>1. i = j
    <3>1. i # j => pc'[i] = "off"
      BY <1>6 DEF VisitFile, Walk, TypeOK, OneAtATime, Active
    <3> QED BY <3>1 DEF Slips, Busy
  <2>2. pos[j] \in 0..Docs /\ since[j] \in Nat /\ since[j] <= synced /\ ~ctxDone[j] /\ Cur(j)' = Cur(j)
    BY <1>6 DEF VisitFile, Walk, TypeOK, AtFile, Cur
  <2>3. Cur(j) \in Files
    BY <1>6, <2>2, DocsAssumption DEF VisitFile, Cur, Files
  <2>4. src[Cur(j)] \in Nat /\ ~(src[Cur(j)] < since[j])
    BY <2>2, <2>3 DEF Walk, TypeOK
  <2>5. text'[j] = src'[Cur(j)'] /\ ~ctxDone'[j]
    BY <1>6, <2>2, <2>4 DEF VisitFile, sourceVars, Walk, TypeOK
  <2> QED BY <2>1, <2>5 DEF Slips
<1>7. ASSUME NEW j \in Jobs, EndWalk(j) PROVE SlipMove(i)
  BY <1>7 DEF EndWalk, Goto, Busy, Walk, TypeOK, Cur, SlipMove, Slips, sourceVars, walkVars, OneAtATime, Active
<1>8. ASSUME NEW j \in Jobs, LookupDocument(j) PROVE SlipMove(i)
  BY <1>8 DEF LookupDocument, Goto, Busy, Walk, TypeOK, Cur, SlipMove, Slips, sourceVars, walkVars, OneAtATime, Active
<1>9. ASSUME NEW j \in Jobs, UpsertDocument(j) PROVE SlipMove(i)
  BY <1>9 DEF UpsertDocument, Goto, Busy, Walk, TypeOK, Cur, SlipMove, Slips, sourceVars, walkVars, OneAtATime, Active
<1>10. ASSUME NEW j \in Jobs, DeleteChunks(j) PROVE SlipMove(i)
  BY <1>10 DEF DeleteChunks, SetChunks, Goto, Busy, Walk, TypeOK, Cur, SlipMove, Slips, sourceVars, walkVars,
     OneAtATime, Active
<1>11. ASSUME NEW j \in Jobs, InsertChunks(j) PROVE SlipMove(i)
  BY <1>11 DEF InsertChunks, SetChunks, Goto, Busy, Walk, TypeOK, Cur, SlipMove, Slips, sourceVars, walkVars,
     OneAtATime, Active
<1>12. ASSUME NEW j \in Jobs, NoteProgress(j) PROVE SlipMove(i)
  BY <1>12 DEF NoteProgress, Goto, Busy, Walk, TypeOK, Cur, SlipMove, Slips, sourceVars, walkVars, OneAtATime, Active
<1>13. ASSUME NEW j \in Jobs, FailJob(j) PROVE SlipMove(i)
  BY <1>13 DEF FailJob, Goto, Busy, Walk, TypeOK, Cur, SlipMove, Slips, sourceVars, walkVars, OneAtATime, Active
<1>14. ASSUME NEW j \in Jobs, FailConnector(j) PROVE SlipMove(i)
  BY <1>14 DEF FailConnector, Goto, Busy, Walk, TypeOK, Cur, SlipMove, Slips, sourceVars, walkVars, OneAtATime, Active
<1>15. ASSUME NEW j \in Jobs, CompleteJob(j) PROVE SlipMove(i)
  BY <1>15 DEF CompleteJob, Goto, Busy, Walk, TypeOK, Cur, SlipMove, Slips, sourceVars, walkVars, OneAtATime, Active
<1>16. ASSUME NEW j \in Jobs, CompleteConnector(j) PROVE SlipMove(i)
  BY <1>16 DEF CompleteConnector, Goto, Busy, Walk, TypeOK, Cur, SlipMove, Slips, sourceVars, walkVars,
     OneAtATime, Active
<1>17. ASSUME NEW j \in Jobs, ExitSync(j) PROVE SlipMove(i)
  BY <1>17 DEF ExitSync, Goto, Busy, Walk, TypeOK, Cur, SlipMove, Slips, sourceVars, walkVars, OneAtATime, Active
<1>18. ASSUME NEW d \in Files, Edit(d) PROVE SlipMove(i)
  <2>1. UNCHANGED <<pc, pos, text, ctxDone>> /\ Cur(i)' = Cur(i)
    BY <1>18 DEF Edit, walkVars, Cur
  <2>2. CASE Cur(i) = d
    BY <1>18, <2>1, <2>2 DEF SlipMove
  <2>3. CASE Cur(i) # d
    <3>1. src'[Cur(i)] = src[Cur(i)]
      BY <1>18, <2>3 DEF Edit, Walk, TypeOK
    <3> QED BY <2>1, <3>1 DEF SlipMove, Slips
  <2> QED BY <2>2, <2>3
<1>19. ASSUME CancelDelete PROVE SlipMove(i)
  BY <1>19 DEF CancelDelete, Busy, Walk, TypeOK, Cur, SlipMove, Slips, sourceVars, walkVars, OneAtATime, Active
<1>20. ASSUME CancelJobs PROVE SlipMove(i)
  BY <1>20 DEF CancelJobs, Busy, Walk, TypeOK, Cur, SlipMove, Slips, sourceVars, walkVars, OneAtATime, Active
<1>21. ASSUME CancelConnector PROVE SlipMove(i)
  BY <1>21 DEF CancelConnector, Busy, Walk, TypeOK, Cur, SlipMove, Slips, sourceVars, walkVars, OneAtATime, Active
<1>22. ASSUME CancelSignal PROVE SlipMove(i)
  BY <1>22 DEF CancelSignal, Busy, Walk, TypeOK, Cur, SlipMove, Slips, sourceVars, walkVars, OneAtATime, Active
<1>23. ASSUME Restart PROVE SlipMove(i)
  BY <1>23 DEF Restart, Busy, Walk, TypeOK, Cur, SlipMove, Slips, sourceVars, walkVars, OneAtATime, Active
<1>24. ASSUME RecoverJobs PROVE SlipMove(i)
  BY <1>24 DEF RecoverJobs, Busy, Walk, TypeOK, Cur, SlipMove, Slips, sourceVars, walkVars, OneAtATime, Active
<1>25. ASSUME RecoverConnector PROVE SlipMove(i)
  BY <1>25 DEF RecoverConnector, Busy, Walk, TypeOK, Cur, SlipMove, Slips, sourceVars, walkVars, OneAtATime, Active
<1>26. ASSUME LaunchSync PROVE SlipMove(i)
  BY <1>26 DEF LaunchSync, Busy, Walk, TypeOK, Cur, SlipMove, Slips, sourceVars, walkVars, OneAtATime, Active
<1>27. ASSUME CreateSyncJob PROVE SlipMove(i)
  BY <1>27 DEF CreateSyncJob, Busy, Walk, TypeOK, Cur, SlipMove, Slips, sourceVars, walkVars, OneAtATime, Active
<1>28. ASSUME SyncRequest PROVE SlipMove(i)
  BY <1>28 DEF SyncRequest, Quiet, Busy, Walk, TypeOK, Cur, SlipMove, Slips, sourceVars, walkVars, OneAtATime, Active
<1>29. ASSUME UNCHANGED vars PROVE SlipMove(i)
  BY <1>29 DEF vars, Busy, Cur, Slips, SlipMove, sourceVars, walkVars
<1> QED BY <1>1, <1>2, <1>3, <1>4, <1>5, <1>6, <1>7, <1>8, <1>9, <1>10, <1>11, <1>12, <1>13, <1>14, <1>15,
           <1>16, <1>17, <1>18, <1>19, <1>20, <1>21, <1>22, <1>23, <1>24, <1>25, <1>26, <1>27, <1>28,
           <1>29 DEF Next, JobStep, CancelStep, BootStep

\* What a fault has broken, or is about to break, is lost.
LEMMA BrokenIsLost == ASSUME Walk PROVE Broken \subseteq Lost
<1>1. ASSUME NEW j \in Jobs, Making(j), ctxDone[j] PROVE Cur(j) \in Lost
  <2>1. pc[j] \in Busy /\ Cur(j) \in Files
    BY <1>1 DEF Making, Busy, Walk, AtFile
  <2>2. CASE synced = 0
    BY <1>1, <2>1, <2>2 DEF Lost, Slipping, Slips
  <2>3. CASE synced # 0
    <3>1. chunks[Cur(j)] < text[j] /\ text[j] <= src[Cur(j)]
      BY <1>1 DEF Making, Walk, AtFile
    <3>2. chunks[Cur(j)] # src[Cur(j)]
      BY <2>1, <3>1 DEF Walk, TypeOK
    <3> QED BY <2>1, <2>3, <3>2 DEF Lost, Covered
  <2> QED BY <2>2, <2>3
<1> QED BY <1>1 DEF Broken, Lost

\* What the walk is done with, and is not in the index as it is in the source, was lost already.
LEMMA NotedIsLost ==
  ASSUME Walk, NEW j \in Jobs, pc[j] = "note", chunks[Cur(j)] # src[Cur(j)]
  PROVE  Cur(j) \in Lost
<1>1. Cur(j) \in Files /\ pc[j] \in Busy
  BY DEF Walk, AtFile, Busy
<1>2. CASE synced # 0
  BY <1>1, <1>2 DEF Lost, Covered
<1>3. CASE synced = 0 /\ Slips(j)
  BY <1>3 DEF Lost, Slipping
<1>4. CASE synced = 0 /\ ~Slips(j)
  <2>1. ~ctxDone[j] /\ text[j] = src[Cur(j)]
    BY <1>1, <1>4 DEF Slips
  <2>2. doc[Cur(j)] = text[j]
    BY <1>4, <2>1 DEF Walk, AtFile
  <2>3. ~InTheMaking(Cur(j))
    BY DEF Walk, OneAtATime, Active, InTheMaking
  <2> QED BY <1>1, <2>1, <2>2, <2>3 DEF Lost, Damaged
<1> QED BY <1>2, <1>3, <1>4

\* What comes to be behind a completed sync, a checkpoint or a walk is what a walk is done with.
LEMMA CoveredStep ==
  ASSUME Walk, [Next]_vars, RowsMove, NEW d \in Covered'
  PROVE  d \in Covered \/ \E j \in Jobs : NoteProgress(j) /\ d = Cur(j)
<1>1. d \in Files
  BY DEF Covered
<1>2. CASE synced' # 0
  BY <1>1, <1>2, SyncedStep DEF Covered
<1>3. ASSUME NEW j \in Jobs, d <= pos'[j]
      PROVE  d \in Covered \/ (NoteProgress(j) /\ d = Cur(j))
  <2>1. d <= pos[j] \/ d <= from[j] \/ (NoteProgress(j) /\ d = Cur(j))
    BY <1>1, <1>3, PosStep
  <2> QED BY <1>1, <2>1 DEF Covered
<1>4. ASSUME NEW j \in Jobs, d <= from'[j] PROVE d \in Covered
  <2>1. ~(d <= 0)
    BY <1>1 DEF Files
  <2>2. from'[j] \in {0, from[j]} \/ \E k \in DOMAIN rows : from'[j] = rows[k].cp
    BY FromStep
  <2> QED BY <1>1, <1>4, <2>1, <2>2 DEF Covered
<1>5. ASSUME NEW k \in DOMAIN rows', d <= rows'[k].cp
      PROVE  d \in Covered \/ \E j \in Jobs : NoteProgress(j) /\ d = Cur(j)
  <2>1. \/ k \in DOMAIN rows /\ d <= rows[k].cp
        \/ \E j \in Jobs : NoteProgress(j) /\ d <= pos'[j]
    BY <1>1, <1>5 DEF RowsMove
  <2> QED BY <1>1, <1>3, <2>1 DEF Covered
<1> QED BY <1>2, <1>3, <1>4, <1>5 DEF Covered

\* A step loses the documents X that it breaks, edits or cancels, and no others.
LEMMA LostFrom ==
  ASSUME Walk, Walk', [Next]_vars, RowsMove, NEW X, Broken' \subseteq Broken \cup X,
         \A d \in Files : Edit(d) => d \in X,
         CancelSignal => Cur(cancelFn) \in X
  PROVE  Lost' \subseteq Lost \cup X
<1>1. ASSUME NEW d \in Lost', d \notin X PROVE d \in Lost
  <2>1. CASE d \in Damaged'
    BY <1>1, <2>1, BrokenIsLost DEF Broken
  <2>2. CASE d \in Covered' /\ chunks'[d] # src'[d]
    <3>1. d \in Files
      BY <2>2 DEF Covered
    <3>2. chunks[d] # src[d]
      BY <1>1, <2>2, <3>1, StaleStep
    <3>3. CASE d \in Covered
      BY <3>2, <3>3 DEF Lost
    <3>4. ASSUME NEW j \in Jobs, NoteProgress(j), d = Cur(j) PROVE d \in Lost
      BY <3>2, <3>4, NotedIsLost DEF NoteProgress, Goto
    <3> QED BY <2>2, <3>3, <3>4, CoveredStep
  <2>3. CASE synced' = 0 /\ d \in Slipping'
    <3>1. synced = 0
      BY <2>3, SyncedStep
    <3>2. PICK i \in Jobs : Slips(i)' /\ d = Cur(i)'
      BY <2>3 DEF Slipping
    <3>3. SlipMove(i)
      BY <3>1, <3>2, SlipStep
    <3>4. Slips(i) /\ Cur(i)' = Cur(i)
      BY <1>1, <3>2, <3>3 DEF SlipMove
    <3> QED BY <3>1, <3>2, <3>4 DEF Lost, Slipping
  <2> QED BY <1>1, <2>1, <2>2, <2>3 DEF Lost
<1> QED BY <1>1

Faults == edits + cancels + restarts
LostMove ==
  \/ Lost' \subseteq Lost /\ Faults' = Faults
  \/ (\E x : Lost' \subseteq Lost \cup {x}) /\ Faults' = Faults + 1

\* A file changes with an edit only.
LEMMA EditsStep == ASSUME [Next]_vars PROVE edits' = edits \/ \E d \in Files : Edit(d)
BY DEF Next, JobStep, CancelStep, BootStep, vars, sourceVars, AnnounceSync, RunSync, LoadConnector,
   LoadLastCheckpoint, SkipResumed, VisitFile, EndWalk, LookupDocument, UpsertDocument, DeleteChunks,
   InsertChunks, NoteProgress, FailJob, FailConnector, CompleteJob, CompleteConnector, ExitSync,
   SyncRequest, CreateSyncJob, CancelSignal, CancelDelete, CancelJobs, CancelConnector, Restart,
   RecoverJobs, RecoverConnector, LaunchSync

\* A file is lost by an edit, a cancel or a restart, at most one each.
LEMMA LostStep == ASSUME Walk, Walk', [Next]_vars, RowsMove, BrokenMove PROVE LostMove
<1>0. {edits, cancels, restarts, edits', cancels', restarts'} \subseteq Nat
  BY DEF Walk, TypeOK
<1>1. CASE \E d \in Files : Edit(d)
  <2>1. PICK d \in Files : Edit(d)
    BY <1>1
  <2>2. edits' = edits + 1 /\ cancels' = cancels /\ restarts' = restarts /\ src'[d] = clock + 1
    BY <2>1 DEF Edit, budgets, Walk, TypeOK
  <2>3. \A e \in Files : Edit(e) => e \in {d}
    <3>1. ASSUME NEW e \in Files, Edit(e), e # d PROVE FALSE
      <4>1. src'[d] = src[d] /\ src[d] <= clock /\ src[d] \in Nat /\ clock \in Nat
        BY <3>1 DEF Edit, Walk, TypeOK, InOrder
      <4> QED BY <4>1, <2>2
    <3> QED BY <3>1
  <2>4. ~CancelSignal
    BY <2>2, <1>0 DEF CancelSignal
  <2>5. Broken' \subseteq Broken
    BY <2>2, <1>0 DEF BrokenMove
  <2>6. Lost' \subseteq Lost \cup {d}
    BY <2>3, <2>4, <2>5, LostFrom
  <2> QED BY <2>2, <2>6, <1>0 DEF LostMove, Faults
<1>2. CASE ~\E d \in Files : Edit(d)
  <2>1. edits' = edits
    BY <1>2, EditsStep
  <2>2. CASE Broken' \subseteq Broken /\ cancels' + restarts' = cancels + restarts
    <3>1. ~CancelSignal
      BY <2>2, <1>0 DEF CancelSignal
    <3>2. Lost' \subseteq Lost \cup {}
      BY <1>2, <2>2, <3>1, LostFrom
    <3>3. Faults' = Faults
      BY <2>1, <2>2, <1>0 DEF Faults
    <3> QED BY <3>2, <3>3 DEF LostMove
  <2>3. CASE /\ CancelSignal /\ Broken' \subseteq Broken \cup {Cur(cancelFn)}
             /\ cancels' + restarts' = cancels + restarts + 1
    <3>1. Lost' \subseteq Lost \cup {Cur(cancelFn)}
      BY <1>2, <2>3, LostFrom
    <3>2. Faults' = Faults + 1
      BY <2>1, <2>3, <1>0 DEF Faults
    <3> QED BY <3>1, <3>2 DEF LostMove
  <2>4. CASE /\ Restart /\ (\E x : Broken' \subseteq Broken \cup {x})
             /\ cancels' + restarts' = cancels + restarts + 1
    <3>1. PICK x : Broken' \subseteq Broken \cup {x}
      BY <2>4
    <3>2. ~CancelSignal
      BY <2>4, <1>0 DEF Restart, CancelSignal
    <3>3. Lost' \subseteq Lost \cup {x}
      BY <1>2, <3>1, <3>2, LostFrom
    <3>4. Faults' = Faults + 1
      BY <2>1, <2>4, <1>0 DEF Faults
    <3> QED BY <3>3, <3>4 DEF LostMove
  <2> QED BY <2>2, <2>3, <2>4 DEF BrokenMove
<1> QED BY <1>1, <1>2

-----------------------------------------------------------------------------
\* A set of files that gains at most one element is at most one larger.
LEMMA Grows ==
  ASSUME NEW S \in SUBSET Files, NEW T \in SUBSET Files, NEW x
  PROVE  /\ Cardinality(S) \in Nat
         /\ T \subseteq S => Cardinality(T) <= Cardinality(S)
         /\ T \subseteq S \cup {x} => Cardinality(T) <= Cardinality(S) + 1
<1>1. IsFiniteSet(Files)
  BY DocsAssumption, FS_Interval DEF Files
<1>2. IsFiniteSet(S) /\ IsFiniteSet(T)
  BY <1>1, FS_Subset
<1>3. Cardinality(S) \in Nat /\ Cardinality(T) \in Nat
  BY <1>2, FS_CardinalityType
<1>4. T \subseteq S => Cardinality(T) <= Cardinality(S)
  BY <1>2, FS_Subset
<1>5. ASSUME T \subseteq S \cup {x} PROVE Cardinality(T) <= Cardinality(S) + 1
  <2>1. IsFiniteSet(S \cup {x}) /\ Cardinality(S \cup {x}) \in {Cardinality(S), Cardinality(S) + 1}
    BY <1>2, FS_AddElement
  <2>2. Cardinality(T) <= Cardinality(S \cup {x})
    BY <1>5, <2>1, FS_Subset
  <2> QED BY <1>3, <2>1, <2>2
<1> QED BY <1>3, <1>4, <1>5

\* What is broken or lost is a file.
LEMMA BrokenAndLostAreFiles == Walk => Broken \subseteq Files /\ Lost \subseteq Files
<1> SUFFICES ASSUME Walk PROVE Broken \subseteq Files /\ Lost \subseteq Files
  OBVIOUS
<1>1. \A j \in Jobs : Making(j) \/ Slips(j) => Cur(j) \in Files
  BY DEF Walk, AtFile, Making, Slips, Busy
<1>2. Broken \subseteq Files
  BY <1>1 DEF Broken, Damaged
<1>3. Slipping \subseteq Files
  BY <1>1 DEF Slipping
<1> QED BY <1>2, <1>3 DEF Lost, Damaged, Covered

\* It holds before the first sync.
LEMMA SyncInit == ASSUME Init PROVE SyncInv
<1>1. TypeOK
  <2>1. rows \in Seq([status : JobStatus, cp : 0..Docs]) /\ Len(rows) <= MaxJobs
    BY BoundsAssumption DEF Init
  <2> QED BY <2>1, DocsAssumption, BoundsAssumption DEF Init, TypeOK, JobPC
<1>2. OneAtATime
  BY DEF Init, OneAtATime, Active
<1>3. InOrder
  BY DEF Init, InOrder
<1>4. \A j \in Jobs : AtFile(j)
  BY DEF Init, AtFile, Busy, Making
<1>5. Broken = {}
  BY DEF Init, Broken, Damaged, Making
<1>6. Lost = {}
  <2>1. Covered = {}
    BY DEF Init, Covered, Files
  <2> QED BY <1>5, <2>1 DEF Init, Lost, Broken, Slipping, Slips, Busy
<1>7. Cardinality(Broken) = 0 /\ Cardinality(Lost) = 0
  BY <1>5, <1>6, FS_EmptySet
<1> QED BY <1>1, <1>2, <1>3, <1>4, <1>7 DEF Init, SyncInv

\* Every step keeps it, as long as one sync runs at a time.
LEMMA SyncStep == ASSUME SyncInv, [Next]_vars, Overlap = FALSE PROVE SyncInv'
<1>1. Walk /\ Cardinality(Broken) <= cancels + restarts /\ Cardinality(Lost) <= Faults
  BY DEF SyncInv, Walk, Faults
<1>2. RowsMove
  BY <1>1, RowsStep
<1>3. Walk'
  <2>1. TypeOK'
    BY <1>1, <1>2, TypeStep
  <2> QED BY <1>1, <1>2, <2>1, OneStep, OrderStep, AtFileStep DEF Walk
<1>4. BrokenMove
  BY <1>1, BrokenStep
<1>5. LostMove
  BY <1>1, <1>2, <1>3, <1>4, LostStep
<1>6. {edits, cancels, restarts, edits', cancels', restarts'} \subseteq Nat /\ Faults \in Nat /\ Faults' \in Nat
  <2>1. {edits, cancels, restarts} \subseteq Nat
    BY <1>1 DEF Walk, TypeOK
  <2>2. {edits', cancels', restarts'} \subseteq Nat
    BY <1>3 DEF Walk, TypeOK
  <2> QED BY <2>1, <2>2 DEF Faults
<1>7. Broken \subseteq Files /\ Lost \subseteq Files /\ Broken' \subseteq Files /\ Lost' \subseteq Files
  <2>1. Walk' => (Broken \subseteq Files /\ Lost \subseteq Files)'
    BY BrokenAndLostAreFiles, PTL
  <2>2. Files' = Files
    BY DEF Files
  <2> QED BY <1>1, <1>3, <2>1, <2>2, BrokenAndLostAreFiles
<1>8. Cardinality(Broken') <= (cancels + restarts)'
  <2>1. Cardinality(Broken) \in Nat /\ Cardinality(Broken') \in Nat
    BY <1>7, Grows
  <2>2. CASE Broken' \subseteq Broken /\ cancels' + restarts' = cancels + restarts
    BY <1>1, <1>6, <1>7, <2>1, <2>2, Grows
  <2>3. CASE (\E x : Broken' \subseteq Broken \cup {x}) /\ cancels' + restarts' = cancels + restarts + 1
    <3>1. Cardinality(Broken') <= Cardinality(Broken) + 1
      BY <1>7, <2>3, Grows
    <3> QED BY <1>1, <1>6, <2>1, <2>3, <3>1
  <2> QED BY <1>4, <2>2, <2>3 DEF BrokenMove
<1>9. Cardinality(Lost') <= Faults'
  <2>1. Cardinality(Lost) \in Nat /\ Cardinality(Lost') \in Nat
    BY <1>7, Grows
  <2>2. CASE Lost' \subseteq Lost /\ Faults' = Faults
    BY <1>1, <1>6, <1>7, <2>1, <2>2, Grows
  <2>3. CASE (\E x : Lost' \subseteq Lost \cup {x}) /\ Faults' = Faults + 1
    <3>1. Cardinality(Lost') <= Cardinality(Lost) + 1
      BY <1>7, <2>3, Grows
    <3> QED BY <1>1, <1>6, <2>1, <2>3, <3>1
  <2> QED BY <1>5, <2>2, <2>3 DEF LostMove
<1> QED BY <1>3, <1>8, <1>9 DEF SyncInv, Walk, Faults

\* Syncs that follow one another (Sync has no guard; the web client offers it unless the connector
\* is shown as syncing) keep the invariant of the index.
THEOREM SyncInvariant == ASSUME Overlap = FALSE PROVE Spec => []SyncInv
<1>1. Init => SyncInv
  BY SyncInit
<1>2. SyncInv /\ [Next]_vars => SyncInv'
  BY SyncStep
<1> QED BY <1>1, <1>2, PTL DEF Spec

\* The state of a connector's syncs keeps its shape.
THEOREM SyncTypeCorrect == ASSUME Overlap = FALSE PROVE Spec => []TypeOK
<1>1. SyncInv => TypeOK
  BY DEF SyncInv
<1> QED BY <1>1, SyncInvariant, PTL

\* Only a cancel or a crash leaves a document whose hash is not the hash of its chunks
\* (pipeline.go stores the hash before the chunks), each of them at most one.
THEOREM DamageBounded == ASSUME Overlap = FALSE PROVE Spec => []DamageIsBounded
<1>1. SyncInv => DamageIsBounded
  <2>1. SUFFICES ASSUME SyncInv PROVE DamageIsBounded
    OBVIOUS
  <2>2. Damaged \subseteq Broken /\ Broken \subseteq Files
    BY <2>1, BrokenAndLostAreFiles DEF SyncInv, Walk, Broken
  <2>3. Cardinality(Damaged) <= Cardinality(Broken) /\ Cardinality(Damaged) \in Nat /\ Cardinality(Broken) \in Nat
    BY <2>2, Grows
  <2> QED BY <2>1, <2>3 DEF SyncInv, TypeOK, DamageIsBounded
<1> QED BY <1>1, SyncInvariant, PTL

\* After a completed sync, an edit, a cancel or a crash accounts for each document that cannot be
\* found as it is in the source: failures, checkpoints and resumes lose nothing.
THEOREM IndexAccountedFor == ASSUME Overlap = FALSE PROVE Spec => []IndexIsAccountedFor
<1>1. SyncInv => IndexIsAccountedFor
  <2>1. SUFFICES ASSUME SyncInv, synced # 0
        PROVE  Cardinality({d \in Files : chunks[d] # src[d]}) <= edits + cancels + restarts
    BY DEF IndexIsAccountedFor
  <2> DEFINE Stale == {d \in Files : chunks[d] # src[d]}
  <2>2. Stale \subseteq Lost /\ Stale \subseteq Files /\ Lost \subseteq Files
    BY <2>1, BrokenAndLostAreFiles DEF SyncInv, Walk, Lost, Covered
  <2> HIDE DEF Stale
  <2>3. Cardinality(Stale) <= Cardinality(Lost) /\ Cardinality(Stale) \in Nat /\ Cardinality(Lost) \in Nat
    BY <2>2, Grows
  <2>4. Cardinality(Stale) <= edits + cancels + restarts
    BY <2>1, <2>3 DEF SyncInv, TypeOK
  <2> QED BY <2>4 DEF Stale
<1> QED BY <1>1, SyncInvariant, PTL

================================================================================
