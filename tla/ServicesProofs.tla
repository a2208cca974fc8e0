----------------------------- MODULE ServicesProofs -----------------------------
(* Services around a run, for any number of actors and items: what a runner      *)
(* session has changed reaches the ticket's branch, and a review never does; what *)
(* an agent or a workflow contains is accounted for by those who asked for it;    *)
(* the resources of a tree of runs are there until its last run has ended. Last,  *)
(* the composition: the parts that TLC runs side by side behave as specified.     *)
EXTENDS MCServices, McpServersProofs, EvalsProofs, SequenceTheorems

(* --------------- SessionWork: a runner session and its branch -------------- *)

WorkPlaces == {"idle", "clone", "branch", "fetch", "diff", "strip", "claude", "sweep", "head", "push",
           "report", "over"}
WorkRow == [at : WorkPlaces, made : 0..MaxChanges, done : 0..MaxChanges, away : BOOLEAN, token : BOOLEAN,
            pushed : BOOLEAN, end : Ends \cup {"none"},
            status : {"none", "success", "budget-exceeded", "crashed"}, named : BOOLEAN]

\* A coding session's clone w, what of it has reached the branch, and whether a fault has hit it.
\* Nothing is there before Claude starts; the branch never has more than the clone; while Claude
\* has stayed on the branch and no fault has hit, the sweep leaves nothing uncommitted, and what
\* the report will name has been pushed.
CoderClone(s, w, there, hit) ==
  /\ w.at \notin {"fetch", "diff", "strip"}
  /\ w.at \in {"idle", "clone", "branch"} => w.made = 0 /\ ~w.away
  /\ w.done <= w.made /\ there <= w.done
  /\ w.pushed => w.at \in {"report", "over"} /\ there = w.done /\ (w.away \/ w.done > 0)
  /\ w.named => w.at = "over" /\ w.pushed
  /\ w.at = "push" => w.away \/ w.done > 0
  /\ w.at \in {"head", "push", "report"} /\ s \notin hit /\ ~w.away => w.done = w.made
  /\ w.at = "report" /\ s \notin hit /\ ~w.away => w.pushed \/ w.made = 0
  /\ w.at = "over" /\ s \notin hit /\ ~w.away => there = w.made /\ (w.named <=> w.made > 0)

\* A review session has no credential by the time that Claude gets a shell.
ReviewClone(w) == w.at \notin {"clone", "branch", "sweep", "head", "push"} /\ (w.at = "claude" => ~w.token)

WorkInv ==
  /\ SessionWorkTypeOK
  /\ \A s \in Coders : CoderClone(s, work[s], landed[s], unlucky)
  /\ \A s \in Reviewers : ReviewClone(work[s])
  /\ remote.by \notin Reviewers
\* A step of one session: w is its row, n what it has on the branch.
LEMMA RowStep ==
  ASSUME WorkInv, NEW s \in WorkSessions, NEW w \in WorkRow, NEW n \in 0..MaxChanges,
         work' = [work EXCEPT ![s] = w], landed' = [landed EXCEPT ![s] = n],
         remote' \in [by : WorkSessions \cup {0}, has : 0..MaxChanges], remote'.by \notin Reviewers,
         gitFaults' \in 0..MaxGitFaults, unlucky' \in {unlucky, unlucky \cup {s}},
         w.done <= w.made,
         s \in Coders => CoderClone(s, w, n, unlucky'), s \in Reviewers => ReviewClone(w)
  PROVE  WorkInv'
<1>0. SessionWorkTypeOK /\ work'[s] = w /\ landed'[s] = n
  BY DEF WorkInv, SessionWorkTypeOK
<1>1. SessionWorkTypeOK'
  BY <1>0 DEF SessionWorkTypeOK, WorkRow, WorkPlaces
<1>2. \A o \in WorkSessions \ {s} : work'[o] = work[o] /\ landed'[o] = landed[o]
        /\ (o \in unlucky' <=> o \in unlucky)
  BY <1>0 DEF SessionWorkTypeOK
<1>3. ASSUME NEW o \in Coders PROVE CoderClone(o, work'[o], landed'[o], unlucky')
  <2>1. CASE o = s
    BY <1>0, <2>1
  <2>2. CASE o # s
    BY <1>2, <2>2 DEF WorkInv, WorkSessions, CoderClone
  <2> QED BY <2>1, <2>2
<1>4. \A o \in Reviewers : ReviewClone(work'[o])
  BY <1>0, <1>2 DEF WorkInv, WorkSessions
<1> QED BY <1>1, <1>3, <1>4 DEF WorkInv, CoderClone

\* A step of a session that leaves the branch as it is, w being its row.
LEMMA LocalStep ==
  ASSUME WorkInv, NEW s \in WorkSessions, NEW w \in WorkRow, work' = [work EXCEPT ![s] = w],
         UNCHANGED <<remote, landed>>, Lucky \/ Fails(s), w.done <= w.made,
         s \in Coders => CoderClone(s, w, landed[s], unlucky'), s \in Reviewers => ReviewClone(w)
  PROVE  WorkInv'
<1>1. landed' = [landed EXCEPT ![s] = landed[s]] /\ landed[s] \in 0..MaxChanges
  BY DEF WorkInv, SessionWorkTypeOK
<1>2. /\ remote' \in [by : WorkSessions \cup {0}, has : 0..MaxChanges] /\ remote'.by \notin Reviewers
      /\ gitFaults' \in 0..MaxGitFaults /\ unlucky' \in {unlucky, unlucky \cup {s}}
  BY WorkAssumption DEF WorkInv, SessionWorkTypeOK, Lucky, Fails
<1> QED BY <1>1, <1>2, RowStep

\* Every step of a session keeps the invariant.
LEMMA ProceedStep == ASSUME WorkInv, NEW s \in WorkSessions, Proceed(s) PROVE WorkInv'
<1> DEFINE rec == work[s]
<1>0. rec \in WorkRow /\ landed[s] \in 0..MaxChanges /\ rec.done <= rec.made
  BY DEF WorkInv, SessionWorkTypeOK, WorkRow, WorkPlaces
<1>01. /\ s \in Coders => CoderClone(s, rec, landed[s], unlucky)
       /\ s \in Reviewers => ReviewClone(rec)
  BY DEF WorkInv
<1>1. ASSUME StartWork(s) PROVE WorkInv'
  BY <1>1, WorkAssumption DEF StartWork, To, Is, Lucky, WorkInv, SessionWorkTypeOK, CoderClone,
    ReviewClone, WorkSessions
<1>2. ASSUME GitFails(s) PROVE WorkInv'
  <2> DEFINE w == [rec EXCEPT !.at = "over", !.status = "crashed"]
  <2>1. w \in WorkRow /\ w.done <= w.made
    BY <1>0 DEF WorkRow, WorkPlaces
  <2>2. s \in Coders => CoderClone(s, w, landed[s], unlucky')
    BY <1>0, <1>01, <1>2, <2>1 DEF GitFails, Fails, CrashSession, Set, CoderClone, WorkRow
  <2>3. s \in Reviewers => ReviewClone(w)
    BY <1>0, <1>01, <1>2, WorkAssumption DEF GitFails, Fails, CrashSession, Set, ReviewClone, WorkRow
  <2> QED BY <1>2, <2>1, <2>2, <2>3, LocalStep DEF GitFails, Fails, CrashSession, Set
<1>3. ASSUME CloneBase(s) PROVE WorkInv'
  BY <1>3, WorkAssumption DEF CloneBase, Is, To, Lucky, WorkInv, SessionWorkTypeOK, CoderClone,
    ReviewClone, WorkSessions
<1>4. ASSUME CreateBranch(s) PROVE WorkInv'
  <2> DEFINE w == [rec EXCEPT !.at = "claude", !.token = TRUE]
  <2>1. w \in WorkRow /\ w.done <= w.made
    BY <1>0 DEF WorkRow, WorkPlaces
  <2>2. s \in Coders => CoderClone(s, w, landed[s], unlucky')
    BY <1>0, <1>01, <1>4, <2>1 DEF CreateBranch, Is, Set, Lucky, CoderClone, WorkRow
  <2>3. s \in Reviewers => ReviewClone(w)
    BY <1>0, <1>01, <1>4, WorkAssumption DEF CreateBranch, Is, Set, Lucky, ReviewClone, WorkRow
  <2> QED BY <1>4, <2>1, <2>2, <2>3, LocalStep DEF CreateBranch, Is, Set, Lucky
<1>5. ASSUME FetchHead(s) PROVE WorkInv'
  <2> DEFINE w == IF remote = Nowhere THEN [rec EXCEPT !.at = "over", !.status = "crashed"]
              ELSE [rec EXCEPT !.at = "diff", !.token = TRUE]
  <2>1. w \in WorkRow /\ w.done <= w.made
    BY <1>0 DEF WorkRow, WorkPlaces
  <2>2. s \in Coders => CoderClone(s, w, landed[s], unlucky')
    BY <1>0, <1>01, <1>5, <2>1 DEF FetchHead, Is, Set, CrashSession, Lucky, Nowhere, CoderClone, WorkRow
  <2>3. s \in Reviewers => ReviewClone(w)
    BY <1>0, <1>01, <1>5, WorkAssumption
      DEF FetchHead, Is, Set, CrashSession, Lucky, Nowhere, ReviewClone, WorkRow
  <2> QED BY <1>5, <2>1, <2>2, <2>3, LocalStep DEF FetchHead, Is, Set, CrashSession, Lucky, Nowhere
<1>6. ASSUME DiffHead(s) PROVE WorkInv'
  BY <1>6, WorkAssumption DEF DiffHead, Is, To, Lucky, WorkInv, SessionWorkTypeOK, CoderClone, ReviewClone,
    WorkSessions
<1>7. ASSUME StripToken(s) PROVE WorkInv'
  <2> DEFINE w == [rec EXCEPT !.at = "claude", !.token = FALSE]
  <2>1. w \in WorkRow /\ w.done <= w.made
    BY <1>0 DEF WorkRow, WorkPlaces
  <2>2. s \in Coders => CoderClone(s, w, landed[s], unlucky')
    BY <1>0, <1>01, <1>7, <2>1 DEF StripToken, Is, Set, Lucky, CoderClone, WorkRow
  <2>3. s \in Reviewers => ReviewClone(w)
    BY <1>0, <1>01, <1>7, WorkAssumption DEF StripToken, Is, Set, Lucky, ReviewClone, WorkRow
  <2> QED BY <1>7, <2>1, <2>2, <2>3, LocalStep DEF StripToken, Is, Set, Lucky
<1>8. ASSUME Change(s) PROVE WorkInv'
  BY <1>8, WorkAssumption DEF Change, Is, Set, Lucky, WorkInv, SessionWorkTypeOK, CoderClone, ReviewClone,
    WorkSessions
<1>9. ASSUME CommitChange(s) PROVE WorkInv'
  BY <1>9, WorkAssumption DEF CommitChange, Is, Set, Lucky, WorkInv, SessionWorkTypeOK, CoderClone,
    ReviewClone, WorkSessions
<1>10. ASSUME Leave(s) PROVE WorkInv'
  <2> DEFINE w == [rec EXCEPT !.away = TRUE]
  <2>1. w \in WorkRow /\ w.done <= w.made
    BY <1>0 DEF WorkRow, WorkPlaces
  <2>2. s \in Coders => CoderClone(s, w, landed[s], unlucky')
    BY <1>0, <1>01, <1>10, <2>1 DEF Leave, Is, Set, Lucky, CoderClone, WorkRow
  <2>3. s \in Reviewers => ReviewClone(w)
    BY <1>0, <1>01, <1>10, WorkAssumption DEF Leave, Is, Set, Lucky, ReviewClone, WorkRow
  <2> QED BY <1>10, <2>1, <2>2, <2>3, LocalStep DEF Leave, Is, Set, Lucky
<1>11. ASSUME PushByHand(s) PROVE WorkInv'
  BY <1>11, WorkAssumption DEF PushByHand, Is, Lucky, WorkInv, SessionWorkTypeOK, CoderClone, ReviewClone,
    WorkSessions
<1>12. ASSUME EndClaude(s) PROVE WorkInv'
  <2>0. PICK e \in Ends :
          work' = [work EXCEPT ![s] = [rec EXCEPT !.at = IF s \in Coders THEN "sweep" ELSE "report",
            !.end = e]]
    BY <1>12 DEF EndClaude, Set
  <2> DEFINE w == [rec EXCEPT !.at = IF s \in Coders THEN "sweep" ELSE "report", !.end = e]
  <2>1. w \in WorkRow /\ w.done <= w.made
    BY <1>0 DEF WorkRow, WorkPlaces
  <2>2. s \in Coders => CoderClone(s, w, landed[s], unlucky')
    BY <1>0, <1>01, <1>12, <2>1 DEF EndClaude, Is, Lucky, CoderClone, WorkRow
  <2>3. s \in Reviewers => ReviewClone(w)
    BY <1>0, WorkAssumption DEF ReviewClone, WorkRow
  <2> QED BY <1>12, <2>0, <2>1, <2>2, <2>3, LocalStep DEF EndClaude
<1>13. ASSUME SweepTree(s) PROVE WorkInv'
  <2> DEFINE swept == [rec EXCEPT !.at = "head", !.done = IF rec.away THEN @ ELSE rec.made]
  <2> DEFINE unswept == [rec EXCEPT !.at = "head"]
  <2>0. s \in Coders
    BY <1>13, <1>01 DEF SweepTree, Is, ReviewClone, WorkSessions
  <2>1. CASE work' = [work EXCEPT ![s] = swept] /\ Lucky
    <3>0. PICK d \in 0..MaxChanges : swept = [rec EXCEPT !.at = "head", !.done = d]
            /\ d \in {rec.done, rec.made}
      BY <1>0 DEF WorkRow
    <3>1. swept \in WorkRow /\ swept.done <= swept.made
      <4> HIDE DEF swept
      <4>1. swept \in WorkRow
        BY <1>0, <3>0 DEF WorkRow, WorkPlaces
      <4>2. swept.done = d /\ swept.made = rec.made /\ rec.made \in 0..MaxChanges
        BY <1>0, <3>0 DEF WorkRow
      <4> QED BY <1>0, <3>0, <4>1, <4>2, WorkAssumption
    <3>2. CoderClone(s, swept, landed[s], unlucky')
      BY <1>0, <1>01, <1>13, <2>0, <2>1, <3>1 DEF SweepTree, Is, Lucky, CoderClone, WorkRow
    <3> QED BY <1>13, <2>0, <2>1, <3>1, <3>2, LocalStep, WorkAssumption DEF SweepTree
  <2>2. CASE work' = [work EXCEPT ![s] = unswept] /\ Fails(s)
    <3>1. unswept \in WorkRow /\ unswept.done <= unswept.made
      BY <1>0 DEF WorkRow, WorkPlaces
    <3>2. CoderClone(s, unswept, landed[s], unlucky')
      BY <1>0, <1>01, <1>13, <2>0, <2>2, <3>1 DEF SweepTree, Is, Fails, CoderClone, WorkRow
    <3> QED BY <1>13, <2>0, <2>2, <3>1, <3>2, LocalStep, WorkAssumption DEF SweepTree
  <2>3. work' = [work EXCEPT ![s].at = "head"] => work' = [work EXCEPT ![s] = unswept]
    OBVIOUS
  <2> QED BY <1>13, <2>1, <2>2, <2>3 DEF SweepTree, Set, To
<1>14. ASSUME ReadHead(s) PROVE WorkInv'
  BY <1>14, WorkAssumption DEF ReadHead, Is, To, Lucky, Fails, Uncommitted, WorkInv, SessionWorkTypeOK,
    CoderClone, ReviewClone, WorkSessions
<1>15. ASSUME PushBranch(s) PROVE WorkInv'
  <2> DEFINE w == [rec EXCEPT !.at = "report", !.pushed = TRUE]
  <2>0. s \in Coders
    BY <1>15, <1>01 DEF PushBranch, Is, ReviewClone, WorkSessions
  <2>1. w \in WorkRow /\ w.done <= w.made /\ rec.done \in 0..MaxChanges
    BY <1>0 DEF WorkRow, WorkPlaces
  <2>2. CoderClone(s, w, rec.done, unlucky')
    BY <1>0, <1>01, <1>15, <2>0, <2>1 DEF PushBranch, Is, Lucky, CoderClone, WorkRow
  <2>3. /\ remote' \in [by : WorkSessions \cup {0}, has : 0..MaxChanges]
        /\ remote'.by \notin Reviewers
    BY <1>15, <2>0, <2>1, WorkAssumption DEF PushBranch
  <2>4. /\ work' = [work EXCEPT ![s] = w] /\ landed' = [landed EXCEPT ![s] = rec.done]
        /\ gitFaults' \in 0..MaxGitFaults /\ unlucky' = unlucky
    BY <1>15 DEF PushBranch, Set, Lucky, WorkInv, SessionWorkTypeOK
  <2> HIDE DEF w
  <2> QED BY <2>0, <2>1, <2>2, <2>3, <2>4, RowStep, WorkAssumption
<1>16. ASSUME PushFails(s) PROVE WorkInv'
  BY <1>16, WorkAssumption DEF PushFails, Is, To, Fails, WorkInv, SessionWorkTypeOK, CoderClone,
    ReviewClone, WorkSessions
<1>17. ASSUME Report(s) PROVE WorkInv'
  <2> DEFINE name == IF s \in Coders THEN rec.pushed ELSE rec.end # "killed"
  <2> DEFINE w == [rec EXCEPT !.at = "over", !.status = Outcome(rec.end), !.token = FALSE, !.end = "none",
        !.named = name]
  <2>0. Outcome(rec.end) \in {"success", "budget-exceeded", "crashed"}
    BY DEF Outcome
  <2>1. name \in BOOLEAN
    BY <1>0 DEF WorkRow
  <2>2. w \in WorkRow /\ w.done <= w.made
    <3> HIDE DEF name
    <3> QED BY <1>0, <2>0, <2>1 DEF WorkRow, WorkPlaces
  <2>3. s \in Coders => CoderClone(s, w, landed[s], unlucky')
    BY <1>0, <1>01, <1>17, <2>2 DEF Report, Is, Lucky, CoderClone, WorkRow
  <2>4. ReviewClone(w)
    BY <1>0 DEF ReviewClone, WorkRow
  <2>5. work' = [work EXCEPT ![s] = w] /\ UNCHANGED <<remote, landed>> /\ Lucky
    BY <1>17 DEF Report, Set
  <2> HIDE DEF w
  <2> QED BY <2>2, <2>3, <2>4, <2>5, LocalStep
<1> QED BY <1>1, <1>2, <1>3, <1>4, <1>5, <1>6, <1>7, <1>8, <1>9, <1>10, <1>11, <1>12, <1>13, <1>14, <1>15,
      <1>16, <1>17 DEF Proceed

\* The runner dies: its clones are gone, every session it had is hit.
LEMMA LoseRunnerStep == ASSUME WorkInv, LoseRunner PROVE WorkInv'
<1>0. SessionWorkTypeOK /\ MaxGitFaults \in Nat
  BY WorkAssumption DEF WorkInv
<1>5. ASSUME NEW s \in WorkSessions
      PROVE  work[s] \in WorkRow /\ [work[s] EXCEPT !.at = "over", !.status = "crashed"] \in WorkRow
  <2>1. work[s] \in WorkRow
    BY <1>0 DEF SessionWorkTypeOK, WorkRow, WorkPlaces
  <2> QED BY <2>1 DEF WorkRow, WorkPlaces
<1>6. work' \in [WorkSessions -> WorkRow]
  BY <1>5 DEF LoseRunner
<1>7. \A s \in WorkSessions : work'[s].done = work[s].done /\ work'[s].made = work[s].made
  BY <1>5 DEF LoseRunner, WorkRow
<1>1. SessionWorkTypeOK'
  <2>1. \A s \in WorkSessions : work'[s].done <= work'[s].made
    BY <1>0, <1>7 DEF SessionWorkTypeOK
  <2>5. gitFaults < MaxGitFaults /\ gitFaults' = gitFaults + 1
    BY DEF LoseRunner
  <2>6. gitFaults \in 0..MaxGitFaults
    BY <1>0 DEF SessionWorkTypeOK
  <2>2. gitFaults' \in 0..MaxGitFaults
    BY <1>0, <2>5, <2>6
  <2>4. unlucky' \subseteq WorkSessions
    BY <1>0 DEF LoseRunner, SessionWorkTypeOK
  <2>3. landed' = landed /\ remote' = remote
    BY DEF LoseRunner
  <2> QED BY <1>0, <1>6, <2>1, <2>2, <2>3, <2>4 DEF SessionWorkTypeOK, WorkRow, WorkPlaces
<1>2. ASSUME NEW s \in WorkSessions
      PROVE  \/ work'[s] = work[s] /\ (s \in unlucky' <=> s \in unlucky)
             \/ work'[s] = [work[s] EXCEPT !.at = "over", !.status = "crashed"] /\ s \in unlucky'
                  /\ work[s].at # "over"
  BY <1>2 DEF LoseRunner
<1>3. ASSUME NEW s \in Coders PROVE CoderClone(s, work'[s], landed'[s], unlucky')
  <2>1. CoderClone(s, work[s], landed[s], unlucky) /\ landed' = landed /\ s \in WorkSessions
          /\ work[s] \in WorkRow
    BY DEF WorkInv, LoseRunner, WorkSessions, SessionWorkTypeOK, WorkRow, WorkPlaces
  <2> QED BY <1>2, <2>1 DEF CoderClone, WorkRow
<1>4. ASSUME NEW s \in Reviewers PROVE ReviewClone(work'[s])
  <2>1. ReviewClone(work[s]) /\ s \in WorkSessions /\ work[s] \in WorkRow
    BY DEF WorkInv, WorkSessions, SessionWorkTypeOK, WorkRow, WorkPlaces
  <2> QED BY <1>2, <2>1 DEF ReviewClone, WorkRow
<1> QED BY <1>1, <1>3, <1>4 DEF WorkInv, LoseRunner

\* The inductive invariant behind WorkReachesRemote.
THEOREM WorkInvariant == SessionWorkSpec => []WorkInv
<1>1. SessionWorkInit => WorkInv
  <2> SUFFICES ASSUME SessionWorkInit PROVE WorkInv
    OBVIOUS
  <2>1. \A s \in WorkSessions : work[s] = [NewWork EXCEPT !.at = "idle"]
          \/ work[s] = [NewWork EXCEPT !.at = "over"]
    BY DEF SessionWorkInit
  <2>2. ASSUME NEW a \in {"idle", "over"} PROVE [NewWork EXCEPT !.at = a] \in WorkRow
    <3>1. NewWork \in WorkRow
      BY WorkAssumption DEF NewWork, WorkRow, WorkPlaces
    <3> QED BY <3>1 DEF WorkRow, WorkPlaces
  <2>3. SessionWorkTypeOK
    <3>1. work \in [WorkSessions -> WorkRow]
      BY <2>1, <2>2 DEF SessionWorkInit
    <3>2. \A s \in WorkSessions : work[s].done <= work[s].made
      BY <2>1 DEF NewWork
    <3> QED BY <3>1, <3>2, WorkAssumption DEF SessionWorkInit, SessionWorkTypeOK, WorkRow, WorkPlaces, Nowhere
  <2>4. \A s \in Coders : CoderClone(s, work[s], landed[s], unlucky)
    BY <2>1 DEF SessionWorkInit, CoderClone, NewWork, WorkSessions
  <2>5. \A s \in Reviewers : ReviewClone(work[s])
    BY <2>1 DEF ReviewClone, NewWork, WorkSessions
  <2> QED BY <2>3, <2>4, <2>5, WorkAssumption DEF SessionWorkInit, WorkInv, Nowhere, WorkSessions
<1>2. WorkInv /\ [SessionWorkNext]_workVars => WorkInv'
  <2>1. WorkInv /\ UNCHANGED workVars => WorkInv'
    BY DEF WorkInv, SessionWorkTypeOK, CoderClone, ReviewClone, workVars
  <2> QED BY <2>1, ProceedStep, LoseRunnerStep DEF SessionWorkNext
<1> QED BY <1>1, <1>2, PTL DEF SessionWorkSpec

\* What a session has changed is on the branch when it is over, and a result names the branch just
\* when something is there (runClaudeSession); a review writes nothing (runReviewSession).
THEOREM WorkIsPushed == SessionWorkSpec => []WorkReachesRemote
<1>1. WorkInv => WorkReachesRemote
  <2>1. ASSUME WorkInv, NEW s \in Coders, Is(s, "over"), ~work[s].away
        PROVE  /\ work[s].named => landed[s] = work[s].done /\ landed[s] > 0
               /\ s \notin unlucky => landed[s] = work[s].made /\ (work[s].named <=> work[s].made > 0)
    <3>1. CoderClone(s, work[s], landed[s], unlucky)
      BY <2>1 DEF WorkInv
    <3> QED BY <2>1, <3>1 DEF CoderClone, Is
  <2> QED BY <2>1 DEF WorkReachesRemote, WorkInv
<1> QED BY <1>1, WorkInvariant, PTL

(* -------------- AgentBuilder: who edits an agent, and when ---------------- *)

Doings == {"add", "drop", "replace", "patch", "read", "write", "row"}
Part == [do : Doings, coll : Collections \cup {"row"}, want : SUBSET Items]
\* A part that changes items names their collection.
Parts == {x \in Part : x.do \in {"add", "drop", "replace"} => x.coll \in Collections}
ChatRow == [at : {"off", "model", "tools"}, iter : 0..MaxIter, calls : 0..MaxCalls, req : Requests \cup {0}]
AgentRow == [there : BOOLEAN, edits : SUBSET Requests]
AccountRow == [want : SUBSET Items, late : SUBSET Items, gone : SUBSET Items]

\* What an open replacement (part x, having removed R) leaves behind is accounted for by what
\* came in since its DELETE, which is L.
Replacing(x, R, L) == x.do = "replace" /\ held[x.coll] \ R \subseteq x.want \cup L
HeldFor(c) ==
  /\ last[c].want \ last[c].gone \subseteq held[c]
  /\ held[c] \subseteq last[c].want \cup last[c].late

BuilderInv ==
  /\ BuilderTypeOK
  /\ parts \in [Requests -> Seq(Parts)] /\ copy \in [Requests -> AgentRow]
  /\ \A q \in Requests : state[q] = "tx" => Replacing(parts[q][1], removes[q], late[q])
  /\ HeldIsAccounted

-----------------------------------------------------------------------------
\* The parts that requests are made of.
LEMMA PartKinds ==
  /\ \A c \in Collections, S \in SUBSET Items : {Add(c, S), Drop(c, S), Replace(c, S)} \subseteq Parts
  /\ {Patch, Read, Write, Row} \subseteq Parts
BY DEF Add, Drop, Replace, Patch, Read, Write, Row, Parts, Part, Doings, Collections

\* The items a request names are items.
LEMMA ItemSets ==
  ASSUME NEW q \in Requests, NEW S \in SUBSET Names
  PROVE  Old(S) \in SUBSET Items /\ New(q, S) \in SUBSET Items
BY DEF Old, New, Items

\* A request that begins has something to do, and is in no transaction.
LEMMA StartStep ==
  ASSUME BuilderInv, NEW q \in Requests, NEW left \in Seq(Parts), left # <<>>, Start(q, left),
    chat' \in ChatRow
  PROVE  BuilderInv'
<1>1. parts' \in [Requests -> Seq(Parts)] /\ state' \in [Requests -> {"new", "open", "tx", "done", "failed"}]
  BY DEF BuilderInv, BuilderTypeOK, Start
<1>2. \A p \in Requests : state'[p] \in {"open", "tx"} <=> parts'[p] # <<>>
  BY DEF BuilderInv, BuilderTypeOK, Start
<1>3. BuilderTypeOK'
  BY <1>1, <1>2 DEF BuilderInv, BuilderTypeOK, Start, ChatRow, builderHist
<1>4. \A p \in Requests : state'[p] = "tx" => state[p] = "tx" /\ parts'[p] = parts[p]
  BY DEF BuilderInv, BuilderTypeOK, Start
<1>5. \A p \in Requests : state'[p] = "tx" => Replacing(parts[p][1], removes[p], late[p])'
  BY <1>4 DEF BuilderInv, Replacing, Start, builderHist
<1> QED
  BY <1>1, <1>3, <1>5 DEF BuilderInv, HeldIsAccounted, Start, builderHist

\* Requests of pages, native tools and the chat are made of such parts.
LEMMA Requested ==
  ASSUME BuilderInv, NEW q \in Requests, Page(q) \/ Tool(q) \/ ChatTool(q)
  PROVE  \E left \in Seq(Parts) : left # <<>> /\ Start(q, left)
<1> USE PartKinds
<1>1. ASSUME NEW x \in Parts, Start(q, <<x>>) PROVE \E left \in Seq(Parts) : left # <<>> /\ Start(q, left)
  <2>1. <<x>> \in Seq(Parts) /\ <<x>> # <<>>
    OBVIOUS
  <2> QED
    BY <1>1, <2>1
<1>2. ASSUME NEW x \in Parts, NEW y \in Parts, Start(q, <<x, y>>)
      PROVE  \E left \in Seq(Parts) : left # <<>> /\ Start(q, left)
  <2>1. <<x, y>> \in Seq(Parts) /\ <<x, y>> # <<>>
    OBVIOUS
  <2> QED
    BY <1>2, <2>1
<1>3. ASSUME NEW x \in Parts, NEW y \in Parts, NEW z \in Parts, Start(q, <<x, y, z>>)
      PROVE  \E left \in Seq(Parts) : left # <<>> /\ Start(q, left)
  <2>1. <<x, y, z>> \in Seq(Parts) /\ <<x, y, z>> # <<>>
    OBVIOUS
  <2> QED
    BY <1>3, <2>1
<1>4. \A c \in Collections, S \in SUBSET Names :
        Add(c, Old(S)) \in Parts /\ Drop(c, Old(S)) \in Parts /\ Replace(c, Old(S)) \in Parts
  BY ItemSets
<1>5. Patch \in Parts /\ Read \in Parts /\ Write \in Parts /\ Row \in Parts
  OBVIOUS
<1>6. \A S \in SUBSET Names : \A keep \in SUBSET held["nodes"] :
        Replace("nodes", keep \cup New(q, S)) \in Parts
  BY ItemSets DEF BuilderInv, BuilderTypeOK, Collections
<1>7. \A S \in SUBSET Names : Replace("nodes", New(q, S)) \in Parts
  BY ItemSets DEF Collections
<1>8. {"tools", "skills", "connectors", "nodes"} \subseteq Collections
  BY DEF Collections
<1> HIDE PartKinds
<1>9. CASE Page(q)
  <2>1. CASE Update(q) \/ Create(q)
    BY <2>1, <1>1, <1>2, <1>5 DEF Update, Create
  <2>2. CASE \E S \in SUBSET Names : SetTools(q, S) \/ SetForAgent(q, S) \/ SetConnectors(q, S)
    BY <2>2, <1>1, <1>4, <1>8 DEF SetTools, SetForAgent, SetConnectors
  <2>3. CASE \E S \in SUBSET Names : SaveGraph(q, S)
    BY <2>3, <1>1, <1>6 DEF SaveGraph
  <2> QED
    BY <1>9, <2>1, <2>2, <2>3 DEF Page
<1>10. \A n \in Names : {n} \in SUBSET Names
  OBVIOUS
<1>11. ASSUME NEW n \in Names, AttachTool(q, n) \/ DetachTool(q, n) \/ AttachSkill(q, n) \/ DetachSkill(q, n)
                              \/ AttachConnector(q, n) \/ DetachConnector(q, n)
       PROVE  \E left \in Seq(Parts) : left # <<>> /\ Start(q, left)
  <2>1. CASE AttachTool(q, n) \/ DetachTool(q, n) \/ DetachSkill(q, n) \/ DetachConnector(q, n)
    BY <2>1, <1>1, <1>4, <1>8, <1>10 DEF AttachTool, DetachTool, DetachSkill, DetachConnector
  <2>2. CASE AttachSkill(q, n) \/ AttachConnector(q, n)
    BY <2>2, <1>2, <1>4, <1>5, <1>8, <1>10 DEF AttachSkill, AttachConnector
  <2> QED
    BY <1>11, <2>1, <2>2
<1>12. CASE Tool(q)
  <2>1. CASE UpdateAgent(q)
    BY <2>1, <1>1, <1>5 DEF UpdateAgent
  <2>2. CASE \E S \in SUBSET Names : ReplaceGraph(q, S)
    BY <2>2, <1>1, <1>7 DEF ReplaceGraph
  <2> QED
    BY <1>12, <2>1, <2>2, <1>11 DEF Tool
<1>13. CASE ChatTool(q)
  <2>1. CASE \E S \in SUBSET Names : ToolAttachSkills(q, S) \/ ToolSaveGraph(q, S)
    BY <2>1, <1>1, <1>4, <1>7, <1>8 DEF ToolAttachSkills, SetForAgent, ToolSaveGraph, ReplaceGraph
  <2>2. CASE \E S \in SUBSET Names : ToolCreateAgent(q, S) \/ ToolUpdateAgent(q, S)
    BY <2>2, <1>3, <1>4, <1>5, <1>8 DEF ToolCreateAgent, ToolUpdateAgent
  <2>3. CASE \E n \in Names : \/ ToolAttachToolToAgent(q, n) \/ ToolAttachConnectorToAgent(q, n)
                              \/ ToolDetachToolFromAgent(q, n) \/ ToolDetachConnectorFromAgent(q, n)
    BY <2>3, <1>11 DEF ToolAttachToolToAgent, ToolAttachConnectorToAgent, ToolDetachToolFromAgent,
                       ToolDetachConnectorFromAgent
  <2> QED
    BY <1>13, <2>1, <2>2, <2>3 DEF ChatTool
<1> QED
  BY <1>9, <1>12, <1>13

-----------------------------------------------------------------------------
\* The request goes on with its next part, or ends: it is in no transaction any more.
LEMMA NextPartStep ==
  ASSUME BuilderInv, NEW q \in Requests, state[q] \in {"open", "tx"}, NextPart(q)
  PROVE  /\ parts' \in [Requests -> Seq(Parts)]
         /\ state' \in [Requests -> {"new", "open", "tx", "done", "failed"}]
         /\ \A p \in Requests : state'[p] \in {"open", "tx"} <=> parts'[p] # <<>>
         /\ \A p \in Requests : state'[p] = "tx" => state[p] = "tx" /\ p # q /\ parts'[p] = parts[p]
<1>1. parts[q] \in Seq(Parts) /\ parts[q] # <<>>
  BY DEF BuilderInv, BuilderTypeOK
<1>2. Tail(parts[q]) \in Seq(Parts) /\ (Len(parts[q]) = 1 <=> Tail(parts[q]) = <<>>)
  <2>1. Len(parts[q]) \in Nat /\ Tail(parts[q]) \in Seq(Parts) /\ Len(Tail(parts[q])) = Len(parts[q]) - 1
    BY <1>1, HeadTailProperties, LenProperties
  <2>2. Tail(parts[q]) = <<>> <=> Len(Tail(parts[q])) = 0
    BY <2>1, EmptySeq
  <2> QED
    BY <2>1, <2>2
<1>3. parts' = [parts EXCEPT ![q] = Tail(parts[q])]
  BY DEF NextPart
<1>4. PICK s \in {"done", "open"} : state' = [state EXCEPT ![q] = s] /\ (s = "done" <=> Len(parts[q]) = 1)
  BY DEF NextPart
<1> QED
  BY <1>1, <1>2, <1>3, <1>4 DEF BuilderInv, BuilderTypeOK

\* The first element of a sequence, and the rest of it.
LEMMA FirstElement ==
  ASSUME NEW S, NEW s \in Seq(S), s # <<>>
  PROVE  s[1] \in S
<1>1. Len(s) \in Nat
  OBVIOUS
<1>2. Len(s) # 0
  BY EmptySeq
<1> QED
  BY <1>1, <1>2, ElementOfSeq

\* The part that a request has to do next.
LEMMA FirstPart ==
  ASSUME BuilderInv, NEW q \in Requests, state[q] \in {"open", "tx"}
  PROVE  /\ parts[q][1] \in Parts /\ parts[q][1].want \in SUBSET Items
         /\ parts[q][1].do \in {"add", "drop", "replace"} => parts[q][1].coll \in Collections
<1>1. parts[q] \in Seq(Parts) /\ parts[q] # <<>>
  BY DEF BuilderInv, BuilderTypeOK
<1>2. parts[q][1] \in Parts
  BY <1>1, FirstElement
<1> QED
  BY <1>2 DEF Parts, Part

\* What is committed to a collection meets every open replacement of it.
LEMMA CommittedStep ==
  ASSUME BuilderInv, NEW c \in Collections, NEW S \in SUBSET Items, NEW H \in SUBSET Items,
         held' = [held EXCEPT ![c] = H], H \subseteq held[c] \cup S,
         NEW p \in Requests, state[p] = "tx", state'[p] = "tx", parts'[p] = parts[p],
           removes'[p] = removes[p],
         late'[p] = LateFor(c, S)[p]
  PROVE  Replacing(parts[p][1], removes[p], late[p])'
<1> DEFINE x == parts[p][1]
<1>1. Replacing(x, removes[p], late[p]) /\ x.coll \in Collections
  BY FirstPart DEF BuilderInv, Replacing
<1>2. late'[p] = IF x.coll = c THEN late[p] \cup S ELSE late[p]
  BY DEF LateFor
<1>3. held'[x.coll] = IF x.coll = c THEN H ELSE held[x.coll]
  BY <1>1 DEF BuilderInv, BuilderTypeOK
<1> QED
  BY <1>1, <1>2, <1>3 DEF Replacing

\* What has come in late is a set of items.
LEMMA LateItems ==
  ASSUME BuilderInv, NEW c, NEW S \in SUBSET Items
  PROVE  LateFor(c, S) \in [Requests -> SUBSET Items]
BY DEF BuilderInv, BuilderTypeOK, LateFor

\* The account of one collection changes with what it holds.
LEMMA AccountStep ==
  ASSUME BuilderInv, NEW c \in Collections, NEW H \in SUBSET Items, NEW a \in AccountRow,
         held' = [held EXCEPT ![c] = H], last' = [last EXCEPT ![c] = a],
         a.want \ a.gone \subseteq H, H \subseteq a.want \cup a.late
  PROVE  HeldIsAccounted' /\ held' \in [Collections -> SUBSET Items] /\ last' \in [Collections -> AccountRow]
<1>1. held \in [Collections -> SUBSET Items] /\ last \in [Collections -> AccountRow]
  BY DEF BuilderInv, BuilderTypeOK, AccountRow
<1>2. held'[c] = H /\ last'[c] = a /\ \A d \in Collections \ {c} : held'[d] = held[d] /\ last'[d] = last[d]
  BY <1>1
<1>3. HeldFor(c)'
  BY <1>2 DEF HeldFor
<1>4. \A d \in Collections \ {c} : HeldFor(d)'
  BY <1>2 DEF BuilderInv, HeldIsAccounted, HeldFor
<1>5. \A d \in Collections : HeldFor(d)'
  BY <1>3, <1>4
<1> QED
  BY <1>1, <1>5 DEF HeldIsAccounted, HeldFor

\* Items are added: the rows that nobody had asked for are accounted as late.
LEMMA InsertStep ==
  ASSUME BuilderInv, NEW q \in Requests, InsertItem(q)
  PROVE  BuilderInv'
<1> DEFINE c == parts[q][1].coll
           S == parts[q][1].want
<1>1. c \in Collections /\ S \in SUBSET Items /\ state[q] = "open"
  BY FirstPart DEF InsertItem, Doing
<1>2. NextPart(q) /\ UNCHANGED <<agentRow, removes, copy, chat>>
  BY DEF InsertItem
<1>3. CASE UNCHANGED <<held, builderHist>>
  <2>1. BuilderTypeOK'
    BY <1>1, <1>2, <1>3, NextPartStep DEF BuilderInv, BuilderTypeOK, builderHist
  <2>2. \A p \in Requests : state'[p] = "tx" => Replacing(parts[p][1], removes[p], late[p])'
    BY <1>1, <1>2, <1>3, NextPartStep DEF BuilderInv, Replacing, builderHist
  <2> QED
    BY <2>1, <2>2, <1>1, <1>2, <1>3, NextPartStep DEF BuilderInv, HeldIsAccounted, builderHist
<1>4. CASE held' = [held EXCEPT ![c] = held[c] \cup S] /\ Committed(c, S, {})
  <2>1. late' = LateFor(c, S) /\ last' = [last EXCEPT ![c].late = @ \cup S, ![c].gone = (@ \ S) \cup {}]
    BY <1>4 DEF Committed
  <2>9. held' = [held EXCEPT ![c] = held[c] \cup S]
    BY <1>4
  <2> HIDE DEF c, S
  <2>2. held[c] \cup S \in SUBSET Items /\ {} \in SUBSET Items
    BY <1>1 DEF BuilderInv, BuilderTypeOK
  <2> DEFINE a == [last[c] EXCEPT !.late = last[c].late \cup S, !.gone = last[c].gone \ S]
  <2>10. last \in [Collections -> AccountRow] /\ last[c] \in AccountRow
    BY <1>1 DEF BuilderInv, BuilderTypeOK, AccountRow
  <2>11. last' = [last EXCEPT ![c] = a]
    BY <1>1, <2>1, <2>10 DEF AccountRow
  <2>6. a \in AccountRow /\ a.want = last[c].want /\ a.late = last[c].late \cup S /\ a.gone = last[c].gone \ S
    BY <1>1, <2>10 DEF AccountRow
  <2> HIDE DEF a
  <2>7. HeldFor(c)
    BY <1>1 DEF BuilderInv, HeldIsAccounted, HeldFor
  <2>8. a.want \ a.gone \subseteq held[c] \cup S /\ held[c] \cup S \subseteq a.want \cup a.late
    BY <2>6, <2>7 DEF HeldFor
  <2>3. HeldIsAccounted' /\ held' \in [Collections -> SUBSET Items] /\ last' \in [Collections -> AccountRow]
    BY <1>1, <2>2, <2>6, <2>8, <2>9, <2>11, AccountStep
  <2>4. BuilderTypeOK'
    BY <1>1, <1>2, <2>1, <2>2, <2>3, NextPartStep, LateItems DEF BuilderInv, BuilderTypeOK, AccountRow
  <2>5. \A p \in Requests : state'[p] = "tx" => Replacing(parts[p][1], removes[p], late[p])'
    BY <1>1, <1>2, <2>1, <2>2, <2>9, NextPartStep, CommittedStep
  <2> QED
    BY <2>4, <2>5, <2>3, <1>1, <1>2, NextPartStep DEF BuilderInv
<1> QED
  BY <1>3, <1>4 DEF InsertItem

\* Items are removed: what the last replacement had asked for is accounted as gone.
LEMMA RemoveStep ==
  ASSUME BuilderInv, NEW q \in Requests, RemoveItem(q)
  PROVE  BuilderInv'
<1> DEFINE c == parts[q][1].coll
           S == parts[q][1].want
<1>1. c \in Collections /\ S \in SUBSET Items /\ state[q] = "open"
  BY FirstPart DEF RemoveItem, Doing
<1>2. NextPart(q) /\ UNCHANGED <<agentRow, removes, copy, chat>>
  BY DEF RemoveItem
<1>3. held' = [held EXCEPT ![c] = held[c] \ S] /\ late' = LateFor(c, {})
      /\ last' = [last EXCEPT ![c].late = @ \cup {}, ![c].gone = (@ \ {}) \cup S]
  BY DEF RemoveItem, Committed
<1>11. \A p \in Requests : state'[p] = "tx" => state[p] = "tx" /\ p # q /\ parts'[p] = parts[p]
  BY <1>1, <1>2, NextPartStep
<1> HIDE DEF c, S
<1>4. held[c] \ S \in SUBSET Items /\ held[c] \ S \subseteq held[c] \cup {} /\ {} \in SUBSET Items
  BY <1>1 DEF BuilderInv, BuilderTypeOK
<1> DEFINE a == [last[c] EXCEPT !.gone = last[c].gone \cup S]
<1>12. last \in [Collections -> AccountRow] /\ last[c] \in AccountRow
  BY <1>1 DEF BuilderInv, BuilderTypeOK, AccountRow
<1>13. last' = [last EXCEPT ![c] = a]
  BY <1>1, <1>3, <1>12 DEF AccountRow
<1>8. a \in AccountRow /\ a.want = last[c].want /\ a.late = last[c].late /\ a.gone = last[c].gone \cup S
  BY <1>1, <1>12 DEF AccountRow
<1> HIDE DEF a
<1>9. HeldFor(c)
  BY <1>1 DEF BuilderInv, HeldIsAccounted, HeldFor
<1>10. a.want \ a.gone \subseteq held[c] \ S /\ held[c] \ S \subseteq a.want \cup a.late
  BY <1>8, <1>9 DEF HeldFor
<1>5. HeldIsAccounted' /\ held' \in [Collections -> SUBSET Items] /\ last' \in [Collections -> AccountRow]
  BY <1>1, <1>3, <1>4, <1>8, <1>10, <1>13, AccountStep
<1>6. BuilderTypeOK'
  BY <1>1, <1>2, <1>3, <1>4, <1>5, NextPartStep, LateItems DEF BuilderInv, BuilderTypeOK, AccountRow
<1>7. \A p \in Requests : state'[p] = "tx" => Replacing(parts[p][1], removes[p], late[p])'
  BY <1>1, <1>2, <1>3, <1>4, <1>11, CommittedStep
<1> QED
  BY <1>5, <1>6, <1>7, <1>1, <1>2, NextPartStep DEF BuilderInv

\* A DELETE leaves what its replacement asks for.
LEMMA DeleteStep ==
  ASSUME BuilderInv, NEW q \in Requests, Delete(q)
  PROVE  BuilderInv'
<1> DEFINE x == parts[q][1]
<1>1. x.coll \in Collections /\ x.want \in SUBSET Items /\ x.do = "replace" /\ state[q] = "open"
  BY FirstPart DEF Delete, Doing
<1>2. held[x.coll] \in SUBSET Items
  BY <1>1 DEF BuilderInv, BuilderTypeOK
<1>3. BuilderTypeOK'
  BY <1>1, <1>2 DEF BuilderInv, BuilderTypeOK, Delete
<1>4. Replacing(parts[q][1], removes[q], late[q])'
  BY <1>1, <1>2 DEF BuilderInv, BuilderTypeOK, Delete, Replacing
<1>5. \A p \in Requests \ {q} : state'[p] = "tx" => Replacing(parts[p][1], removes[p], late[p])'
  BY DEF BuilderInv, BuilderTypeOK, Delete, Replacing
<1> QED
  BY <1>3, <1>4, <1>5 DEF BuilderInv, Delete, HeldIsAccounted

\* A replacement commits: what is not its own came in since its DELETE.
LEMMA CommitStep ==
  ASSUME BuilderInv, NEW q \in Requests, Commit(q)
  PROVE  BuilderInv'
<1> DEFINE c == parts[q][1].coll
           S == parts[q][1].want
           H == (held[c] \ removes[q]) \cup S
<1>1. state[q] = "tx" /\ Replacing(parts[q][1], removes[q], late[q])
  BY DEF BuilderInv, Commit
<1>2. c \in Collections /\ S \in SUBSET Items
  BY <1>1, FirstPart DEF Replacing
<1>3. NextPart(q) /\ UNCHANGED <<agentRow, copy, chat>> /\ removes' = [removes EXCEPT ![q] = {}]
  BY DEF Commit
<1>4. held' = [held EXCEPT ![c] = H] /\ late' = [LateFor(c, S) EXCEPT ![q] = {}]
      /\ last' = [last EXCEPT ![c] = [want |-> S, late |-> late[q], gone |-> {}]]
  BY DEF Commit, Contents
<1>5. H \in SUBSET Items /\ H \subseteq held[c] \cup S
  BY <1>2 DEF BuilderInv, BuilderTypeOK
<1>6. late' \in [Requests -> SUBSET Items] /\ removes' \in [Requests -> SUBSET Items]
      /\ \A p \in Requests \ {q} : late'[p] = LateFor(c, S)[p] /\ removes'[p] = removes[p]
  BY <1>2, <1>3, <1>4, LateItems DEF BuilderInv, BuilderTypeOK
<1>7. HeldIsAccounted' /\ held' \in [Collections -> SUBSET Items] /\ last' \in [Collections -> AccountRow]
  <2> DEFINE a == [want |-> S, late |-> late[q], gone |-> {}]
  <2>1. a \in AccountRow
    BY <1>2 DEF BuilderInv, BuilderTypeOK, AccountRow
  <2>2. a.want \ a.gone \subseteq H /\ H \subseteq a.want \cup a.late
    BY <1>1 DEF Replacing
  <2> QED
    BY <1>2, <1>4, <1>5, <2>1, <2>2, AccountStep
<1>8. BuilderTypeOK'
  BY <1>1, <1>3, <1>5, <1>6, <1>7, NextPartStep DEF BuilderInv, BuilderTypeOK, AccountRow
<1>9. \A p \in Requests : state'[p] = "tx" => Replacing(parts[p][1], removes[p], late[p])'
  <2> SUFFICES ASSUME NEW p \in Requests, state'[p] = "tx" PROVE Replacing(parts[p][1], removes[p], late[p])'
    OBVIOUS
  <2>1. state[p] = "tx" /\ p # q /\ parts'[p] = parts[p]
    BY <1>1, <1>3, NextPartStep
  <2>2. late'[p] = LateFor(c, S)[p] /\ removes'[p] = removes[p]
    BY <1>6, <2>1
  <2>3. held' = [held EXCEPT ![c] = H]
    BY <1>4
  <2> HIDE DEF c, S, H
  <2> QED
    BY <1>2, <1>5, <2>1, <2>2, <2>3, CommittedStep
<1> QED
  BY <1>7, <1>8, <1>9, <1>1, <1>3, NextPartStep DEF BuilderInv

\* A transaction that is rolled back has changed nothing.
LEMMA RollbackStep ==
  ASSUME BuilderInv, NEW q \in Requests, Rollback(q)
  PROVE  BuilderInv'
<1>1. state[q] = "tx" /\ UNCHANGED <<held, agentRow, copy, chat, last>>
      /\ removes' = [removes EXCEPT ![q] = {}] /\ late' = [late EXCEPT ![q] = {}]
  BY DEF Rollback
<1>2. /\ parts' \in [Requests -> Seq(Parts)]
      /\ state' \in [Requests -> {"new", "open", "tx", "done", "failed"}]
      /\ \A p \in Requests : state'[p] \in {"open", "tx"} <=> parts'[p] # <<>>
      /\ \A p \in Requests : state'[p] = "tx" => state[p] = "tx" /\ p # q /\ parts'[p] = parts[p]
  <2>1. CASE NextPart(q)
    BY <2>1, <1>1, NextPartStep
  <2>2. CASE parts' = [parts EXCEPT ![q] = <<>>] /\ state' = [state EXCEPT ![q] = "failed"]
    BY <2>2 DEF BuilderInv, BuilderTypeOK
  <2> QED
    BY <2>1, <2>2 DEF Rollback
<1>3. BuilderTypeOK'
  BY <1>1, <1>2 DEF BuilderInv, BuilderTypeOK
<1>4. \A p \in Requests : state'[p] = "tx" => Replacing(parts[p][1], removes[p], late[p])'
  BY <1>1, <1>2 DEF BuilderInv, BuilderTypeOK, Replacing
<1> QED
  BY <1>1, <1>2, <1>3, <1>4 DEF BuilderInv, HeldIsAccounted

\* Statements on the agent's row change no collection.
LEMMA AgentRowStep ==
  ASSUME BuilderInv, NEW q \in Requests,
    InsertRow(q) \/ OtherRow(q) \/ PatchRow(q) \/ ReadRow(q) \/ WriteRow(q)
  PROVE  BuilderInv'
<1>1. state[q] = "open" /\ UNCHANGED <<held, removes, chat, last, late>>
  BY DEF InsertRow, OtherRow, PatchRow, ReadRow, WriteRow, Doing, builderHist
<1>2. /\ parts' \in [Requests -> Seq(Parts)]
      /\ state' \in [Requests -> {"new", "open", "tx", "done", "failed"}]
      /\ \A p \in Requests : state'[p] \in {"open", "tx"} <=> parts'[p] # <<>>
      /\ \A p \in Requests : state'[p] = "tx" => state[p] = "tx" /\ p # q /\ parts'[p] = parts[p]
  <2>1. CASE NextPart(q)
    BY <2>1, <1>1, NextPartStep
  <2>2. CASE parts' = [parts EXCEPT ![q] = <<>>] /\ state' = [state EXCEPT ![q] = "done"]
    BY <2>2 DEF BuilderInv, BuilderTypeOK
  <2> QED
    BY <2>1, <2>2 DEF InsertRow, OtherRow, PatchRow, ReadRow, WriteRow
<1>3. agentRow' \in AgentRow /\ copy' \in [Requests -> AgentRow]
  <2>1. agentRow \in AgentRow /\ copy \in [Requests -> AgentRow] /\ NoAgent \in AgentRow
    BY DEF BuilderInv, BuilderTypeOK, AgentRow, NoAgent
  <2>2. CASE InsertRow(q)
    BY <2>1, <2>2 DEF InsertRow, AgentRow
  <2>4. CASE OtherRow(q) \/ ReadRow(q)
    BY <2>1, <2>4 DEF OtherRow, ReadRow
  <2>5. CASE PatchRow(q)
    BY <2>1, <2>5 DEF PatchRow, AgentRow
  <2>3. CASE WriteRow(q)
    BY <2>1, <2>3 DEF WriteRow, AgentRow
  <2> QED
    BY <2>2, <2>3, <2>4, <2>5
<1>4. BuilderTypeOK'
  BY <1>1, <1>2, <1>3 DEF BuilderInv, BuilderTypeOK, AgentRow
<1>5. \A p \in Requests : state'[p] = "tx" => Replacing(parts[p][1], removes[p], late[p])'
  BY <1>1, <1>2 DEF BuilderInv, Replacing
<1> QED
  BY <1>1, <1>2, <1>3, <1>4, <1>5 DEF BuilderInv, HeldIsAccounted

\* The chat's own steps change no row, and its request's end when the browser leaves.
LEMMA ChatStep ==
  ASSUME BuilderInv, Chat \/ Disconnect
  PROVE  BuilderInv'
<1>0. chat \in ChatRow /\ Quiet \in ChatRow
  BY BuilderAssumption DEF BuilderInv, BuilderTypeOK, ChatRow, Quiet
<1>1. CASE UNCHANGED <<held, agentRow, reqVars, builderHist>> /\ chat' \in ChatRow
  BY <1>1 DEF BuilderInv, BuilderTypeOK, HeldIsAccounted, Replacing, reqVars, builderHist, ChatRow
<1>2. ASSUME NEW n \in 0..MaxCalls, Complete(n) PROVE BuilderInv'
  <2>1. chat' \in ChatRow
    <3>1. chat.iter + 1 \in 0..MaxIter /\ 0 \in 0..MaxIter
      BY <1>0, <1>2, BuilderAssumption DEF Complete, Stuck, ChatRow
    <3>2. PICK a \in {"off", "tools"}, i \in 0..MaxIter : chat' = [chat EXCEPT !.at = a, !.calls = n,
            !.iter = i]
      BY <1>2, <3>1 DEF Complete
    <3> QED
      BY <1>0, <1>2, <3>2 DEF ChatRow
  <2> QED
    BY <1>1, <1>2, <2>1 DEF Complete
<1>3. CASE GiveUp \/ ExecuteOther \/ AppendResult \/ NextRound
  <2>1. chat' \in ChatRow
    BY <1>0, <1>3, BuilderAssumption DEF GiveUp, ExecuteOther, AppendResult, NextRound, ChatRow
  <2> QED
    BY <1>1, <1>3, <2>1 DEF GiveUp, ExecuteOther, AppendResult, NextRound
<1>4. ASSUME NEW q \in Requests, ExecuteTool(q) PROVE BuilderInv'
  <2>2. chat.calls - 1 \in 0..MaxCalls
    BY <1>0, <1>4, BuilderAssumption DEF ExecuteTool, ChatRow
  <2>1. chat' \in ChatRow /\ ChatTool(q)
    BY <1>0, <1>4, <2>2 DEF ExecuteTool, ChatRow
  <2> QED
    BY <2>1, Requested, StartStep
<1>5. CASE Disconnect
  <2>1. chat' \in ChatRow /\ UNCHANGED <<held, agentRow, copy, last>>
    BY <1>0, <1>5 DEF Disconnect
  <2>2. CASE chat.req = 0
    BY <1>1, <1>5, <2>1, <2>2 DEF Disconnect, reqVars, builderHist
  <2>3. CASE chat.req # 0
    <3> DEFINE q == chat.req
    <3>1. q \in Requests
      BY <1>0, <2>3 DEF ChatRow
    <3>2. /\ parts' = [parts EXCEPT ![q] = <<>>] /\ state' = [state EXCEPT ![q] = "failed"]
          /\ removes' = [removes EXCEPT ![q] = {}] /\ late' = [late EXCEPT ![q] = {}]
      BY <1>5, <2>3 DEF Disconnect
    <3> HIDE DEF q
    <3>3. BuilderTypeOK' /\ parts' \in [Requests -> Seq(Parts)]
      BY <2>1, <3>1, <3>2 DEF BuilderInv, BuilderTypeOK, ChatRow
    <3>4. \A p \in Requests : state'[p] = "tx" => Replacing(parts[p][1], removes[p], late[p])'
      BY <2>1, <3>1, <3>2 DEF BuilderInv, BuilderTypeOK, Replacing
    <3> QED
      BY <2>1, <3>3, <3>4 DEF BuilderInv, HeldIsAccounted
  <2> QED
    BY <2>2, <2>3
<1> QED
  BY <1>2, <1>3, <1>4, <1>5 DEF Chat, ToolListTools, ToolProposeAgent,
       ToolCreateTrigger, ToolCreateGatewayChannel, ToolCreateSkill, ToolRunWorkflow, ToolCreateCodeTool

\* The invariant holds in every state: what a replacement leaves is its own, or came in since.
THEOREM BuilderInvariant == BuilderSpec => []BuilderInv
<1>1. BuilderInit => BuilderInv
  <2> SUFFICES ASSUME BuilderInit PROVE BuilderInv
    OBVIOUS
  <2>1. PICK there \in BOOLEAN : agentRow = [NoAgent EXCEPT !.there = there]
    BY DEF BuilderInit
  <2>2. agentRow \in AgentRow /\ NoAgent \in AgentRow
    BY <2>1 DEF AgentRow, NoAgent
  <2>5. 0 \in 0..MaxIter /\ 0 \in 0..MaxCalls
    BY BuilderAssumption
  <2>3. chat \in ChatRow
    BY <2>5 DEF BuilderInit, Quiet, ChatRow
  <2>4. BuilderTypeOK
    BY <2>2, <2>3 DEF BuilderInit, BuilderTypeOK, AgentRow, ChatRow
  <2> QED
    BY <2>2, <2>4 DEF BuilderInit, BuilderInv, HeldIsAccounted
<1>2. BuilderInv /\ [BuilderNext]_builderVars => BuilderInv'
  <2> SUFFICES ASSUME BuilderInv, [BuilderNext]_builderVars PROVE BuilderInv'
    OBVIOUS
  <2>1. CASE Chat \/ Disconnect
    BY <2>1, ChatStep
  <2>2. ASSUME NEW q \in Requests, WorkOn(q) PROVE BuilderInv'
    BY <2>2, InsertStep, RemoveStep, DeleteStep, CommitStep, RollbackStep, AgentRowStep DEF WorkOn
  <2>3. ASSUME NEW q \in Requests, Page(q) \/ Tool(q), UNCHANGED chat PROVE BuilderInv'
    <3>1. chat' \in ChatRow
      BY <2>3 DEF BuilderInv, BuilderTypeOK, ChatRow
    <3> QED
      BY <2>3, <3>1, Requested, StartStep
  <2>4. CASE UNCHANGED builderVars
    BY <2>4 DEF BuilderInv, BuilderTypeOK, HeldIsAccounted, Replacing, builderVars, reqVars, builderHist
  <2> QED
    BY <2>1, <2>2, <2>3, <2>4 DEF BuilderNext
<1> QED
  BY <1>1, <1>2, PTL DEF BuilderSpec

\* A request has parts left to do exactly while it is going on, and works on one collection.
THEOREM BuilderTypeCorrect == BuilderSpec => []BuilderTypeOK
BY BuilderInvariant, PTL DEF BuilderInv

\* What an agent or a workflow has is what the last replacement asked for, less what was
\* removed since, and what others have committed since its DELETE.
THEOREM CollectionsAccounted == BuilderSpec => []HeldIsAccounted
<1>1. BuilderInv => HeldIsAccounted
  BY DEF BuilderInv
<1> QED
  BY <1>1, BuilderInvariant, PTL

(* ------------- Resources: what a tree of runs makes and cleans up ------------- *)

RunRow == [kind : {"none", "agent", "call", "flow", "node"}, parent : Runs \cup {0}, of : Ids \cup {"none"},
           depth : 0..MaxDepth, status : {"none", "running", "parked", "ended", "failed", "cancelled"}]
Builds == {"agent", "call", "node"}   \* kinds of runs with an agent's loop

\* Runs are numbered in the order of their creation, and started by those who can.
Related(r) ==
  /\ tree[r].kind = "none" => tree[r] = NoRun /\ \A q \in Runs : q > r => tree[q].kind = "none"
  /\ tree[r].kind # "none" => tree[r].status # "none"
  /\ tree[r].kind = "agent" => tree[r].parent = 0
  /\ tree[r].kind = "call" => tree[r].parent # 0 /\ tree[tree[r].parent].kind \in Builds /\ tree[r].depth > 0
  /\ tree[r].kind = "node" => tree[r].parent # 0 /\ tree[tree[r].parent].kind = "flow"
  /\ tree[r].kind = "flow" => /\ tree[r].of \in Of("workflow")
                              /\ tree[r].parent # 0 => tree[tree[r].parent].kind \in Builds
  /\ tree[r].parent # 0 => tree[r].parent < r

\* What a goroutine at work is, and what it can no longer become once it has ended.
Located(r) ==
  /\ loop[r] = "work" => tree[r].kind \in Builds /\ tree[r].status = "running"
  /\ loop[r] \in {"load", "walk"} => tree[r].kind = "flow"
  /\ loop[r] = "clean" => tree[r].kind # "call" /\ tree[r].status \notin {"none", "running", "parked"}
  /\ stage[r] # 0 => loop[r] = "clean"
  /\ tree[r].status = "parked" => loop[r] = "off" /\ tree[r].kind \in {"agent", "node"} /\ r \in detached
  /\ nodes[r] # {} => loop[r] = "walk"

\* A workflow that goes on without being detached is shown as running, unless it has nothing to do.
Running(f) == tree[f].status = "running" \/ f \in detached
Walking(f) ==
  /\ loop[f] = "load" => Running(f)
  /\ nodes[f] # {} => Running(f)

\* Who is at work, and attached, has somebody who waits for it.
Awaited(r) ==
  /\ waits[r] # {} => loop[r] = "work"
  /\ \A c \in waits[r] : tree[c].kind \in {"call", "flow"} /\ tree[c].parent = r
                         /\ (tree[c].kind = "flow" => waits[r] = {c})
  /\ tree[r].kind = "call" /\ loop[r] # "off" => r \in waits[tree[r].parent]
  /\ tree[r].kind = "flow" /\ tree[r].parent # 0 /\ loop[r] \in {"load", "walk"} /\ tree[r].status = "running"
       => r \in waits[tree[r].parent] \/ r \in detached
  /\ tree[r].kind = "node" /\ loop[r] = "work" /\ r \notin detached
       => loop[tree[r].parent] = "walk" /\ Running(tree[r].parent)

\* A run that is over for good, but for its clean-up.
OverForGood(c) == loop[c] \in {"clean", "off"} /\ tree[c].status \notin {"none", "running", "parked"}

\* Whoever made x has an agent's loop; if x is to go, somebody above has still to see to it;
\* if the clean-up has taken it, somebody above who cleans up is over for good.
MadeBy(x) == \A s \in Runs : resource[x].src = s => tree[s].kind \in Builds
Kept(x) == \A s \in Runs : There(x) /\ resource[x].eph /\ resource[x].src = s =>
             \E j \in Ancestors(s) : StillToClean(j, KindOf[x]) \/ j \in stranded
Cleaned(x) == \A s \in Runs : resource[x].at = "gone" /\ x \notin deleted /\ resource[x].src = s =>
                \E c \in Ancestors(s) : tree[c].kind # "call" /\ OverForGood(c)

RowsInv == \A x \in Ids : MadeBy(x) /\ Kept(x) /\ Cleaned(x)

TreeInv == \A r \in Runs : Related(r) /\ Located(r) /\ Walking(r) /\ Awaited(r)
ResourcesInv ==
  /\ ResourcesTypeOK
  /\ TreeInv
  /\ RowsInv


(* The runs above a run. *)

\* A run is among them, and so is the parent of each.
LEMMA AncSelf == ASSUME NEW r \in Runs PROVE r \in Ancestors(r)
BY DEF Ancestors

LEMMA AncUp ==
  ASSUME ResourcesTypeOK, NEW r \in Runs, NEW q \in Ancestors(r), tree[q].parent # 0
  PROVE  tree[q].parent \in Ancestors(r)
<1>1. q \in Runs /\ tree[q].parent \in Runs
  BY DEF Ancestors, ResourcesTypeOK
<1>2. ASSUME NEW up \in SUBSET Runs, r \in up, Upward(up) PROVE tree[q].parent \in up
  <2>1. q \in up
    BY <1>2 DEF Ancestors
  <2> QED BY <1>2, <2>1 DEF Upward
<1> QED BY <1>1, <1>2 DEF Ancestors

\* They are in every set with the run and the parents of its members.
LEMMA AncLeast ==
  ASSUME NEW r \in Runs, NEW up \in SUBSET Runs, r \in up, Upward(up)
  PROVE  Ancestors(r) \subseteq up
BY DEF Ancestors

\* What is above a run above r is above r.
LEMMA AncTrans ==
  ASSUME ResourcesTypeOK, NEW r \in Runs, NEW q \in Ancestors(r)
  PROVE  q \in Runs /\ Ancestors(q) \subseteq Ancestors(r)
<1>1. q \in Runs /\ Ancestors(r) \in SUBSET Runs
  BY DEF Ancestors
<1>2. Upward(Ancestors(r))
  BY AncUp DEF Upward
<1> QED BY <1>1, <1>2, AncLeast

\* Above r are r and what is above its parent.
LEMMA AncStep ==
  ASSUME ResourcesTypeOK, NEW r \in Runs
  PROVE  Ancestors(r) \subseteq {r} \cup (IF tree[r].parent = 0 THEN {} ELSE Ancestors(tree[r].parent))
<1>1. CASE tree[r].parent = 0
  <2>1. {r} \in SUBSET Runs /\ Upward({r})
    BY <1>1 DEF Upward
  <2> QED BY <1>1, <2>1, AncLeast
<1>2. CASE tree[r].parent # 0
  <2> DEFINE p == tree[r].parent
             S == {r} \cup Ancestors(p)
  <2>1. p \in Runs
    BY <1>2 DEF ResourcesTypeOK
  <2>2. p \in Ancestors(p) /\ Ancestors(p) \in SUBSET Runs
    BY <2>1, AncSelf DEF Ancestors
  <2>3. ASSUME NEW q \in S, tree[q].parent # 0 PROVE tree[q].parent \in S
    <3>1. CASE q = r
      BY <2>2, <3>1
    <3>2. CASE q \in Ancestors(p)
      BY <2>1, <2>3, <3>2, AncUp
    <3> QED BY <3>1, <3>2
  <2>4. S \in SUBSET Runs /\ r \in S /\ Upward(S)
    BY <2>2, <2>3 DEF Upward
  <2> HIDE DEF S
  <2>5. Ancestors(r) \subseteq S
    BY <2>4, AncLeast
  <2> QED BY <1>2, <2>5 DEF S
<1> QED BY <1>1, <1>2

\* Of two runs above r one is above the other.
LEMMA AncLinear ==
  ASSUME ResourcesTypeOK, NEW r \in Runs, NEW a \in Ancestors(r), NEW b \in Ancestors(r)
  PROVE  a \in Ancestors(b) \/ b \in Ancestors(a)
<1> DEFINE S == {q \in Ancestors(r) : \A o \in Ancestors(r) : q \in Ancestors(o) \/ o \in Ancestors(q)}
<1>1. r \in S
  BY AncSelf
<1>2. ASSUME NEW q \in S, tree[q].parent # 0 PROVE tree[q].parent \in S
  <2> DEFINE p == tree[q].parent
  <2>1. p \in Ancestors(r) /\ q \in Runs
    BY <1>2, AncUp DEF Ancestors
  <2>2. ASSUME NEW o \in Ancestors(r) PROVE p \in Ancestors(o) \/ o \in Ancestors(p)
    <3>1. o \in Runs
      BY DEF Ancestors
    <3>2. CASE q \in Ancestors(o)
      BY <1>2, <3>1, <3>2, AncUp
    <3>3. CASE o \in Ancestors(q) /\ q \notin Ancestors(o)
      <4>1. o # q
        BY <3>1, <3>3, AncSelf
      <4>2. o \in Ancestors(p)
        BY <1>2, <2>1, <3>3, <4>1, AncStep
      <4> QED BY <4>2
    <3> QED BY <3>2, <3>3
  <2> HIDE DEF p
  <2>3. p \in S
    BY <2>1, <2>2
  <2> QED BY <2>3 DEF p
<1>3. S \in SUBSET Runs /\ Upward(S)
  BY <1>2 DEF Upward, Ancestors
<1> HIDE DEF S
<1>4. Ancestors(r) \subseteq S
  BY <1>1, <1>3, AncLeast
<1> QED BY <1>4 DEF S

\* A run above r that is not r has a child among them.
LEMMA AncChild ==
  ASSUME ResourcesTypeOK, NEW r \in Runs, NEW j \in Ancestors(r), j # r
  PROVE  \E d \in Ancestors(r) : tree[d].parent = j
<1> SUFFICES ASSUME \A d \in Ancestors(r) : tree[d].parent # j PROVE FALSE
  OBVIOUS
<1> DEFINE S == Ancestors(r) \ {j}
<1>1. S \in SUBSET Runs /\ r \in S
  BY AncSelf DEF Ancestors
<1>2. Upward(S)
  BY AncUp DEF Upward
<1>3. Ancestors(r) \subseteq S
  BY <1>1, <1>2, AncLeast
<1> QED BY <1>3

\* They are older than r, and there when r is.
LEMMA AncOlder ==
  ASSUME ResourcesTypeOK, TreeInv, NEW r \in Runs, NEW q \in Ancestors(r)
  PROVE  q <= r /\ (tree[r].kind # "none" => tree[q].kind # "none")
<1>0. Runs \subseteq Nat \ {0}
  BY ResourcesAssumption
<1> DEFINE S == {o \in Runs : o <= r /\ (tree[r].kind # "none" => tree[o].kind # "none")}
<1>1. ASSUME NEW o \in S, tree[o].parent # 0 PROVE tree[o].parent \in S
  <2> DEFINE p == tree[o].parent
  <2>1. o \in Runs /\ p \in Runs /\ p < o
    BY <1>1 DEF ResourcesTypeOK, TreeInv, Related
  <2>2. tree[o].kind # "none" /\ tree[p].kind # "none"
    BY <1>1, <2>1 DEF ResourcesTypeOK, TreeInv, Related, Builds, NoRun
  <2> HIDE DEF p
  <2>3. p <= r
    BY <1>0, <1>1, <2>1
  <2>4. p \in S
    BY <2>1, <2>2, <2>3
  <2> QED BY <2>4 DEF p
<1>2. S \in SUBSET Runs /\ r \in S /\ Upward(S)
  BY <1>0, <1>1 DEF Upward
<1> HIDE DEF S
<1>3. q \in S
  BY <1>2, AncLeast
<1> QED BY <1>3 DEF S

\* They stay the same as long as the parents do, ...
LEMMA AncSame ==
  ASSUME \A q \in Runs : tree'[q].parent = tree[q].parent, NEW r \in Runs
  PROVE  Ancestors(r)' = Ancestors(r)
BY DEF Ancestors, Upward

\* ... and for those that are there, when another run starts.
LEMMA AncGrown ==
  ASSUME ResourcesTypeOK, TreeInv, NEW c \in Runs, tree[c].kind = "none",
         \A q \in Runs : q # c => tree'[q] = tree[q],
         NEW r \in Runs, tree[r].kind # "none"
  PROVE  Ancestors(r)' = Ancestors(r)
<1>1. \A q \in Ancestors(r) : q \in Runs /\ q # c /\ tree'[q] = tree[q]
  BY AncOlder DEF Ancestors
<1>2. Ancestors(r) \in SUBSET Runs /\ r \in Ancestors(r)
  BY AncSelf DEF Ancestors
<1>3. PICK S \in SUBSET Runs : S = Ancestors(r)
  BY <1>2
<1>4. Ancestors(r)' \subseteq Ancestors(r)
  <2>1. \A q \in S : tree[q].parent # 0 => tree[q].parent \in S
    BY <1>3, AncUp
  <2>2. Upward(S)'
    BY <1>1, <1>3, <2>1 DEF Upward
  <2> QED BY <1>2, <1>3, <2>2 DEF Ancestors
<1>5. Ancestors(r)' \in SUBSET Runs /\ r \in Ancestors(r)'
  BY DEF Ancestors
<1>6. ASSUME NEW q \in Ancestors(r)', tree[q].parent # 0 PROVE tree[q].parent \in Ancestors(r)'
  <2>1. tree'[q] = tree[q] /\ q \in Runs /\ tree[q].parent \in Runs
    BY <1>1, <1>4, <1>6 DEF ResourcesTypeOK
  <2>2. ASSUME NEW up \in SUBSET Runs, r \in up, Upward(up)' PROVE tree[q].parent \in up
    <3>1. q \in up
      BY <1>6, <2>2 DEF Ancestors
    <3> QED BY <1>6, <2>1, <2>2, <3>1 DEF Upward
  <2> QED BY <2>1, <2>2 DEF Ancestors
<1>7. PICK T \in SUBSET Runs : T = Ancestors(r)'
  BY <1>5
<1>8. Upward(T)
  BY <1>6, <1>7 DEF Upward
<1>9. Ancestors(r) \subseteq T
  BY <1>5, <1>7, <1>8, AncLeast
<1> QED BY <1>4, <1>7, <1>9


(* The janitor of a run, and what the invariant says of what it has left. *)

\* A run that is there descends from a run of its own right.
LEMMA RootIsNoCall ==
  ASSUME ResourcesTypeOK, TreeInv, NEW r \in Runs, tree[r].kind # "none"
  PROVE  \E q \in Ancestors(r) : tree[q].kind # "call"
<1> SUFFICES ASSUME \A q \in Ancestors(r) : tree[q].kind = "call" PROVE FALSE
  OBVIOUS
<1>0. Runs \subseteq Nat \ {0} /\ Ancestors(r) \subseteq Runs /\ r \in Ancestors(r)
  BY ResourcesAssumption, AncSelf DEF Ancestors
<1>1. PICK m \in Ancestors(r) : \A y \in Ancestors(r) : ~(<<y, m>> \in OpToRel(<, Nat))
  <2>1. Ancestors(r) \subseteq Nat
    BY <1>0
  <2> QED BY <1>0, <2>1, WFMin, NatLessThanWellFounded
<1>2. tree[m].parent # 0 /\ tree[m].parent < m /\ tree[m].parent \in Ancestors(r)
  BY <1>0, AncUp DEF TreeInv, Related
<1>3. tree[m].parent \in Nat /\ m \in Nat
  BY <1>0, <1>2
<1> QED BY <1>1, <1>2, <1>3 DEF OpToRel

\* The janitor is the last of the runs above r that are no sub-agents, if there is a last one.
LEMMA JanitorIs ==
  ASSUME ResourcesTypeOK, TreeInv, NEW r \in Runs, tree[r].kind # "none"
  PROVE  /\ Janitor(r) \in Ancestors(r) /\ tree[Janitor(r)].kind # "call"
         /\ \A q \in Ancestors(r) : tree[q].kind # "call" => q <= Janitor(r)
<1> DEFINE N == {q \in Ancestors(r) : tree[q].kind # "call"}
           U == {m \in Nat : \A q \in N : q <= m}
<1>0. N \subseteq Nat \ {0} /\ N # {} /\ r \in Nat
  BY ResourcesAssumption, RootIsNoCall DEF Ancestors
<1>1. r \in U
  BY <1>0, AncOlder
<1>2. PICK m \in U : \A y \in U : ~(<<y, m>> \in OpToRel(<, Nat))
  BY <1>1, WFMin, NatLessThanWellFounded
<1>3. m \in N
  <2> SUFFICES ASSUME m \notin N PROVE FALSE
    OBVIOUS
  <2>1. \A q \in N : q < m
    <3> SUFFICES ASSUME NEW q \in N PROVE q < m
      OBVIOUS
    <3>1. q <= m /\ q # m /\ q \in Nat /\ m \in Nat
      BY <1>0
    <3> QED BY <3>1
  <2>2. m > 0
    BY <1>0, <2>1
  <2>3. m - 1 \in U
    <3>1. m - 1 \in Nat
      BY <2>2
    <3>2. \A q \in N : q <= m - 1
      <4> SUFFICES ASSUME NEW q \in N PROVE q <= m - 1
        OBVIOUS
      <4>1. q < m /\ q \in Nat /\ m \in Nat
        BY <1>0, <2>1
      <4> QED BY <4>1
    <3> QED BY <3>1, <3>2
  <2>4. <<m - 1, m>> \in OpToRel(<, Nat)
    BY <2>3 DEF OpToRel
  <2> QED BY <1>2, <2>3, <2>4
<1>4. \E j \in Ancestors(r) : tree[j].kind # "call" /\ \A q \in Ancestors(r) : tree[q].kind # "call" => q <= j
  BY <1>3
<1> QED BY <1>4 DEF Janitor

\* A run at work that nobody above has stopped waiting for has nobody above that is over.
LEMMA WorkersAbove ==
  ASSUME ResourcesTypeOK, TreeInv, NEW j \in Runs, loop[j] = "work", Attached(j)
  PROVE  \A q \in Ancestors(j) : loop[q] \in {"work", "walk"} /\ tree[q].status = "running"
<1> DEFINE S == {q \in Ancestors(j) : loop[q] \in {"work", "walk"} /\ tree[q].status = "running"}
<1>1. j \in S
  BY AncSelf DEF TreeInv, Located
<1>2. ASSUME NEW q \in S, tree[q].parent # 0 PROVE tree[q].parent \in S
  <2>1. /\ q \in Runs /\ tree[q].parent \in Ancestors(j) /\ tree[q].parent \in Runs
        /\ q \notin detached /\ tree[q].parent \notin detached
    BY <1>2, AncUp DEF Attached, Ancestors
  <2>2. PICK p \in Runs : p = tree[q].parent
    BY <2>1
  <2>3. Related(q) /\ Located(q) /\ Awaited(q) /\ Located(p) /\ Awaited(p)
    BY <2>1 DEF TreeInv
  <2>4. CASE tree[q].kind = "call"
    BY <1>2, <2>1, <2>2, <2>3, <2>4 DEF Located, Awaited
  <2>5. CASE tree[q].kind = "flow"
    <3>1. loop[q] = "walk"
      BY <1>2, <2>3, <2>5 DEF Located, Builds
    <3> QED BY <1>2, <2>1, <2>2, <2>3, <2>5, <3>1 DEF Located, Awaited
  <2>6. CASE tree[q].kind = "node"
    <3>1. loop[q] = "work"
      BY <1>2, <2>3, <2>6 DEF Located
    <3> QED BY <1>2, <2>1, <2>2, <2>3, <2>6, <3>1 DEF Awaited, Running
  <2> QED BY <1>2, <2>1, <2>3, <2>4, <2>5, <2>6 DEF Related, ResourcesTypeOK, NoRun
<1>3. S \in SUBSET Runs /\ Upward(S)
  BY <1>2 DEF Upward, Ancestors
<1> HIDE DEF S
<1>4. Ancestors(j) \subseteq S
  BY <1>1, <1>3, AncLeast
<1> QED BY <1>4 DEF S

\* The janitor of a run with an agent's loop has one itself.
LEMMA JanitorBuilds ==
  ASSUME ResourcesTypeOK, TreeInv, NEW r \in Runs, tree[r].kind \in Builds
  PROVE  tree[Janitor(r)].kind \in Builds
<1>0. tree[r].kind # "none"
  BY DEF Builds
<1>1. PICK j : j = Janitor(r)
  OBVIOUS
<1>2. /\ j \in Ancestors(r) /\ j \in Runs /\ tree[j].kind # "call" /\ tree[j].kind # "none"
      /\ \A q \in Ancestors(r) : tree[q].kind # "call" => q <= j
  BY <1>0, <1>1, JanitorIs, AncOlder DEF Ancestors
<1>3. CASE j # r
  <2>1. PICK d \in Ancestors(r) : tree[d].parent = j
    BY <1>2, <1>3, AncChild
  <2>2. d \in Runs /\ Related(d) /\ d \in Nat /\ j \in Nat /\ j # 0
    BY <1>2, ResourcesAssumption DEF TreeInv, Ancestors
  <2>3. j < d
    BY <2>1, <2>2 DEF Related
  <2>4. ~(d <= j)
    BY <2>2, <2>3
  <2>5. tree[d].kind = "call"
    BY <1>2, <2>4
  <2> QED BY <1>1, <2>1, <2>2, <2>5 DEF Related
<1> QED BY <1>1, <1>3

\* The invariant implies the property.
LEMMA CleanedUp ==
  ASSUME ResourcesInv
  PROVE  CleanedWithTheTree
<1>1. NothingLeftBehind
  BY DEF ResourcesInv, RowsInv, ResourcesTypeOK, Kept, NothingLeftBehind
<1>2. KeptForTheTree
  <2> SUFFICES ASSUME NEW x \in Ids, resource[x].at = "gone", x \notin deleted, resource[x].src # 0,
                      NEW u \in Runs, loop[Janitor(resource[x].src)] \in {"work", "walk"},
                      Janitor(resource[x].src) \in Ancestors(u), Attached(u)
               PROVE  FALSE
    BY DEF KeptForTheTree
  <2>1. PICK r \in Runs : r = resource[x].src
    BY DEF ResourcesInv, ResourcesTypeOK
  <2>2. PICK j : j = Janitor(r)
    OBVIOUS
  <2>3. /\ tree[r].kind \in Builds /\ tree[r].kind # "none"
        /\ \E c \in Ancestors(r) : tree[c].kind # "call" /\ OverForGood(c)
    BY <2>1 DEF ResourcesInv, RowsInv, MadeBy, Cleaned, Builds
  <2>4. PICK c \in Ancestors(r) : tree[c].kind # "call" /\ OverForGood(c)
    BY <2>3
  <2>5. /\ j \in Ancestors(r) /\ j \in Runs /\ c \in Runs /\ c <= j
        /\ tree[j].kind \in Builds
    BY <2>2, <2>3, <2>4, JanitorIs, JanitorBuilds DEF ResourcesInv, Ancestors
  <2>6. loop[j] = "work"
    BY <2>1, <2>2, <2>5 DEF ResourcesInv, TreeInv, Located, Builds
  <2>7. Attached(j)
    BY <2>1, <2>2, AncTrans DEF Attached, ResourcesInv
  <2>8. c \in Ancestors(j)
    <3>1. CASE j \in Ancestors(c)
      <4>1. j <= c /\ c \in Nat /\ j \in Nat
        BY <2>5, <3>1, AncOlder, ResourcesAssumption DEF ResourcesInv
      <4>2. j = c
        BY <2>5, <4>1
      <4> QED BY <2>5, <4>2, AncSelf
    <3> QED BY <2>4, <2>5, <3>1, AncLinear DEF ResourcesInv
  <2>9. loop[c] \in {"work", "walk"}
    BY <2>5, <2>6, <2>7, <2>8, WorkersAbove DEF ResourcesInv
  <2> QED BY <2>4, <2>9 DEF OverForGood
<1> QED BY <1>1, <1>2 DEF CleanedWithTheTree


(* ---- Types, step by step. ---- *)

\* What a tool does to the rows of resources.
LEMMA RowTypes ==
  ASSUME ResourcesTypeOK, NEW r \in Runs, NEW x \in Ids, NEW eph \in BOOLEAN,
         \/ InsertResource(x, r, eph) /\ (UNCHANGED uses \/ CreateWorkflow(r, x, eph))
         \/ AttachExisting(r, eph)
         \/ Promote(r, x)
         \/ DeleteRow(r, x)
  PROVE  ResourcesTypeOK'
<1>0. MaxMoves \in Nat
  BY ResourcesAssumption
<1>1. moves' \in 0..MaxMoves
  BY <1>0 DEF ResourcesTypeOK, InsertResource, AttachExisting, Promote, DeleteRow, Move
<1>2. resource' \in [Ids -> [at : {"unused", "there", "gone"}, src : Runs \cup {0}, eph : BOOLEAN]]
  <2> DEFINE Rows == [at : {"unused", "there", "gone"}, src : Runs \cup {0}, eph : BOOLEAN]
  <2>1. resource \in [Ids -> Rows] /\ resource[x] \in Rows
    BY DEF ResourcesTypeOK
  <2>2. [at |-> "there", src |-> r, eph |-> eph] \in Rows
    OBVIOUS
  <2>3. [resource[x] EXCEPT !.eph = FALSE] \in Rows
    BY <2>1
  <2>4. \A z \in Ids : [resource[z] EXCEPT !.at = "gone"] \in Rows
    BY <2>1
  <2> HIDE DEF Rows
  <2>5. resource' \in [Ids -> Rows]
    <3>1. CASE InsertResource(x, r, eph)
      BY <2>1, <2>2, <3>1 DEF InsertResource
    <3>2. CASE AttachExisting(r, eph)
      BY <2>1, <3>2 DEF AttachExisting, resourceRows
    <3>3. CASE Promote(r, x)
      <4>1. resource' = [resource EXCEPT ![x] = [resource[x] EXCEPT !.eph = FALSE]]
        BY <3>3 DEF Promote
      <4> QED BY <2>1, <2>3, <4>1
    <3>4. CASE DeleteRow(r, x)
      BY <2>1, <2>4, <3>4 DEF DeleteRow, Remove
    <3> QED BY <3>1, <3>2, <3>3, <3>4
  <2> QED BY <2>5 DEF Rows
<1>3. uses' \in [Of("workflow") -> SUBSET Of("agent")]
  <2>1. uses \in [Of("workflow") -> SUBSET Of("agent")]
    BY DEF ResourcesTypeOK
  <2>2. CASE UNCHANGED uses
    BY <2>1, <2>2
  <2>3. CASE CreateWorkflow(r, x, eph)
    <3>1. PICK found \in SUBSET Of("agent") : uses' = [uses EXCEPT ![x] = {a \in found : There(a)}]
      BY <2>3 DEF CreateWorkflow
    <3>2. {a \in found : There(a)} \in SUBSET Of("agent")
      OBVIOUS
    <3> QED BY <2>1, <3>1, <3>2
  <2>4. CASE DeleteRow(r, x)
    BY <2>1, <2>4 DEF DeleteRow, Remove
  <2> QED BY <2>2, <2>3, <2>4 DEF AttachExisting, Promote, resourceRows
<1>4. deleted' \subseteq Ids /\ kept' \subseteq Ids
  BY DEF ResourcesTypeOK, InsertResource, AttachExisting, Promote, DeleteRow, Taken, Of
<1>5. UNCHANGED <<treeVars, detached, stranded>>
  BY DEF InsertResource, AttachExisting, Promote, DeleteRow
<1> QED BY <1>1, <1>2, <1>3, <1>4, <1>5 DEF ResourcesTypeOK, treeVars

\* A row of runs with another status is one, too.
LEMMA StatusType ==
  ASSUME ResourcesTypeOK, NEW r \in Runs,
         NEW st \in {"none", "running", "parked", "ended", "failed", "cancelled"},
         tree' = [tree EXCEPT ![r].status = st]
  PROVE  tree' \in [Runs -> RunRow]
<1>1. tree \in [Runs -> RunRow] /\ tree[r] \in RunRow
  BY DEF ResourcesTypeOK, RunRow
<1>2. [tree[r] EXCEPT !.status = st] \in RunRow
  BY <1>1 DEF RunRow
<1>3. tree' = [tree EXCEPT ![r] = [tree[r] EXCEPT !.status = st]]
  OBVIOUS
<1> HIDE DEF RunRow
<1> QED BY <1>1, <1>2, <1>3

\* What an agent's loop does.
LEMMA LoopTypes ==
  ASSUME ResourcesTypeOK, NEW r \in Runs,
         Return(r) \/ StopPolling(r) \/ EndLoop(r) \/ Park(r) \/ Resume(r) \/ CancelParked(r)
  PROVE  ResourcesTypeOK'
<1>0. MaxMoves \in Nat
  BY ResourcesAssumption
<1>1. moves' \in 0..MaxMoves
  BY <1>0 DEF ResourcesTypeOK, Move, Return, StopPolling, EndLoop, Park, Resume, CancelParked
<1>2. tree' \in [Runs -> RunRow]
  <2>1. CASE UNCHANGED tree
    BY <2>1 DEF ResourcesTypeOK, RunRow
  <2>2. CASE tree' = [tree EXCEPT ![r].status = "ended"]
    BY <2>2, StatusType
  <2>3. CASE tree' = [tree EXCEPT ![r].status = "parked"]
    BY <2>3, StatusType
  <2>4. CASE tree' = [tree EXCEPT ![r].status = "running"]
    BY <2>4, StatusType
  <2> QED BY <2>1, <2>2, <2>3, <2>4 DEF Return, StopPolling, EndLoop, Park, Resume, CancelParked
<1>3. loop' \in [Runs -> {"off", "work", "load", "walk", "clean"}]
  BY DEF ResourcesTypeOK, Return, StopPolling, EndLoop, Park, Resume, CancelParked
<1>4. waits' \in [Runs -> SUBSET Runs]
  BY DEF ResourcesTypeOK, Return, StopPolling, EndLoop, Park, Resume, CancelParked
<1>5. detached' \subseteq Runs /\ stranded' \subseteq Runs
  BY DEF ResourcesTypeOK, Return, StopPolling, EndLoop, Park, Resume, CancelParked, resourceHist
<1>6. UNCHANGED <<resourceRows, stage, nodes, deleted, kept>>
  BY DEF Return, StopPolling, EndLoop, Park, Resume, CancelParked, resourceHist
<1> QED BY <1>1, <1>2, <1>3, <1>4, <1>5, <1>6 DEF ResourcesTypeOK, RunRow, resourceRows

\* What a workflow's walk does, but for starting a node's run.
LEMMA WalkTypes ==
  ASSUME ResourcesTypeOK, TreeInv, NEW f \in Runs, LoadGraph(f) \/ FailWalk(f) \/ CancelFlow(f) \/ EndWalk(f)
  PROVE  ResourcesTypeOK'
<1>0. MaxMoves \in Nat
  BY ResourcesAssumption
<1>1. moves' \in 0..MaxMoves
  BY <1>0 DEF ResourcesTypeOK, Move, LoadGraph, FailWalk, CancelFlow, EndWalk
<1>2. tree' \in [Runs -> RunRow]
  <2>1. PICK st : st = tree[f].status
    OBVIOUS
  <2>2. tree[f] \in RunRow /\ st \in {"none", "running", "parked", "ended", "failed", "cancelled"}
    BY <2>1 DEF ResourcesTypeOK, RunRow
  <2>3. \/ tree' = [tree EXCEPT ![f].status = st]
        \/ tree' = [tree EXCEPT ![f].status = "failed"]
        \/ tree' = [tree EXCEPT ![f].status = "cancelled"]
        \/ tree' = [tree EXCEPT ![f].status = "ended"]
    BY <2>1 DEF LoadGraph, FailWalk, CancelFlow, EndWalk
  <2> QED BY <2>2, <2>3, StatusType
<1>3. loop' \in [Runs -> {"off", "work", "load", "walk", "clean"}]
  <2>1. UNCHANGED loop \/ loop' = [loop EXCEPT ![f] = "walk"] \/ loop' = [loop EXCEPT ![f] = "clean"]
    BY DEF LoadGraph, FailWalk, CancelFlow, EndWalk
  <2> QED BY <2>1 DEF ResourcesTypeOK
<1>4. nodes' \in [Runs -> SUBSET Of("agent")]
  <2>1. CASE LoadGraph(f)
    <3>1. PICK N : /\ nodes' = [nodes EXCEPT ![f] = N]
                   /\ N = IF There(tree[f].of) /\ uses[tree[f].of] # {} THEN uses[tree[f].of] ELSE {}
      BY <2>1 DEF LoadGraph
    <3>2. tree[f].of \in Of("workflow")
      BY <2>1 DEF TreeInv, Located, Related, LoadGraph
    <3>3. N \in SUBSET Of("agent")
      BY <3>1, <3>2 DEF ResourcesTypeOK
    <3> QED BY <3>1, <3>3 DEF ResourcesTypeOK
  <2> QED BY <2>1 DEF ResourcesTypeOK, FailWalk, CancelFlow, EndWalk
<1>5. detached' \subseteq Runs /\ stranded' \subseteq Runs
  BY DEF ResourcesTypeOK, LoadGraph, FailWalk, CancelFlow, EndWalk, resourceHist
<1>6. UNCHANGED <<resourceRows, stage, waits, deleted, kept>>
  BY DEF LoadGraph, FailWalk, CancelFlow, EndWalk, resourceHist
<1> QED BY <1>1, <1>2, <1>3, <1>4, <1>5, <1>6 DEF ResourcesTypeOK, RunRow, resourceRows

\* A run that begins.
LEMMA BeginTypes ==
  ASSUME ResourcesTypeOK, NEW c \in Runs, NEW new \in RunRow, NEW at \in {"work", "load"},
         Begin(c, new, at)
  PROVE  tree' \in [Runs -> RunRow] /\ loop' \in [Runs -> {"off", "work", "load", "walk", "clean"}]
BY DEF ResourcesTypeOK, RunRow, Begin

LEMMA StartTypes ==
  ASSUME ResourcesTypeOK, TreeInv, NEW r \in Runs,
         \/ Invoke(r)
         \/ \E c \in Runs : CallAgent(r, c)
         \/ \E f \in Runs, w \in Of("workflow") : RunWorkflow(r, f, w)
         \/ \E n \in Runs, a \in nodes[r] : StartNode(r, n, a)
  PROVE  ResourcesTypeOK'
<1>0. MaxMoves \in Nat /\ MaxDepth \in Nat /\ Runs \subseteq Nat
  BY ResourcesAssumption
<1> USE DEF NewRun
<1>1. CASE Invoke(r)
  <2>1. NewRun("agent", 0, "none", 0) \in RunRow
    BY <1>0 DEF RunRow
  <2>2. tree' \in [Runs -> RunRow] /\ loop' \in [Runs -> {"off", "work", "load", "walk", "clean"}]
    BY <1>1, <2>1, BeginTypes DEF Invoke
  <2>3. moves' \in 0..MaxMoves
    BY <1>0, <1>1 DEF ResourcesTypeOK, Invoke, Move
  <2> QED BY <1>1, <2>2, <2>3 DEF ResourcesTypeOK, RunRow, Invoke, resourceRows, resourceHist
<1>2. ASSUME NEW c \in Runs, CallAgent(r, c) PROVE ResourcesTypeOK'
  <2> DEFINE new == NewRun("call", r, "none", tree[r].depth + 1)
  <2>1. tree[r].depth \in 0..MaxDepth /\ tree[r].depth < MaxDepth
    BY <1>2 DEF ResourcesTypeOK, CallAgent
  <2>2. tree[r].depth + 1 \in 0..MaxDepth
    BY <1>0, <2>1
  <2>3. new \in RunRow
    BY <2>2 DEF RunRow
  <2> HIDE DEF new
  <2>4. Begin(c, new, "work")
    BY <1>2 DEF CallAgent, new
  <2>5. tree' \in [Runs -> RunRow] /\ loop' \in [Runs -> {"off", "work", "load", "walk", "clean"}]
    BY <2>3, <2>4, BeginTypes
  <2>6. waits' \in [Runs -> SUBSET Runs]
    BY <1>2 DEF ResourcesTypeOK, CallAgent
  <2> QED BY <1>2, <2>5, <2>6 DEF ResourcesTypeOK, RunRow, CallAgent, resourceRows, resourceHist
<1>3. ASSUME NEW f \in Runs, NEW w \in Of("workflow"), RunWorkflow(r, f, w) PROVE ResourcesTypeOK'
  <2>1. NewRun("flow", r, w, 0) \in RunRow
    BY <1>0 DEF RunRow, Of
  <2>2. tree' \in [Runs -> RunRow] /\ loop' \in [Runs -> {"off", "work", "load", "walk", "clean"}]
    BY <1>3, <2>1, BeginTypes DEF RunWorkflow
  <2>3. waits' \in [Runs -> SUBSET Runs]
    BY <1>3 DEF ResourcesTypeOK, RunWorkflow
  <2> QED BY <1>3, <2>2, <2>3 DEF ResourcesTypeOK, RunRow, RunWorkflow, resourceRows, resourceHist
<1>4. ASSUME NEW n \in Runs, NEW a \in nodes[r], StartNode(r, n, a) PROVE ResourcesTypeOK'
  <2>1. a \in Ids
    BY DEF ResourcesTypeOK, Of
  <2>2. NewRun("node", r, a, 0) \in RunRow
    BY <1>0, <2>1 DEF RunRow
  <2>3. tree' \in [Runs -> RunRow] /\ loop' \in [Runs -> {"off", "work", "load", "walk", "clean"}]
    <3>1. CASE There(a)
      BY <1>4, <2>2, <3>1, BeginTypes DEF StartNode
    <3>2. CASE ~There(a)
      BY <1>4, <3>2 DEF StartNode, ResourcesTypeOK, RunRow
    <3> QED BY <3>1, <3>2
  <2>4. nodes' \in [Runs -> SUBSET Of("agent")]
    BY <1>4 DEF ResourcesTypeOK, StartNode
  <2> QED BY <1>4, <2>3, <2>4 DEF ResourcesTypeOK, RunRow, StartNode, resourceRows, resourceHist
<1> QED BY <1>1, <1>2, <1>3, <1>4

\* The clean-up, and the death of the process.
LEMMA CleanTypes == ASSUME ResourcesTypeOK, NEW r \in Runs, Clean(r) PROVE ResourcesTypeOK'
<1>1. PICK X : X = {x \in Of(Order[stage[r] + 1]) : There(x) /\ resource[x].eph /\ resource[x].src \in RunTree(r)}
  OBVIOUS
<1>2. Remove(X)
  BY <1>1 DEF Clean
<1>3. resource' \in [Ids -> [at : {"unused", "there", "gone"}, src : Runs \cup {0}, eph : BOOLEAN]]
  <2> DEFINE Rows == [at : {"unused", "there", "gone"}, src : Runs \cup {0}, eph : BOOLEAN]
  <2>1. \A z \in Ids : resource[z] \in Rows
    BY DEF ResourcesTypeOK
  <2>2. \A z \in Ids : [resource[z] EXCEPT !.at = "gone"] \in Rows
    BY <2>1
  <2> HIDE DEF Rows
  <2>3. resource' \in [Ids -> Rows]
    BY <1>2, <2>1, <2>2 DEF Remove
  <2> QED BY <2>3 DEF Rows
<1>4. uses' \in [Of("workflow") -> SUBSET Of("agent")]
  BY <1>2 DEF Remove, ResourcesTypeOK
<1>5. stage' \in [Runs -> 0..(Len(Order) - 1)]
  <2>1. Len(Order) = 4
    BY DEF Order
  <2>0. stage \in [Runs -> 0..3]
    BY <2>1 DEF ResourcesTypeOK
  <2>2. stage[r] \in 0..3
    BY <2>0
  <2>3. PICK m : m = IF stage[r] + 1 = 4 THEN 0 ELSE stage[r] + 1
    OBVIOUS
  <2>4. m \in 0..3
    BY <2>2, <2>3
  <2>5. stage' = [stage EXCEPT ![r] = m]
    BY <2>1, <2>3 DEF Clean
  <2> QED BY <2>0, <2>1, <2>4, <2>5
<1>6. loop' \in [Runs -> {"off", "work", "load", "walk", "clean"}]
  <2>1. UNCHANGED loop \/ loop' = [loop EXCEPT ![r] = "off"]
    <3>1. CASE stage[r] + 1 = Len(Order)
      BY <3>1 DEF Clean
    <3>2. CASE stage[r] + 1 # Len(Order)
      <4>1. loop' = [loop EXCEPT ![r] = loop[r]] /\ loop \in [Runs -> {"off", "work", "load", "walk", "clean"}]
        BY <3>2 DEF Clean, ResourcesTypeOK
      <4> QED BY <4>1
    <3> QED BY <3>1, <3>2
  <2> QED BY <2>1 DEF ResourcesTypeOK
<1> QED BY <1>3, <1>4, <1>5, <1>6 DEF ResourcesTypeOK, Clean, resourceHist

LEMMA CrashTypes == ASSUME ResourcesTypeOK, ResourcesCrash PROVE ResourcesTypeOK'
<1>0. MaxMoves \in Nat
  BY ResourcesAssumption
<1>1. moves' \in 0..MaxMoves
  BY <1>0 DEF ResourcesTypeOK, ResourcesCrash, Move
<1>2. PICK again \in SUBSET Runs :
        /\ loop' = [r \in Runs |-> IF r \in again THEN "load" ELSE "off"]
        /\ tree' = [r \in Runs |-> IF r \in again \/ tree[r].status # "running" THEN tree[r]
                                  ELSE [tree[r] EXCEPT !.status = "failed"]]
        /\ stranded' = stranded \cup {r \in Runs : loop[r] # "off" /\ r \notin again}
  BY DEF ResourcesCrash
<1>3. tree' \in [Runs -> RunRow]
  <2>1. \A r \in Runs : tree[r] \in RunRow
    BY DEF ResourcesTypeOK, RunRow
  <2>2. \A r \in Runs : [tree[r] EXCEPT !.status = "failed"] \in RunRow
    BY <2>1 DEF RunRow
  <2> HIDE DEF RunRow
  <2> QED BY <1>2, <2>1, <2>2
<1>4. stage' \in [Runs -> 0..(Len(Order) - 1)]
  BY DEF ResourcesCrash, Order
<1>5. nodes' \in [Runs -> SUBSET Of("agent")] /\ waits' \in [Runs -> SUBSET Runs]
  BY DEF ResourcesCrash
<1>6. loop' \in [Runs -> {"off", "work", "load", "walk", "clean"}] /\ stranded' \subseteq Runs
  BY <1>2 DEF ResourcesTypeOK
<1>7. UNCHANGED <<resourceRows, detached, deleted, kept>>
  BY DEF ResourcesCrash
<1> QED BY <1>1, <1>3, <1>4, <1>5, <1>6, <1>7 DEF ResourcesTypeOK, RunRow, resourceRows

(* ---- The tree of runs, step by step. ---- *)

LEMMA TreeSame ==
  ASSUME TreeInv, UNCHANGED treeVars, UNCHANGED detached
  PROVE  TreeInv'
BY DEF TreeInv, treeVars, Related, Located, Walking, Awaited, Running

\* One run that is there moves.
LEMMA TreeMoves ==
  ASSUME ResourcesTypeOK, ResourcesTypeOK', TreeInv, NEW r \in Runs,
         tree[r].kind # "none", tree'[r].status # "none",
         \A q \in Runs : /\ tree'[q].kind = tree[q].kind /\ tree'[q].parent = tree[q].parent
                         /\ tree'[q].of = tree[q].of /\ tree'[q].depth = tree[q].depth,
         \A q \in Runs \ {r} : /\ tree'[q] = tree[q] /\ loop'[q] = loop[q] /\ stage'[q] = stage[q]
                               /\ nodes'[q] = nodes[q] /\ waits'[q] = waits[q],
         detached \subseteq detached', Located(r)', Walking(r)',
         waits'[r] \subseteq waits[r], waits'[r] # {} => loop'[r] = "work",
         tree[r].kind = "call" /\ loop'[r] # "off" => loop[r] # "off",
         tree[r].kind = "flow" /\ loop'[r] \in {"load", "walk"} /\ tree'[r].status = "running"
           => loop[r] \in {"load", "walk"} /\ tree[r].status = "running",
         tree[r].kind = "node" /\ loop'[r] = "work" /\ r \notin detached' => loop[r] = "work",
         \A c \in waits[r] \ waits'[r] :
           /\ tree[c].kind = "call" => loop[c] = "off"
           /\ tree[c].kind = "flow" => \/ c \in detached' \/ loop[c] \notin {"load", "walk"}
                                       \/ tree[c].status # "running",
         \A n \in Runs \ {r} : tree[n].kind = "node" /\ tree[n].parent = r /\ loop[n] = "work" /\ n \notin detached'
           => loop'[r] = "walk" /\ Running(r)'
  PROVE  TreeInv'
<1>0. Runs \subseteq Nat \ {0}
  BY ResourcesAssumption
<1> SUFFICES ASSUME NEW q \in Runs PROVE Related(q)' /\ Located(q)' /\ Walking(q)' /\ Awaited(q)'
  BY DEF TreeInv
<1>1. Related(q) /\ Located(q) /\ Walking(q) /\ Awaited(q)
  BY DEF TreeInv
<1>2. Related(q)'
  <2>1. tree[q].parent # 0 => tree[q].parent \in Runs
    BY DEF ResourcesTypeOK
  <2>2. tree[q].kind = "none" => tree'[q] = tree[q]
    OBVIOUS
  <2>3. tree[q].kind # "none" => tree'[q].status # "none"
    BY <1>1 DEF Related
  <2> QED BY <1>1, <2>1, <2>2, <2>3 DEF Related
<1>3. Located(q)' /\ Walking(q)'
  <2>1. CASE q # r
    BY <1>1, <2>1 DEF Located, Walking, Running
  <2> QED BY <2>1
<1>4. \A c \in waits[q] : c \in Runs
  BY DEF ResourcesTypeOK
<1>5. waits'[q] # {} => loop'[q] = "work"
  BY <1>1 DEF Awaited
<1>6. \A c \in waits'[q] : tree'[c].kind \in {"call", "flow"} /\ tree'[c].parent = q
                            /\ (tree'[c].kind = "flow" => waits'[q] = {c})
  <2>1. waits'[q] \subseteq waits[q]
    OBVIOUS
  <2> QED BY <1>1, <1>4, <2>1 DEF Awaited
<1>7. ASSUME tree[q].kind # "agent", tree[q].parent # 0
      PROVE  tree[q].parent \in Runs /\ tree[q].parent # q
  <2>1. tree[q].parent < q /\ tree[q].parent \in Runs
    BY <1>1, <1>7 DEF Related, ResourcesTypeOK
  <2> QED BY <1>0, <2>1
<1>8. ASSUME tree[q].kind = "call", loop'[q] # "off" PROVE q \in waits'[tree[q].parent]
  <2>1. tree[q].parent # 0
    BY <1>1, <1>8 DEF Related
  <2>2. tree[q].parent \in Runs /\ tree[q].parent # q
    BY <1>7, <1>8, <2>1
  <2>3. q \in waits[tree[q].parent] /\ loop[q] # "off"
    BY <1>1, <1>8 DEF Awaited
  <2> QED BY <1>8, <2>2, <2>3
<1>9. ASSUME tree[q].kind = "flow", tree[q].parent # 0, loop'[q] \in {"load", "walk"}, tree'[q].status = "running",
             q \notin detached'
      PROVE  q \in waits'[tree[q].parent]
  <2>1. tree[q].parent \in Runs /\ tree[q].parent # q
    BY <1>7, <1>9
  <2>2. loop[q] \in {"load", "walk"} /\ tree[q].status = "running"
    BY <1>9
  <2>3. q \in waits[tree[q].parent]
    BY <1>1, <1>9, <2>2 DEF Awaited
  <2> QED BY <1>9, <2>1, <2>2, <2>3
<1>10. ASSUME tree[q].kind = "node", loop'[q] = "work", q \notin detached'
       PROVE  loop'[tree[q].parent] = "walk" /\ (tree'[tree[q].parent].status = "running" \/ tree[q].parent \in detached')
  <2>1. tree[q].parent # 0
    BY <1>1, <1>10 DEF Related
  <2>2. tree[q].parent \in Runs /\ tree[q].parent # q
    BY <1>7, <1>10, <2>1
  <2>3. loop[q] = "work" /\ q \notin detached
    BY <1>10
  <2>4. loop[tree[q].parent] = "walk" /\ Running(tree[q].parent)
    BY <1>1, <1>10, <2>3 DEF Awaited
  <2>5. CASE tree[q].parent = r
    BY <1>10, <2>2, <2>3, <2>5 DEF Running
  <2>6. CASE tree[q].parent # r
    BY <2>2, <2>4, <2>6 DEF Running
  <2> QED BY <2>5, <2>6
<1>11. Awaited(q)'
  <2>1. tree'[q].kind = tree[q].kind /\ tree'[q].parent = tree[q].parent
    OBVIOUS
  <2> QED BY <1>5, <1>6, <1>8, <1>9, <1>10, <2>1 DEF Awaited, Running
<1> QED BY <1>2, <1>3, <1>11

\* A run begins.
LEMMA TreeGrows ==
  ASSUME ResourcesTypeOK, ResourcesTypeOK', TreeInv, NEW c \in Runs, NEW new \in RunRow, NEW at, Begin(c, new, at),
         new.status = "running", stage' = stage, detached' = detached,
         \A q \in Runs : nodes'[q] \subseteq nodes[q],
         NEW p \in Runs \cup {0}, new.parent = p,
         \/ new.kind = "agent" /\ p = 0 /\ at = "work" /\ waits' = waits
         \/ /\ new.kind = "call" /\ p # 0 /\ new.depth > 0 /\ at = "work"
            /\ loop[p] = "work" /\ \A w \in waits[p] : tree[w].kind = "call"
            /\ waits' = [waits EXCEPT ![p] = @ \cup {c}]
         \/ /\ new.kind = "flow" /\ new.of \in Of("workflow") /\ p # 0 /\ at = "load"
            /\ loop[p] = "work" /\ waits[p] = {}
            /\ waits' = [waits EXCEPT ![p] = {c}]
         \/ new.kind = "node" /\ p # 0 /\ at = "work" /\ loop[p] = "walk" /\ Running(p) /\ waits' = waits
  PROVE  TreeInv'
<1>0. Runs \subseteq Nat \ {0}
  BY ResourcesAssumption
<1>1. /\ tree' = [tree EXCEPT ![c] = new] /\ loop' = [loop EXCEPT ![c] = at]
      /\ tree[c].kind = "none" /\ \A q \in Runs : q < c => tree[q].kind # "none"
  BY DEF Begin, Fresh
<1>2. /\ tree'[c] = new /\ loop'[c] = at
      /\ \A q \in Runs \ {c} : tree'[q] = tree[q] /\ loop'[q] = loop[q]
  BY <1>1 DEF ResourcesTypeOK
<1>3. Related(c) /\ Located(c) /\ Awaited(c) /\ tree[c] = NoRun
  BY <1>1 DEF TreeInv, Related
<1>4. loop[c] \notin {"work", "load", "walk", "clean"} /\ stage[c] = 0 /\ nodes[c] = {} /\ waits[c] = {}
  BY <1>1, <1>3 DEF Located, Awaited, NoRun, Builds
<1>5. p # 0 => /\ p \in Runs /\ p # c /\ loop[p] = (IF new.kind = "node" THEN "walk" ELSE "work")
               /\ tree[p].kind # "none" /\ (tree[p].kind = "flow" <=> new.kind = "node")
               /\ (new.kind # "node" => tree[p].kind \in Builds)
  BY <1>1 DEF TreeInv, Located, Builds
<1>6. p # 0 => p < c
  <2>1. p # 0 => ~(c < p)
    BY <1>1, <1>3, <1>5 DEF Related
  <2> QED BY <1>0, <1>5, <2>1
<1>7. \A q \in Runs \ {c} : tree[q].kind = "none" => c < q
  <2> SUFFICES ASSUME NEW q \in Runs \ {c}, tree[q].kind = "none" PROVE c < q
    OBVIOUS
  <2>1. ~(q < c)
    BY <1>1
  <2> QED BY <1>0, <2>1
<1>8. /\ \A q \in Runs \ {c} : waits[q] \subseteq waits'[q] /\ (waits'[q] # waits[q] => q = p)
      /\ waits'[c] = {}
      /\ new.kind \in {"call", "flow"} => c \in waits'[p]
      /\ \A q \in Runs \ {c} : \A w \in waits'[q] : w \in waits[q] \/ (w = c /\ q = p /\ new.kind \in {"call", "flow"})
  BY <1>4, <1>5 DEF ResourcesTypeOK
<1>9. ASSUME NEW q \in Runs \ {c}
      PROVE  /\ Related(q) /\ Located(q) /\ Walking(q) /\ Awaited(q) /\ q \in Runs
             /\ tree[q].parent # 0 => tree[q].parent \in Runs /\ (tree[q].kind # "none" => tree[q].parent # c)
  <2>1. Related(q) /\ Located(q) /\ Walking(q) /\ Awaited(q) /\ q \in Runs
    BY DEF TreeInv
  <2>2. tree[q].parent # 0 => tree[q].parent \in Runs
    BY <2>1 DEF ResourcesTypeOK
  <2>3. tree[q].kind # "none" /\ tree[q].parent # 0 => tree[tree[q].parent].kind # "none"
    BY <2>1 DEF Related, Builds, ResourcesTypeOK
  <2> QED BY <1>1, <2>1, <2>2, <2>3
<1>10. Related(c)'
  <2>1. p # 0 => tree'[p] = tree[p]
    BY <1>2, <1>5
  <2>2. new.kind # "none"
    OBVIOUS
  <2> QED BY <1>2, <1>5, <1>6, <2>1, <2>2 DEF Related
<1>11. Located(c)' /\ Walking(c)'
  <2>1. stage'[c] = 0 /\ nodes'[c] = {}
    BY <1>4
  <2> QED BY <1>2, <2>1 DEF Located, Walking, Running, Builds
<1>12. Awaited(c)'
  <2>1. p # 0 => loop'[p] = loop[p] /\ tree'[p] = tree[p]
    BY <1>2, <1>5
  <2> QED BY <1>2, <1>5, <1>8, <2>1 DEF Awaited, Running
<1>13. ASSUME NEW q \in Runs \ {c} PROVE Related(q)'
  <2>1. CASE tree[q].kind = "none"
    <3>1. \A o \in Runs : o > q => tree'[o].kind = "none"
      <4> SUFFICES ASSUME NEW o \in Runs, o > q PROVE tree'[o].kind = "none"
        OBVIOUS
      <4>1. o # c
        <5>1. c < q
          BY <1>7, <2>1
        <5> QED BY <1>0, <5>1
      <4> QED BY <1>2, <1>9, <2>1, <4>1 DEF Related
    <3>2. tree'[q] = NoRun
      BY <1>2, <1>9, <2>1 DEF Related
    <3> QED BY <3>1, <3>2 DEF Related, NoRun
  <2>2. CASE tree[q].kind # "none"
    <3>1. tree'[q] = tree[q]
      BY <1>2
    <3>2. tree[q].parent # 0 => tree'[tree[q].parent] = tree[tree[q].parent]
      BY <1>2, <1>9, <2>2
    <3> QED BY <1>9, <2>2, <3>1, <3>2 DEF Related
  <2> QED BY <2>1, <2>2
<1>14. ASSUME NEW q \in Runs \ {c} PROVE Located(q)' /\ Walking(q)'
  BY <1>2, <1>9 DEF Located, Walking, Running
<1>15. ASSUME NEW q \in Runs \ {c} PROVE Awaited(q)'
  <2>1. tree'[q] = tree[q] /\ loop'[q] = loop[q]
    BY <1>2
  <2>2. waits'[q] # {} => loop'[q] = "work"
    <3>1. CASE waits'[q] = waits[q]
      BY <1>9, <2>1, <3>1 DEF Awaited
    <3>2. CASE waits'[q] # waits[q]
      BY <1>8, <2>1, <3>2
    <3> QED BY <3>1, <3>2
  <2>3. ASSUME NEW w \in waits'[q]
        PROVE  tree'[w].kind \in {"call", "flow"} /\ tree'[w].parent = q
               /\ (tree'[w].kind = "flow" => waits'[q] = {w})
    <3>1. CASE w = c
      <4>1. q = p /\ new.kind \in {"call", "flow"}
        BY <1>1, <1>8, <1>9, <3>1 DEF Awaited
      <4>2. new.kind = "flow" => waits'[p] = {c}
        BY <4>1 DEF ResourcesTypeOK
      <4> QED BY <1>2, <3>1, <4>1, <4>2
    <3>2. CASE w # c
      <4>1. w \in waits[q] /\ w \in Runs
        BY <1>8, <3>2 DEF ResourcesTypeOK
      <4>2. tree'[w] = tree[w] /\ tree[w].kind \in {"call", "flow"} /\ tree[w].parent = q
            /\ (tree[w].kind = "flow" => waits[q] = {w})
        BY <1>2, <1>9, <3>2, <4>1 DEF Awaited
      <4>3. tree[w].kind = "flow" => waits'[q] = waits[q]
        <5>1. CASE q # p
          BY <1>8, <5>1
        <5>2. CASE q = p
          BY <4>1, <5>2, <1>5
        <5> QED BY <5>1, <5>2
      <4> QED BY <4>2, <4>3
    <3> QED BY <3>1, <3>2
  <2>4. tree[q].parent # 0 /\ tree[q].kind # "none" => /\ waits[tree[q].parent] \subseteq waits'[tree[q].parent]
                                                       /\ tree'[tree[q].parent] = tree[tree[q].parent]
                                                       /\ loop'[tree[q].parent] = loop[tree[q].parent]
    BY <1>2, <1>8, <1>9
  <2>5. tree[q].kind \in {"call", "node"} => tree[q].parent # 0
    BY <1>9 DEF Related
  <2> QED BY <1>9, <2>1, <2>2, <2>3, <2>4, <2>5 DEF Awaited, Running
<1>16. ASSUME NEW q \in Runs PROVE Related(q)' /\ Located(q)' /\ Walking(q)' /\ Awaited(q)'
  BY <1>10, <1>11, <1>12, <1>13, <1>14, <1>15
<1> QED BY <1>16 DEF TreeInv

\* The process dies.
LEMMA TreeCrashes == ASSUME ResourcesTypeOK, TreeInv, ResourcesCrash PROVE TreeInv'
<1>1. PICK again \in SUBSET {f \in Runs : tree[f].kind = "flow" /\ tree[f].parent = 0 /\ tree[f].status = "running"} :
        /\ loop' = [r \in Runs |-> IF r \in again THEN "load" ELSE "off"]
        /\ tree' = [r \in Runs |-> IF r \in again \/ tree[r].status # "running" THEN tree[r]
                                  ELSE [tree[r] EXCEPT !.status = "failed"]]
  BY DEF ResourcesCrash
<1>2. /\ stage' = [r \in Runs |-> 0] /\ nodes' = [r \in Runs |-> {}] /\ waits' = [r \in Runs |-> {}]
      /\ detached' = detached
  BY DEF ResourcesCrash
<1>3. ASSUME NEW r \in Runs
      PROVE  /\ tree'[r].kind = tree[r].kind /\ tree'[r].parent = tree[r].parent
             /\ tree'[r].of = tree[r].of /\ tree'[r].depth = tree[r].depth
             /\ tree'[r].status = tree[r].status \/ (tree[r].status = "running" /\ tree'[r].status = "failed")
             /\ (tree[r].status # "running" => tree'[r] = tree[r])
  <2>1. CASE r \in again \/ tree[r].status # "running"
    BY <1>1, <2>1
  <2>2. CASE r \notin again /\ tree[r].status = "running"
    <3>1. tree'[r] = [tree[r] EXCEPT !.status = "failed"]
      BY <1>1, <2>2
    <3> QED BY <2>2, <3>1 DEF ResourcesTypeOK
  <2> QED BY <2>1, <2>2
<1>4. ASSUME NEW r \in Runs PROVE Related(r)' /\ Located(r)' /\ Walking(r)' /\ Awaited(r)'
  <2>1. Related(r) /\ Located(r)
    BY DEF TreeInv
  <2>2. r \in again => loop'[r] = "load" /\ tree'[r] = tree[r]
    BY <1>1
  <2>3. r \notin again => loop'[r] = "off"
    BY <1>1
  <2>4. tree[r].parent # 0 => tree[r].parent \in Runs
    BY DEF ResourcesTypeOK
  <2>5. Related(r)'
    <3>1. tree[r].kind = "none" => tree'[r] = tree[r]
      BY <1>3, <2>1 DEF Related, NoRun
    <3>2. tree[r].kind # "none" => tree'[r].status # "none"
      BY <1>3, <2>1 DEF Related
    <3>3. tree[r].parent # 0 => tree'[tree[r].parent].kind = tree[tree[r].parent].kind
      BY <1>3, <2>4
    <3> QED BY <1>3, <2>1, <3>1, <3>2, <3>3 DEF Related
  <2>6. stage'[r] = 0 /\ nodes'[r] = {} /\ waits'[r] = {}
    BY <1>2
  <2>7. Located(r)' /\ Walking(r)'
    BY <1>1, <1>2, <1>3, <2>1, <2>2, <2>3, <2>6 DEF Located, Walking, Running
  <2>8. Awaited(r)'
    BY <1>1, <1>3, <2>2, <2>3, <2>6 DEF Awaited
  <2> QED BY <2>5, <2>7, <2>8
<1> QED BY <1>4 DEF TreeInv

(* ---- The rows of resources, step by step. ---- *)

\* A step that leaves them alone: nobody who has still to clean up goes without a successor
\* above, and who is over for good stays so.
LEMMA RowsStay ==
  ASSUME ResourcesInv, UNCHANGED <<resource, deleted>>,
         \A q \in Runs : tree[q].kind # "none" => /\ tree'[q].kind = tree[q].kind
                                                  /\ Ancestors(q)' = Ancestors(q),
         \A j \in Runs, k \in Kinds : StillToClean(j, k) \/ j \in stranded =>
           \E i \in Ancestors(j) : StillToClean(i, k)' \/ i \in stranded',
         \A c \in Runs : OverForGood(c) => OverForGood(c)'
  PROVE  RowsInv'
<1> SUFFICES ASSUME NEW x \in Ids, NEW s \in Runs, resource[x].src = s
             PROVE  /\ tree'[s].kind \in Builds
                    /\ There(x) /\ resource[x].eph =>
                         \E j \in Ancestors(s)' : StillToClean(j, KindOf[x])' \/ j \in stranded'
                    /\ resource[x].at = "gone" /\ x \notin deleted =>
                         \E c \in Ancestors(s)' : tree'[c].kind # "call" /\ OverForGood(c)'
  BY DEF RowsInv, MadeBy, Kept, Cleaned, There
<1>1. tree[s].kind \in Builds /\ Kept(x) /\ Cleaned(x) /\ KindOf[x] \in Kinds
  BY ResourcesAssumption DEF ResourcesInv, RowsInv, MadeBy
<1>2. tree'[s].kind = tree[s].kind /\ Ancestors(s)' = Ancestors(s)
  BY <1>1 DEF Builds
<1>3. ASSUME There(x), resource[x].eph
      PROVE  \E j \in Ancestors(s)' : StillToClean(j, KindOf[x])' \/ j \in stranded'
  <2>1. PICK j \in Ancestors(s) : StillToClean(j, KindOf[x]) \/ j \in stranded
    BY <1>1, <1>3 DEF Kept
  <2>2. j \in Runs /\ Ancestors(j) \subseteq Ancestors(s)
    BY AncTrans DEF ResourcesInv
  <2>3. PICK k \in Kinds : k = KindOf[x]
    BY <1>1
  <2>4. \E i \in Ancestors(j) : StillToClean(i, k)' \/ i \in stranded'
    BY <2>1, <2>2, <2>3
  <2>5. \E i \in Ancestors(s)' : StillToClean(i, k)' \/ i \in stranded'
    BY <1>2, <2>2, <2>4
  <2> QED BY <2>3, <2>5
<1>4. ASSUME resource[x].at = "gone", x \notin deleted
      PROVE  \E c \in Ancestors(s)' : tree'[c].kind # "call" /\ OverForGood(c)'
  <2>1. PICK c \in Ancestors(s) : tree[c].kind # "call" /\ OverForGood(c)
    BY <1>1, <1>4 DEF Cleaned
  <2>2. c \in Runs /\ tree[c].kind # "none" /\ tree'[c].kind = tree[c].kind
    BY <1>1, AncOlder DEF ResourcesInv, Builds, Ancestors
  <2> QED BY <1>2, <2>1, <2>2
<1> QED BY <1>1, <1>2, <1>3, <1>4

\* One run that is there moves: a sub-agent's caller has still to clean up when it ends.
LEMMA RowsMove ==
  ASSUME ResourcesInv, UNCHANGED <<resource, deleted>>, NEW r \in Runs,
         \A q \in Runs : tree'[q].kind = tree[q].kind /\ tree'[q].parent = tree[q].parent,
         \A q \in Runs \ {r} : tree'[q] = tree[q] /\ loop'[q] = loop[q] /\ stage'[q] = stage[q],
         stranded \subseteq stranded', ~OverForGood(r),
         \/ \A k \in Kinds : StillToClean(r, k)'
         \/ r \in stranded'
         \/ tree[r].kind = "call" /\ loop[r] = "work"
  PROVE  RowsInv'
<1>1. \A q \in Runs : Ancestors(q)' = Ancestors(q)
  BY AncSame
<1>2. ASSUME NEW j \in Runs, NEW k \in Kinds, StillToClean(j, k) \/ j \in stranded
      PROVE  \E i \in Ancestors(j) : StillToClean(i, k)' \/ i \in stranded'
  <2>1. CASE j # r
    <3>1. StillToClean(j, k)' \/ j \in stranded'
      BY <1>2, <2>1 DEF StillToClean
    <3> QED BY <3>1, AncSelf
  <2>2. CASE j = r /\ tree[r].kind = "call" /\ loop[r] = "work"
    <3>1. Related(r) /\ Awaited(r)
      BY DEF ResourcesInv, TreeInv
    <3>2. PICK p \in Runs : p = tree[r].parent
      BY <2>2, <3>1 DEF Related, ResourcesInv, ResourcesTypeOK
    <3>3. p # 0 /\ p < r /\ r \in waits[p]
      BY <2>2, <3>1, <3>2 DEF Related, Awaited
    <3>4. p # r /\ loop[p] = "work"
      BY <3>2, <3>3, ResourcesAssumption DEF ResourcesInv, TreeInv, Awaited
    <3>5. p \in Ancestors(r) /\ StillToClean(p, k)'
      BY <3>2, <3>3, <3>4, AncUp, AncSelf DEF StillToClean, ResourcesInv
    <3> QED BY <2>2, <3>5
  <2>3. CASE j = r /\ (StillToClean(r, k)' \/ r \in stranded')
    BY <2>3, AncSelf
  <2> QED BY <2>1, <2>2, <2>3
<1>3. ASSUME NEW c \in Runs, OverForGood(c) PROVE OverForGood(c)'
  <2>1. c # r
    BY <1>3
  <2> QED BY <1>3, <2>1 DEF OverForGood
<1> QED BY <1>1, <1>2, <1>3, RowsStay

\* A run begins.
LEMMA RowsBegin ==
  ASSUME ResourcesInv, UNCHANGED <<resource, deleted, stage, stranded>>, NEW c \in Runs, NEW new, NEW at,
         Begin(c, new, at)
  PROVE  RowsInv'
<1>1. /\ tree[c].kind = "none"
      /\ \A q \in Runs : q # c => tree'[q] = tree[q] /\ loop'[q] = loop[q]
  BY DEF Begin, Fresh, ResourcesInv, ResourcesTypeOK
<1>2. \A q \in Runs : tree[q].kind # "none" => tree'[q].kind = tree[q].kind /\ Ancestors(q)' = Ancestors(q)
  BY <1>1, AncGrown DEF ResourcesInv
<1>3. tree[c] = NoRun /\ Located(c)
  BY <1>1 DEF ResourcesInv, TreeInv, Related
<1>4. loop[c] \notin {"work", "load", "walk", "clean"}
  BY <1>3 DEF Located, NoRun, Builds
<1>5. ASSUME NEW j \in Runs, NEW k \in Kinds, StillToClean(j, k) \/ j \in stranded
      PROVE  \E i \in Ancestors(j) : StillToClean(i, k)' \/ i \in stranded'
  <2>1. StillToClean(j, k)' \/ j \in stranded'
    <3>1. CASE j # c
      BY <1>1, <1>5, <3>1 DEF StillToClean
    <3>2. CASE j = c
      <4>1. ~StillToClean(c, k)
        BY <1>3, <1>4 DEF StillToClean, NoRun
      <4> QED BY <1>5, <3>2, <4>1
    <3> QED BY <3>1, <3>2
  <2> QED BY <2>1, AncSelf
<1>6. ASSUME NEW q \in Runs, OverForGood(q) PROVE OverForGood(q)'
  BY <1>1, <1>3, <1>6 DEF OverForGood, NoRun
<1> QED BY <1>2, <1>5, <1>6, RowsStay

\* The process dies.
LEMMA RowsCrash == ASSUME ResourcesInv, ResourcesCrash PROVE RowsInv'
<1>1. PICK again \in SUBSET {f \in Runs : tree[f].kind = "flow" /\ tree[f].parent = 0 /\ tree[f].status = "running"} :
        /\ loop' = [r \in Runs |-> IF r \in again THEN "load" ELSE "off"]
        /\ tree' = [r \in Runs |-> IF r \in again \/ tree[r].status # "running" THEN tree[r]
                                  ELSE [tree[r] EXCEPT !.status = "failed"]]
        /\ stranded' = stranded \cup {r \in Runs : loop[r] # "off" /\ r \notin again}
  BY DEF ResourcesCrash
<1>2. UNCHANGED <<resource, deleted>>
  BY DEF ResourcesCrash, resourceRows
<1>3. ASSUME NEW r \in Runs
      PROVE  /\ tree'[r].kind = tree[r].kind /\ tree'[r].parent = tree[r].parent
             /\ (tree[r].status # "running" => tree'[r] = tree[r])
  <2>1. CASE r \in again \/ tree[r].status # "running"
    BY <1>1, <2>1
  <2>2. CASE r \notin again /\ tree[r].status = "running"
    <3>1. tree'[r] = [tree[r] EXCEPT !.status = "failed"]
      BY <1>1, <2>2
    <3> QED BY <2>2, <3>1 DEF ResourcesInv, ResourcesTypeOK
  <2> QED BY <2>1, <2>2
<1>4. \A q \in Runs : Ancestors(q)' = Ancestors(q)
  BY <1>3, AncSame
<1>5. ASSUME NEW j \in Runs, NEW k \in Kinds, StillToClean(j, k) \/ j \in stranded
      PROVE  \E i \in Ancestors(j) : StillToClean(i, k)' \/ i \in stranded'
  <2>1. StillToClean(j, k)' \/ j \in stranded'
    <3>1. CASE tree[j].status = "parked" \/ j \in stranded
      BY <1>1, <1>3, <3>1 DEF StillToClean
    <3>2. CASE loop[j] # "off" /\ j \in again
      BY <1>1, <3>2 DEF StillToClean
    <3>3. CASE loop[j] # "off" /\ j \notin again
      BY <1>1, <3>3
    <3> QED BY <1>5, <3>1, <3>2, <3>3 DEF StillToClean
  <2> QED BY <2>1, AncSelf
<1>6. ASSUME NEW c \in Runs, OverForGood(c) PROVE OverForGood(c)'
  <2>1. tree'[c] = tree[c] /\ loop'[c] = "off"
    BY <1>1, <1>3, <1>6 DEF OverForGood
  <2> QED BY <1>6, <2>1 DEF OverForGood
<1> QED BY <1>2, <1>3, <1>4, <1>5, <1>6, RowsStay

\* A statement of the clean-up: what it takes has the cleaner above its maker, and who
\* relies on the cleaner is of a kind whose turn is still to come.
LEMMA RowsClean == ASSUME ResourcesInv, NEW r \in Runs, Clean(r) PROVE RowsInv'
<1> DEFINE turn == Order[stage[r] + 1]
<1>1. PICK X : /\ X = {x \in Of(turn) : There(x) /\ resource[x].eph /\ resource[x].src \in Tree(r)}
               /\ Remove(X)
  BY DEF Clean, RunTree
<1>2. loop[r] = "clean" /\ tree' = tree /\ deleted' = deleted /\ stranded' = stranded
  BY DEF Clean, resourceHist
<1>3. stage \in [Runs -> 0..3] /\ Len(Order) = 4
  BY DEF ResourcesInv, ResourcesTypeOK, Order
<1>4. stage[r] \in 0..3
  BY <1>3
<1>5. /\ \A q \in Runs \ {r} : stage'[q] = stage[q] /\ loop'[q] = loop[q]
      /\ stage[r] # 3 => stage'[r] = stage[r] + 1 /\ loop'[r] = "clean"
      /\ stage[r] = 3 => loop'[r] = "off"
      /\ loop'[r] \in {"clean", "off"}
  BY <1>2, <1>3, <1>4 DEF Clean, ResourcesInv, ResourcesTypeOK
<1>6. \A q \in Runs : Ancestors(q)' = Ancestors(q)
  BY <1>2, AncSame
<1>7. OverForGood(r) /\ tree[r].kind # "call"
  BY <1>2 DEF ResourcesInv, TreeInv, Located, OverForGood
<1>8. \A q \in Runs : OverForGood(q) => OverForGood(q)'
  BY <1>2, <1>5, <1>7 DEF OverForGood
<1>9. ASSUME NEW j \in Runs, NEW k \in Kinds, StillToClean(j, k), j # r \/ k # turn PROVE StillToClean(j, k)'
  <2>1. CASE j # r
    BY <1>2, <1>5, <1>9, <2>1 DEF StillToClean
  <2>2. CASE j = r
    <3>1. tree[r].status # "parked"
      BY <1>7 DEF OverForGood
    <3>2. PICK i \in 1..Len(Order) : i > stage[r] /\ Order[i] = k
      BY <1>2, <1>9, <2>2, <3>1 DEF StillToClean
    <3>3. i # stage[r] + 1
      BY <1>9, <2>2, <3>2
    <3>4. stage[r] # 3 /\ i > stage[r] + 1
      BY <1>3, <1>4, <3>2, <3>3
    <3>5. i > stage'[r] /\ loop'[r] = "clean"
      BY <1>5, <3>4
    <3> QED BY <2>2, <3>2, <3>5 DEF StillToClean
  <2> QED BY <2>1, <2>2
<1> SUFFICES ASSUME NEW x \in Ids, NEW s \in Runs, resource'[x].src = s
             PROVE  /\ tree'[s].kind \in Builds
                    /\ There(x)' /\ resource'[x].eph =>
                         \E j \in Ancestors(s)' : StillToClean(j, KindOf[x])' \/ j \in stranded'
                    /\ resource'[x].at = "gone" /\ x \notin deleted' =>
                         \E c \in Ancestors(s)' : tree'[c].kind # "call" /\ OverForGood(c)'
  BY DEF RowsInv, MadeBy, Kept, Cleaned, There
<1>10. /\ resource'[x].src = resource[x].src /\ resource'[x].eph = resource[x].eph
       /\ resource'[x].at = (IF x \in X THEN "gone" ELSE resource[x].at)
  <2>1. resource'[x] = IF x \in X THEN [resource[x] EXCEPT !.at = "gone"] ELSE resource[x]
    BY <1>1 DEF Remove
  <2>2. CASE x \in X
    BY <2>1, <2>2 DEF ResourcesInv, ResourcesTypeOK
  <2>3. CASE x \notin X
    BY <2>1, <2>3
  <2> QED BY <2>2, <2>3
<1>11. tree[s].kind \in Builds /\ Kept(x) /\ Cleaned(x) /\ KindOf[x] \in Kinds
  BY <1>10, ResourcesAssumption DEF ResourcesInv, RowsInv, MadeBy
<1>12. ASSUME There(x)', resource'[x].eph
       PROVE  \E j \in Ancestors(s)' : StillToClean(j, KindOf[x])' \/ j \in stranded'
  <2>1. There(x) /\ resource[x].eph /\ x \notin X
    BY <1>10, <1>12 DEF There
  <2>2. PICK j \in Ancestors(s) : StillToClean(j, KindOf[x]) \/ j \in stranded
    BY <1>10, <1>11, <2>1 DEF Kept
  <2>3. j \in Runs
    BY DEF Ancestors
  <2>4. PICK k \in Kinds : k = KindOf[x]
    BY <1>11
  <2>5. j = r => k # turn
    BY <1>1, <1>10, <2>1, <2>2, <2>4 DEF Tree, Of
  <2>6. StillToClean(j, k)' \/ j \in stranded'
    BY <1>2, <1>9, <2>2, <2>3, <2>4, <2>5
  <2>7. \E i \in Ancestors(s)' : StillToClean(i, k)' \/ i \in stranded'
    BY <1>6, <2>2, <2>6
  <2> QED BY <2>4, <2>7
<1>13. ASSUME resource'[x].at = "gone", x \notin deleted'
       PROVE  \E c \in Ancestors(s)' : tree'[c].kind # "call" /\ OverForGood(c)'
  <2>1. CASE x \in X
    <3>1. r \in Ancestors(s)
      BY <1>1, <1>10, <2>1 DEF Tree
    <3> QED BY <1>2, <1>6, <1>7, <1>8, <3>1
  <2>2. CASE x \notin X
    <3>1. PICK c \in Ancestors(s) : tree[c].kind # "call" /\ OverForGood(c)
      BY <1>2, <1>10, <1>11, <1>13, <2>2 DEF Cleaned
    <3>2. c \in Runs
      BY DEF Ancestors
    <3> QED BY <1>2, <1>6, <1>8, <3>1, <3>2
  <2> QED BY <2>1, <2>2
<1> QED BY <1>2, <1>11, <1>12, <1>13

\* A tool call: what is made has its maker above it, what is promoted or deleted is nobody's
\* business any more.
LEMMA RowsTools ==
  ASSUME ResourcesInv, NEW r \in Runs, NEW x \in Ids, NEW eph \in BOOLEAN,
         InsertResource(x, r, eph) \/ AttachExisting(r, eph) \/ Promote(r, x) \/ DeleteRow(r, x)
  PROVE  RowsInv'
<1>1. tree' = tree /\ loop' = loop /\ stage' = stage /\ stranded' = stranded /\ deleted \subseteq deleted'
  BY DEF InsertResource, AttachExisting, Promote, DeleteRow, treeVars
<1>2. loop[r] = "work"
  BY DEF InsertResource, AttachExisting, Promote, DeleteRow, Works
<1>3. tree[r].kind \in Builds
  BY <1>2 DEF ResourcesInv, TreeInv, Located
<1>4. \A q \in Runs : Ancestors(q)' = Ancestors(q)
  BY <1>1, AncSame
<1>5. resource \in [Ids -> [at : {"unused", "there", "gone"}, src : Runs \cup {0}, eph : BOOLEAN]]
  BY DEF ResourcesInv, ResourcesTypeOK
<1> SUFFICES ASSUME NEW z \in Ids, NEW s \in Runs, resource'[z].src = s
             PROVE  /\ tree[s].kind \in Builds
                    /\ There(z)' /\ resource'[z].eph =>
                         \E j \in Ancestors(s) : StillToClean(j, KindOf[z]) \/ j \in stranded
                    /\ resource'[z].at = "gone" /\ z \notin deleted' =>
                         \E c \in Ancestors(s) : tree[c].kind # "call" /\ OverForGood(c)
  BY <1>1, <1>4 DEF RowsInv, MadeBy, Kept, Cleaned, There, StillToClean, OverForGood
<1>6. MadeBy(z) /\ Kept(z) /\ Cleaned(z)
  BY DEF ResourcesInv, RowsInv
<1>7. CASE resource'[z] = resource[z]
  BY <1>1, <1>6, <1>7 DEF MadeBy, Kept, Cleaned, There
<1>8. CASE InsertResource(x, r, eph) /\ z = x
  <2>1. resource'[z] = [at |-> "there", src |-> r, eph |-> eph]
    BY <1>5, <1>8 DEF InsertResource
  <2>2. s = r /\ resource'[z].at = "there"
    BY <2>1
  <2>3. StillToClean(r, KindOf[z]) /\ r \in Ancestors(r)
    BY <1>2, AncSelf DEF StillToClean
  <2> QED BY <1>3, <2>2, <2>3
<1>9. CASE Promote(r, x) /\ z = x
  <2>1. resource'[z] = [resource[z] EXCEPT !.eph = FALSE] /\ resource[z].at = "there"
    BY <1>5, <1>9 DEF Promote, There
  <2>2. resource'[z].src = resource[z].src /\ resource'[z].eph = FALSE /\ resource'[z].at = "there"
    BY <1>5, <2>1
  <2> QED BY <1>6, <2>2 DEF MadeBy
<1>10. CASE DeleteRow(r, x) /\ z = x
  <2>1. resource'[z] = [resource[z] EXCEPT !.at = "gone"] /\ z \in deleted'
    BY <1>10 DEF DeleteRow, Remove
  <2>2. resource'[z].src = resource[z].src /\ resource'[z].at = "gone"
    BY <1>5, <2>1
  <2> QED BY <1>6, <2>1, <2>2 DEF MadeBy, There
<1>11. resource'[z] = resource[z] \/ z = x
  BY <1>5 DEF InsertResource, AttachExisting, Promote, DeleteRow, Remove, resourceRows
<1>12. AttachExisting(r, eph) => resource'[z] = resource[z]
  BY DEF AttachExisting, resourceRows
<1> QED BY <1>7, <1>8, <1>9, <1>10, <1>11, <1>12

\* To begin with.
LEMMA ResourcesInitially == ASSUME ResourcesInit PROVE ResourcesInv
<1>0. /\ Runs \subseteq Nat \ {0} /\ MaxDepth \in Nat /\ MaxMoves \in Nat /\ "none" \notin Ids
      /\ KindOf \in [Ids -> Kinds]
  BY ResourcesAssumption
<1>1. PICK s \in ResourceStarts :
        /\ tree = [r \in Runs |-> IF r \in DOMAIN s.runs THEN s.runs[r] ELSE NoRun]
        /\ resource = [x \in Ids |-> IF x \in DOMAIN s.rows THEN s.rows[x] ELSE NoResource]
        /\ uses = [w \in Of("workflow") |-> s.uses] /\ moves = s.acts
  BY DEF ResourcesInit
<1>2. Starting(s)
  BY ResourcesAssumption
<1> DEFINE T0 == DOMAIN s.runs
<1>3. /\ T0 \subseteq Runs /\ \A r \in T0, q \in Runs : q < r => q \in T0
      /\ \A r \in T0 : tree[r] = s.runs[r]
      /\ \A r \in Runs \ T0 : tree[r] = NoRun
  BY <1>1, <1>2 DEF Starting
<1>4. \A r \in T0 :
        \/ tree[r] = NewRun("agent", 0, "none", 0)
        \/ tree[r] = [NewRun("agent", 0, "none", 0) EXCEPT !.status = "parked"]
        \/ \E w \in Of("workflow") : tree[r] = NewRun("flow", 0, w, 0)
        \/ \E p \in T0 : /\ p < r /\ tree[p].kind \in {"agent", "call"} /\ tree[p].status = "running"
                          /\ tree[p].depth \in 0..(MaxDepth - 1) /\ tree[r] = NewRun("call", p, "none", tree[p].depth + 1)
  BY <1>2, <1>3 DEF Starting
<1>12. \A x \in DOMAIN s.rows : \E o \in T0 \cup {0}, eph \in BOOLEAN :
         /\ s.rows[x] = [at |-> "there", src |-> o, eph |-> eph]
         /\ o # 0 => s.runs[o].kind # "flow"
  BY <1>2 DEF Starting
<1> HIDE DEF T0
<1>5. /\ loop = [r \in Runs |-> CASE tree[r].kind = "none" -> "off" [] tree[r].kind = "flow" -> "load"
                                [] tree[r].status = "parked" -> "off" [] OTHER -> "work"]
      /\ stage = [r \in Runs |-> 0] /\ nodes = [r \in Runs |-> {}]
      /\ waits = [r \in Runs |-> {c \in Runs : tree[c].parent = r /\ tree[c].kind # "node"}]
      /\ detached = {r \in Runs : tree[r].status = "parked"}
      /\ stranded = {} /\ deleted = {} /\ kept = {}
  BY DEF ResourcesInit
<1> DEFINE Absent(r) == r \notin T0 /\ tree[r] = NoRun /\ tree[r].kind = "none" /\ tree[r].parent = 0
                        /\ tree[r].status = "none" /\ loop[r] = "off"
           Agent0(r) == r \in T0 /\ tree[r].kind = "agent" /\ tree[r].parent = 0
                        /\ \/ tree[r].status = "running" /\ loop[r] = "work"
                           \/ tree[r].status = "parked" /\ loop[r] = "off"
           Flow0(r) == r \in T0 /\ tree[r].kind = "flow" /\ tree[r].parent = 0 /\ tree[r].of \in Of("workflow")
                       /\ tree[r].status = "running" /\ loop[r] = "load"
           Call0(r) == r \in T0 /\ tree[r].kind = "call" /\ tree[r].parent \in T0 /\ tree[r].parent < r
                       /\ tree[r].depth > 0 /\ tree[tree[r].parent].kind \in {"agent", "call"}
                       /\ tree[tree[r].parent].status = "running" /\ tree[r].status = "running" /\ loop[r] = "work"
<1>6. ASSUME NEW r \in Runs
      PROVE  tree[r] \in RunRow /\ (Absent(r) \/ Agent0(r) \/ Flow0(r) \/ Call0(r))
  <2>0. loop[r] = CASE tree[r].kind = "none" -> "off" [] tree[r].kind = "flow" -> "load"
                    [] tree[r].status = "parked" -> "off" [] OTHER -> "work"
    BY <1>5
  <2>1. CASE r \notin T0
    <3>1. tree[r] = NoRun
      BY <1>3, <2>1
    <3>2. tree[r] \in RunRow
      BY <1>0, <3>1 DEF RunRow, NoRun
    <3>3. tree[r].kind = "none" /\ tree[r].parent = 0 /\ tree[r].status = "none"
      BY <3>1 DEF NoRun
    <3> QED BY <2>0, <2>1, <3>1, <3>2, <3>3
  <2>2. CASE r \in T0 /\ tree[r] = NewRun("agent", 0, "none", 0)
    <3>1. tree[r] \in RunRow
      BY <1>0, <2>2 DEF RunRow, NewRun
    <3>2. tree[r].kind = "agent" /\ tree[r].parent = 0 /\ tree[r].status = "running"
      BY <2>2 DEF NewRun
    <3> QED BY <2>0, <2>2, <3>1, <3>2
  <2>3. CASE r \in T0 /\ tree[r] = [NewRun("agent", 0, "none", 0) EXCEPT !.status = "parked"]
    <3>1. tree[r] \in RunRow
      BY <1>0, <2>3 DEF RunRow, NewRun
    <3>2. tree[r].kind = "agent" /\ tree[r].parent = 0 /\ tree[r].status = "parked"
      BY <2>3 DEF NewRun
    <3> QED BY <2>0, <2>3, <3>1, <3>2
  <2>4. CASE r \in T0 /\ \E w \in Of("workflow") : tree[r] = NewRun("flow", 0, w, 0)
    <3>0. PICK w \in Of("workflow") : tree[r] = NewRun("flow", 0, w, 0)
      BY <2>4
    <3>1. tree[r] \in RunRow
      BY <1>0, <3>0 DEF RunRow, NewRun, Of
    <3>2. tree[r].kind = "flow" /\ tree[r].parent = 0 /\ tree[r].status = "running" /\ tree[r].of \in Of("workflow")
      BY <3>0 DEF NewRun
    <3> QED BY <2>0, <2>4, <3>1, <3>2
  <2>5. CASE r \in T0 /\ \E p \in T0 : /\ p < r /\ tree[p].kind \in {"agent", "call"} /\ tree[p].status = "running"
                                       /\ tree[p].depth \in 0..(MaxDepth - 1)
                                       /\ tree[r] = NewRun("call", p, "none", tree[p].depth + 1)
    <3>1. PICK p \in T0 : /\ p < r /\ tree[p].kind \in {"agent", "call"} /\ tree[p].status = "running"
                          /\ tree[p].depth \in 0..(MaxDepth - 1)
                          /\ tree[r] = NewRun("call", p, "none", tree[p].depth + 1)
      BY <2>5
    <3>2. PICK d \in 0..MaxDepth : d > 0 /\ d = tree[p].depth + 1
      BY <1>0, <3>1
    <3>3. tree[r] = [kind |-> "call", parent |-> p, of |-> "none", depth |-> d, status |-> "running"]
      BY <3>1, <3>2 DEF NewRun
    <3>4. tree[r].kind = "call" /\ tree[r].parent = p /\ tree[r].depth = d /\ tree[r].status = "running"
      BY <3>3
    <3>5. tree[r] \in RunRow
      <4>1. p \in Runs
        BY <1>3
      <4> QED BY <3>3, <4>1 DEF RunRow
    <3> QED BY <2>0, <2>5, <3>1, <3>2, <3>4, <3>5
  <2> QED BY <1>4, <2>1, <2>2, <2>3, <2>4, <2>5
<1>7. \A r \in Runs : tree[r] \in RunRow
  BY <1>6
<1> HIDE DEF Absent, Agent0, Flow0, Call0
<1>8. ASSUME NEW x \in Ids
      PROVE  \/ resource[x] = NoResource
             \/ \E o \in T0 \cup {0}, eph \in BOOLEAN :
                  /\ resource[x] = [at |-> "there", src |-> o, eph |-> eph]
                  /\ o # 0 => tree[o].kind # "flow"
  <2>1. CASE x \in DOMAIN s.rows
    <3>1. resource[x] = s.rows[x]
      BY <1>1, <2>1
    <3>2. \E o \in T0 \cup {0}, eph \in BOOLEAN :
            /\ resource[x] = [at |-> "there", src |-> o, eph |-> eph]
            /\ o # 0 => s.runs[o].kind # "flow"
      BY <1>12, <2>1, <3>1
    <3> QED BY <1>3, <3>2
  <2>2. CASE x \notin DOMAIN s.rows
    BY <1>1, <2>2
  <2> QED BY <2>1, <2>2
<1>9. ResourcesTypeOK
  <2> DEFINE Rows == [at : {"unused", "there", "gone"}, src : Runs \cup {0}, eph : BOOLEAN]
  <2>1. resource \in [Ids -> Rows]
    <3>1. ASSUME NEW x \in Ids PROVE resource[x] \in Rows
      <4>1. CASE resource[x] = NoResource
        BY <4>1 DEF NoResource
      <4>2. CASE resource[x] # NoResource
        <5>1. PICK o \in T0 \cup {0}, eph \in BOOLEAN : resource[x] = [at |-> "there", src |-> o, eph |-> eph]
          BY <1>8, <4>2
        <5>2. o \in Runs \cup {0}
          BY <1>3
        <5> QED BY <5>1, <5>2
      <4> QED BY <4>1, <4>2
    <3>2. resource = [x \in Ids |-> resource[x]]
      BY <1>1
    <3> HIDE DEF Rows
    <3> QED BY <3>1, <3>2
  <2>2. tree \in [Runs -> RunRow]
    <3>1. tree = [r \in Runs |-> tree[r]]
      BY <1>1
    <3> HIDE DEF RunRow
    <3> QED BY <1>7, <3>1
  <2>3. uses \in [Of("workflow") -> SUBSET Of("agent")] /\ moves \in 0..MaxMoves
    BY <1>1, <1>2 DEF Starting
  <2>4. loop \in [Runs -> {"off", "work", "load", "walk", "clean"}]
    <3>1. \A r \in Runs : loop[r] \in {"off", "work", "load"}
      BY <1>6 DEF Absent, Agent0, Flow0, Call0
    <3>2. loop = [r \in Runs |-> loop[r]]
      BY <1>5
    <3> QED BY <3>1, <3>2
  <2>5. stage \in [Runs -> 0..(Len(Order) - 1)]
    BY <1>5 DEF Order
  <2>6. nodes \in [Runs -> SUBSET Of("agent")] /\ waits \in [Runs -> SUBSET Runs]
    BY <1>5
  <2>7. detached \subseteq Runs /\ stranded \subseteq Runs /\ deleted \subseteq Ids /\ kept \subseteq Ids
    BY <1>5
  <2> QED BY <2>1, <2>2, <2>3, <2>4, <2>5, <2>6, <2>7 DEF ResourcesTypeOK, RunRow
<1>10. ASSUME NEW r \in Runs PROVE Related(r) /\ Located(r) /\ Walking(r) /\ Awaited(r)
  <2>0. Absent(r) \/ Agent0(r) \/ Flow0(r) \/ Call0(r)
    BY <1>6
  <2>1. Related(r)
    <3>1. CASE r \notin T0
      <4>1. \A q \in Runs : q > r => q \notin T0
        BY <1>3, <3>1
      <4>2. tree[r] = NoRun /\ tree[r].kind = "none" /\ tree[r].parent = 0
        BY <2>0, <3>1 DEF Absent, Agent0, Flow0, Call0
      <4>3. \A q \in Runs : q > r => tree[q].kind = "none"
        BY <1>3, <4>1 DEF NoRun
      <4> QED BY <4>2, <4>3 DEF Related
    <3>2. CASE r \in T0
      <4>1. T0 \subseteq Runs /\ 0 \notin T0
        BY <1>0, <1>3
      <4> QED BY <2>0, <3>2, <4>1 DEF Related, Builds, Absent, Agent0, Flow0, Call0
    <3> QED BY <3>1, <3>2
  <2>2. stage[r] = 0 /\ nodes[r] = {} /\ (tree[r].status = "parked" => r \in detached)
    BY <1>5
  <2>3. Located(r) /\ Walking(r)
    BY <2>0, <2>2 DEF Located, Walking, Running, Builds, Absent, Agent0, Flow0, Call0
  <2>4. ASSUME NEW c \in waits[r]
        PROVE  tree[c].kind = "call" /\ tree[c].parent = r /\ loop[r] = "work"
    <3>1. c \in Runs /\ tree[c].parent = r /\ tree[c].kind # "node" /\ r # 0
      BY <1>0, <1>5
    <3>2. tree[c].kind = "call" /\ tree[r].kind \in {"agent", "call"} /\ tree[r].status = "running"
      BY <1>6, <3>1 DEF Absent, Agent0, Flow0, Call0
    <3> QED BY <2>0, <3>1, <3>2 DEF Absent, Agent0, Flow0, Call0
  <2>5. tree[r].kind = "call" => r \in waits[tree[r].parent]
    <3>1. tree[r].kind = "call" => tree[r].parent \in Runs
      BY <1>3, <2>0 DEF Absent, Agent0, Flow0, Call0
    <3> QED BY <1>5, <3>1
  <2>6. tree[r].kind # "node" /\ (tree[r].kind = "flow" => tree[r].parent = 0)
    BY <2>0 DEF Absent, Agent0, Flow0, Call0
  <2>7. Awaited(r)
    <3>1. waits[r] # {} => loop[r] = "work"
      BY <2>4
    <3>2. \A c \in waits[r] : tree[c].kind = "call" /\ tree[c].parent = r
      BY <2>4
    <3> QED BY <2>5, <2>6, <3>1, <3>2 DEF Awaited
  <2> QED BY <2>1, <2>3, <2>7
<1>11. RowsInv
  <2> SUFFICES ASSUME NEW x \in Ids, NEW o \in Runs, resource[x].src = o
               PROVE  tree[o].kind \in Builds /\ StillToClean(o, KindOf[x]) /\ resource[x].at # "gone"
    BY AncSelf DEF RowsInv, MadeBy, Kept, Cleaned
  <2>1. o # 0
    BY <1>0
  <2>2. o \in T0 /\ tree[o].kind # "flow" /\ resource[x].at = "there"
    <3>1. resource[x] # NoResource
      BY <2>1 DEF NoResource
    <3>2. PICK m \in T0 \cup {0}, eph \in BOOLEAN :
            /\ resource[x] = [at |-> "there", src |-> m, eph |-> eph]
            /\ m # 0 => tree[m].kind # "flow"
      BY <1>8, <3>1
    <3>3. resource[x].src = m /\ resource[x].at = "there"
      BY <3>2
    <3>4. m = o
      BY <3>3
    <3> QED BY <2>1, <3>2, <3>3, <3>4
  <2>3. Agent0(o) \/ Call0(o)
    BY <1>6, <2>2 DEF Absent, Agent0, Flow0, Call0
  <2> QED BY <2>2, <2>3 DEF Builds, StillToClean, Agent0, Call0
<1> QED BY <1>9, <1>10, <1>11 DEF ResourcesInv, TreeInv

(* ---- The invariant, action by action. ---- *)

\* A tool call leaves the tree of runs alone.
LEMMA ToolKeeps ==
  ASSUME ResourcesInv, NEW r \in Runs, NEW x \in Ids, NEW eph \in BOOLEAN,
         \/ InsertResource(x, r, eph) /\ (UNCHANGED uses \/ CreateWorkflow(r, x, eph))
         \/ AttachExisting(r, eph)
         \/ Promote(r, x)
         \/ DeleteRow(r, x)
  PROVE  ResourcesInv'
<1>1. UNCHANGED treeVars /\ UNCHANGED detached
  BY DEF InsertResource, AttachExisting, Promote, DeleteRow
<1>2. TreeInv'
  BY <1>1, TreeSame DEF ResourcesInv
<1>3. ResourcesTypeOK'
  BY RowTypes DEF ResourcesInv
<1>4. RowsInv'
  BY RowsTools
<1> QED BY <1>2, <1>3, <1>4 DEF ResourcesInv

LEMMA ToolsKeep == ASSUME ResourcesInv, NEW r \in Runs, Tools(r) PROVE ResourcesInv' \/ \E c \in Runs :
                     CallAgent(r, c) \/ \E w \in Of("workflow") : RunWorkflow(r, c, w)
<1>1. ASSUME NEW x \in Ids, NEW eph \in BOOLEAN,
             \/ CreateAgent(r, x, eph) \/ CreateSkill(r, x, eph) \/ CreateHttpTool(r, x, eph)
             \/ CreateCodeTool(r, x, eph) \/ CreateWorkflow(r, x, eph)
      PROVE  ResourcesInv'
  <2>1. \/ InsertResource(x, r, eph) /\ (UNCHANGED uses \/ CreateWorkflow(r, x, eph))
        \/ AttachExisting(r, eph)
    BY <1>1 DEF CreateAgent, CreateSkill, CreateHttpTool, CreateCodeTool, CreateWorkflow
  <2> QED BY <2>1, ToolKeeps
<1>2. ASSUME NEW x \in Ids, \/ Promote(r, x) \/ DeleteAgent(r, x) \/ DeleteSkill(r, x) \/ DeleteTool(r, x)
                            \/ DeleteWorkflow(r, x)
      PROVE  ResourcesInv'
  <2>1. Promote(r, x) \/ DeleteRow(r, x)
    BY <1>2 DEF DeleteAgent, DeleteSkill, DeleteTool, DeleteWorkflow
  <2> QED BY <2>1, ToolKeeps
<1> QED BY <1>1, <1>2 DEF Tools

\* Runs that begin.
LEMMA StartsKeep ==
  ASSUME ResourcesInv, NEW r \in Runs,
         \/ Invoke(r)
         \/ \E c \in Runs : CallAgent(r, c)
         \/ \E f \in Runs, w \in Of("workflow") : RunWorkflow(r, f, w)
         \/ \E n \in Runs, a \in nodes[r] : StartNode(r, n, a)
  PROVE  ResourcesInv'
<1>0. Runs \subseteq Nat \ {0} /\ MaxDepth \in Nat
  BY ResourcesAssumption
<1>1. ResourcesTypeOK'
  BY StartTypes DEF ResourcesInv
<1>2. CASE Invoke(r)
  <2> DEFINE new == NewRun("agent", 0, "none", 0)
  <2>1. new \in RunRow /\ new.status = "running" /\ new.parent = 0 /\ new.kind = "agent"
    BY <1>0 DEF RunRow, NewRun
  <2> HIDE DEF new
  <2>2. Begin(r, new, "work") /\ UNCHANGED <<resource, deleted, stage, stranded, nodes, waits, detached>>
    BY <1>2 DEF Invoke, new, resourceRows, resourceHist
  <2>3. TreeInv'
    BY <1>1, <2>1, <2>2, TreeGrows DEF ResourcesInv
  <2>4. RowsInv'
    BY <2>2, RowsBegin
  <2> QED BY <1>1, <2>3, <2>4 DEF ResourcesInv
<1>3. ASSUME NEW c \in Runs, CallAgent(r, c) PROVE ResourcesInv'
  <2> DEFINE new == NewRun("call", r, "none", tree[r].depth + 1)
  <2>1. tree[r].depth \in 0..MaxDepth /\ tree[r].depth < MaxDepth
    BY <1>3 DEF ResourcesInv, ResourcesTypeOK, CallAgent
  <2>2. tree[r].depth + 1 \in 1..MaxDepth
    BY <1>0, <2>1
  <2>3. new \in RunRow
    BY <1>0, <2>2 DEF RunRow, NewRun
  <2>4. new.status = "running" /\ new.parent = r /\ new.kind = "call" /\ new.depth > 0
    BY <1>0, <2>2 DEF NewRun
  <2> HIDE DEF new
  <2>5. /\ Begin(c, new, "work") /\ UNCHANGED <<resource, deleted, stage, stranded, nodes, detached>>
        /\ loop[r] = "work" /\ \A w \in waits[r] : tree[w].kind = "call"
        /\ waits' = [waits EXCEPT ![r] = @ \cup {c}]
    BY <1>3 DEF CallAgent, new, resourceRows, resourceHist
  <2>6. TreeInv'
    <3>1. r # 0 /\ r \in Runs \cup {0} /\ \A q \in Runs : nodes'[q] \subseteq nodes[q]
      BY <1>0, <2>5
    <3> QED BY <1>1, <2>3, <2>4, <2>5, <3>1, TreeGrows DEF ResourcesInv
  <2>7. RowsInv'
    BY <2>5, RowsBegin
  <2> QED BY <1>1, <2>6, <2>7 DEF ResourcesInv
<1>4. ASSUME NEW f \in Runs, NEW w \in Of("workflow"), RunWorkflow(r, f, w) PROVE ResourcesInv'
  <2> DEFINE new == NewRun("flow", r, w, 0)
  <2>1. new \in RunRow
    BY <1>0 DEF RunRow, NewRun, Of
  <2>2. new.status = "running" /\ new.parent = r /\ new.kind = "flow" /\ new.of = w
    BY DEF NewRun
  <2> HIDE DEF new
  <2>3. /\ Begin(f, new, "load") /\ UNCHANGED <<resource, deleted, stage, stranded, nodes, detached>>
        /\ loop[r] = "work" /\ waits[r] = {} /\ waits' = [waits EXCEPT ![r] = {f}]
    BY <1>4 DEF RunWorkflow, Works, new, resourceRows, resourceHist
  <2>4. TreeInv'
    <3>1. r # 0 /\ r \in Runs \cup {0} /\ \A q \in Runs : nodes'[q] \subseteq nodes[q]
      BY <1>0, <2>3
    <3> QED BY <1>1, <2>1, <2>2, <2>3, <3>1, TreeGrows DEF ResourcesInv
  <2>5. RowsInv'
    BY <2>3, RowsBegin
  <2> QED BY <1>1, <2>4, <2>5 DEF ResourcesInv
<1>5. ASSUME NEW n \in Runs, NEW a \in nodes[r], StartNode(r, n, a) PROVE ResourcesInv'
  <2> DEFINE new == NewRun("node", r, a, 0)
  <2>1. a \in Ids
    BY DEF ResourcesInv, ResourcesTypeOK, Of
  <2>2. new \in RunRow
    BY <1>0, <2>1 DEF RunRow, NewRun
  <2>3. new.status = "running" /\ new.parent = r /\ new.kind = "node"
    BY DEF NewRun
  <2> HIDE DEF new
  <2>4. /\ UNCHANGED <<resource, deleted, stage, stranded, waits, detached>> /\ loop[r] = "walk"
        /\ nodes' = [nodes EXCEPT ![r] = @ \ {a}]
    BY <1>5 DEF StartNode, resourceRows, resourceHist
  <2>5. (\A q \in Runs : nodes'[q] \subseteq nodes[q]) /\ (\A q \in Runs \ {r} : nodes'[q] = nodes[q])
    BY <2>4 DEF ResourcesInv, ResourcesTypeOK
  <2>6. Running(r) /\ Located(r) /\ Walking(r) /\ Related(r)
    BY DEF ResourcesInv, TreeInv, Walking
  <2>7. CASE There(a)
    <3>1. Begin(n, new, "work")
      BY <1>5, <2>7 DEF StartNode, new
    <3>2. TreeInv'
      <4>1. r # 0 /\ r \in Runs \cup {0}
        BY <1>0
      <4> QED BY <1>1, <2>2, <2>3, <2>4, <2>5, <2>6, <3>1, <4>1, TreeGrows DEF ResourcesInv
    <3>3. RowsInv'
      BY <2>4, <3>1, RowsBegin
    <3> QED BY <1>1, <3>2, <3>3 DEF ResourcesInv
  <2>8. CASE ~There(a)
    <3>1. tree' = tree /\ loop' = loop
      BY <1>5, <2>8 DEF StartNode
    <3>2. \A q \in Runs : Related(q)' /\ Located(q)' /\ Walking(q)' /\ Awaited(q)'
      BY <2>4, <2>5, <3>1 DEF ResourcesInv, TreeInv, Related, Located, Walking, Awaited, Running
    <3>3. RowsInv'
      <4>1. \A q \in Runs : Ancestors(q)' = Ancestors(q)
        BY <3>1, AncSame
      <4>2. \A j \in Runs, k \in Kinds : StillToClean(j, k) \/ j \in stranded =>
              \E i \in Ancestors(j) : StillToClean(i, k)' \/ i \in stranded'
        BY <2>4, <3>1, AncSelf DEF StillToClean
      <4>3. \A c \in Runs : OverForGood(c) => OverForGood(c)'
        BY <3>1 DEF OverForGood
      <4> QED BY <2>4, <3>1, <4>1, <4>2, <4>3, RowsStay
    <3> QED BY <1>1, <3>2, <3>3 DEF ResourcesInv, TreeInv
  <2> QED BY <2>7, <2>8
<1> QED BY <1>2, <1>3, <1>4, <1>5

\* A run's status changes, nothing else about its row.
LEMMA OtherStatus ==
  ASSUME ResourcesTypeOK, NEW r \in Runs, NEW st, tree' = [tree EXCEPT ![r].status = st]
  PROVE  /\ \A q \in Runs : /\ tree'[q].kind = tree[q].kind /\ tree'[q].parent = tree[q].parent
                            /\ tree'[q].of = tree[q].of /\ tree'[q].depth = tree[q].depth
         /\ \A q \in Runs \ {r} : tree'[q] = tree[q]
         /\ tree'[r].status = st
<1>1. tree'[r] = [tree[r] EXCEPT !.status = st] /\ \A q \in Runs \ {r} : tree'[q] = tree[q]
  BY DEF ResourcesTypeOK
<1>2. /\ tree'[r].kind = tree[r].kind /\ tree'[r].parent = tree[r].parent /\ tree'[r].of = tree[r].of
      /\ tree'[r].depth = tree[r].depth /\ tree'[r].status = st
  BY <1>1 DEF ResourcesTypeOK
<1> QED BY <1>1, <1>2

\* The caller goes on: its sub-agents are off, its workflow is over or let go.
LEMMA ReturnKeeps == ASSUME ResourcesInv, NEW r \in Runs, Return(r) \/ StopPolling(r) PROVE ResourcesInv'
<1>1. ResourcesTypeOK'
  BY LoopTypes DEF ResourcesInv
<1>2. /\ UNCHANGED <<resource, deleted, tree, loop, stage, nodes, stranded>> /\ loop[r] = "work"
      /\ waits' = [waits EXCEPT ![r] = {}] /\ detached \subseteq detached'
  BY DEF Return, StopPolling, resourceRows, resourceHist
<1>3. waits'[r] = {} /\ \A q \in Runs \ {r} : waits'[q] = waits[q]
  BY <1>2 DEF ResourcesInv, ResourcesTypeOK
<1>4. Related(r) /\ Located(r) /\ Walking(r) /\ Awaited(r)
  BY DEF ResourcesInv, TreeInv
<1>5. ASSUME NEW c \in waits[r]
      PROVE  /\ tree[c].kind = "call" => loop[c] = "off"
             /\ tree[c].kind = "flow" => c \in detached' \/ loop[c] \notin {"load", "walk"} \/ tree[c].status # "running"
  <2>1. CASE Return(r)
    BY <2>1 DEF Return, Over
  <2>2. CASE StopPolling(r)
    <3>1. PICK f \in waits[r] : tree[f].kind = "flow" /\ detached' = detached \cup {f}
      BY <2>2 DEF StopPolling
    <3>2. c = f
      BY <1>4, <3>1 DEF Awaited
    <3> QED BY <3>1, <3>2
  <2> QED BY <2>1, <2>2
<1>6. tree[r].kind \in Builds /\ tree[r].kind # "none" /\ tree'[r].status # "none" /\ loop'[r] = "work"
  BY <1>2, <1>4 DEF Located, Builds
<1>7. Located(r)' /\ Walking(r)'
  BY <1>2, <1>4 DEF Located, Walking, Running
<1>8. \A n \in Runs \ {r} : tree[n].kind = "node" => tree[n].parent # r
  BY <1>6 DEF ResourcesInv, TreeInv, Related, Builds
<1>9. TreeInv'
  BY <1>1, <1>2, <1>3, <1>5, <1>6, <1>7, <1>8, TreeMoves DEF ResourcesInv, Builds
<1>10. RowsInv'
  <2>1. ~OverForGood(r) /\ \A k \in Kinds : StillToClean(r, k)'
    BY <1>2 DEF OverForGood, StillToClean
  <2> QED BY <1>2, <2>1, RowsMove
<1> QED BY <1>1, <1>9, <1>10 DEF ResourcesInv

\* The agent's loop ends, or hands its state over to the table of runs.
LEMMA EndKeeps == ASSUME ResourcesInv, NEW r \in Runs, EndLoop(r) \/ Park(r) PROVE ResourcesInv'
<1>1. ResourcesTypeOK'
  BY LoopTypes DEF ResourcesInv
<1>2. PICK st \in {"ended", "parked"}, at \in {"clean", "off"} :
        /\ tree' = [tree EXCEPT ![r].status = st] /\ loop' = [loop EXCEPT ![r] = at]
        /\ \/ st = "parked" /\ at = "off" /\ Park(r)
           \/ st = "ended" /\ at = (IF tree[r].kind # "call" THEN "clean" ELSE "off") /\ EndLoop(r)
  BY DEF EndLoop, Park, CleansUp
<1>3. /\ UNCHANGED <<resource, deleted, stage, nodes, waits, stranded>> /\ loop[r] = "work" /\ waits[r] = {}
      /\ detached \subseteq detached' /\ (st = "parked" => r \in detached' /\ tree[r].depth = 0)
  BY <1>2 DEF EndLoop, Park, Works, resourceRows, resourceHist
<1>4. Related(r) /\ Located(r) /\ Walking(r) /\ Awaited(r)
  BY DEF ResourcesInv, TreeInv
<1>5. /\ \A q \in Runs : /\ tree'[q].kind = tree[q].kind /\ tree'[q].parent = tree[q].parent
                         /\ tree'[q].of = tree[q].of /\ tree'[q].depth = tree[q].depth
      /\ \A q \in Runs \ {r} : tree'[q] = tree[q]
      /\ tree'[r].status = st
  BY <1>2, OtherStatus DEF ResourcesInv
<1>6. loop'[r] = at /\ \A q \in Runs \ {r} : loop'[q] = loop[q]
  BY <1>2 DEF ResourcesInv, ResourcesTypeOK
<1>7. tree[r].kind \in Builds /\ tree[r].kind # "none" /\ tree'[r].status # "none"
  BY <1>3, <1>4, <1>5 DEF Located, Builds
<1>8. nodes[r] = {} /\ stage[r] = 0
  BY <1>3, <1>4 DEF Located
<1>9. Located(r)' /\ Walking(r)'
  <2>1. st = "parked" => tree[r].kind \in {"agent", "node"}
    <3>1. st = "parked" => ~(tree[r].depth > 0)
      BY <1>3
    <3> QED BY <1>4, <1>7, <3>1 DEF Related, Builds
  <2>2. Located(r)'
    BY <1>2, <1>3, <1>5, <1>6, <1>8, <2>1 DEF Located
  <2> QED BY <1>3, <1>6, <1>8, <2>2, <1>2 DEF Walking
<1>10. \A n \in Runs \ {r} : tree[n].kind = "node" => tree[n].parent # r
  BY <1>7 DEF ResourcesInv, TreeInv, Related, Builds
<1>11. TreeInv'
  <2>1. /\ waits'[r] \subseteq waits[r] /\ waits'[r] = {} /\ waits[r] = {}
        /\ \A q \in Runs \ {r} : stage'[q] = stage[q] /\ nodes'[q] = nodes[q] /\ waits'[q] = waits[q]
        /\ loop'[r] \notin {"work", "load", "walk"} /\ tree[r].kind # "flow"
    BY <1>2, <1>3, <1>6, <1>7 DEF Builds
  <2> QED BY <1>1, <1>3, <1>5, <1>6, <1>7, <1>9, <1>10, <2>1, TreeMoves DEF ResourcesInv
<1>12. RowsInv'
  <2>1. ~OverForGood(r)
    BY <1>3 DEF OverForGood
  <2>2. tree[r].kind # "call" => \A k \in Kinds : StillToClean(r, k)'
    <3>1. CASE st = "parked"
      BY <1>5, <3>1 DEF StillToClean
    <3>2. CASE st = "ended" /\ tree[r].kind # "call"
      <4>1. loop'[r] = "clean" /\ stage'[r] = 0
        BY <1>2, <1>3, <1>6, <1>8, <3>2
      <4>2. \A k \in Kinds : \E i \in 1..Len(Order) : i > 0 /\ Order[i] = k
        BY DEF Kinds, Order
      <4> QED BY <4>1, <4>2 DEF StillToClean
    <3> QED BY <3>1, <3>2
  <2>3. \A q \in Runs \ {r} : stage'[q] = stage[q]
    BY <1>3
  <2> QED BY <1>3, <1>5, <1>6, <2>1, <2>2, <2>3, RowsMove
<1> QED BY <1>1, <1>11, <1>12 DEF ResourcesInv

\* A parked run is taken up again, or cancelled, which strands what it has made.
LEMMA ParkedKeeps == ASSUME ResourcesInv, NEW r \in Runs, Resume(r) \/ CancelParked(r) PROVE ResourcesInv'
<1>1. ResourcesTypeOK'
  BY LoopTypes DEF ResourcesInv
<1>2. PICK st \in {"running", "ended"} :
        /\ tree' = [tree EXCEPT ![r].status = st]
        /\ st = "running" => loop' = [loop EXCEPT ![r] = "work"]
        /\ st = "ended" => loop' = loop /\ r \in stranded'
  BY DEF Resume, CancelParked
<1>3. /\ UNCHANGED <<resource, deleted, stage, nodes, waits, detached>> /\ tree[r].status = "parked"
      /\ stranded \subseteq stranded'
  BY DEF Resume, CancelParked, resourceRows, resourceHist
<1>4. Related(r) /\ Located(r) /\ Walking(r) /\ Awaited(r)
  BY DEF ResourcesInv, TreeInv
<1>5. /\ \A q \in Runs : /\ tree'[q].kind = tree[q].kind /\ tree'[q].parent = tree[q].parent
                         /\ tree'[q].of = tree[q].of /\ tree'[q].depth = tree[q].depth
      /\ \A q \in Runs \ {r} : tree'[q] = tree[q]
      /\ tree'[r].status = st
  BY <1>2, OtherStatus DEF ResourcesInv
<1>6. loop[r] = "off" /\ tree[r].kind \in {"agent", "node"} /\ r \in detached
  BY <1>3, <1>4 DEF Located
<1>7. loop'[r] = (IF st = "running" THEN "work" ELSE "off") /\ \A q \in Runs \ {r} : loop'[q] = loop[q]
  BY <1>2, <1>6 DEF ResourcesInv, ResourcesTypeOK
<1>8. nodes[r] = {} /\ stage[r] = 0 /\ waits[r] = {}
  BY <1>4, <1>6 DEF Located, Awaited
<1>9. Located(r)' /\ Walking(r)'
  BY <1>3, <1>5, <1>6, <1>7, <1>8 DEF Located, Walking, Builds
<1>10. \A n \in Runs \ {r} : tree[n].kind = "node" => tree[n].parent # r
  BY <1>6 DEF ResourcesInv, TreeInv, Related
<1>11. TreeInv'
  <2>1. /\ waits'[r] = {} /\ waits[r] = {} /\ detached' = detached
        /\ \A q \in Runs \ {r} : stage'[q] = stage[q] /\ nodes'[q] = nodes[q] /\ waits'[q] = waits[q]
        /\ tree[r].kind \notin {"flow", "call", "none"} /\ tree'[r].status # "none" /\ r \in detached'
    BY <1>3, <1>5, <1>6, <1>8
  <2> QED BY <1>1, <1>5, <1>7, <1>9, <1>10, <2>1, TreeMoves DEF ResourcesInv
<1>12. RowsInv'
  <2>1. ~OverForGood(r)
    BY <1>3 DEF OverForGood
  <2>2. r \in stranded' \/ \A k \in Kinds : StillToClean(r, k)'
    BY <1>2, <1>7 DEF StillToClean
  <2>3. \A q \in Runs \ {r} : stage'[q] = stage[q]
    BY <1>3
  <2> QED BY <1>3, <1>5, <1>7, <2>1, <2>2, <2>3, RowsMove
<1> QED BY <1>1, <1>11, <1>12 DEF ResourcesInv

\* A workflow's walk, but for the start of a node's run.
LEMMA WalkKeeps ==
  ASSUME ResourcesInv, NEW f \in Runs, LoadGraph(f) \/ FailWalk(f) \/ CancelFlow(f) \/ EndWalk(f)
  PROVE  ResourcesInv'
<1>1. ResourcesTypeOK'
  BY WalkTypes DEF ResourcesInv
<1>2. Related(f) /\ Located(f) /\ Walking(f) /\ Awaited(f)
  BY DEF ResourcesInv, TreeInv
<1>3. tree[f].kind = "flow"
  BY <1>2 DEF LoadGraph, FailWalk, CancelFlow, EndWalk, Located
<1>4. PICK st : /\ tree' = [tree EXCEPT ![f].status = st]
                /\ st = tree[f].status \/ (tree[f].status = "running" /\ st \in {"failed", "cancelled", "ended"})
  <2>1. CASE LoadGraph(f)
    <3>1. PICK there \in BOOLEAN :
            tree' = [tree EXCEPT ![f].status = IF ~there /\ tree[f].status = "running" THEN "failed" ELSE tree[f].status]
      BY <2>1 DEF LoadGraph
    <3>2. PICK st : st = IF ~there /\ tree[f].status = "running" THEN "failed" ELSE tree[f].status
      OBVIOUS
    <3> QED BY <3>1, <3>2
  <2>2. CASE FailWalk(f) \/ CancelFlow(f)
    BY <2>2 DEF FailWalk, CancelFlow
  <2>3. CASE EndWalk(f)
    <3>1. PICK st : st = IF tree[f].status = "running" THEN "ended" ELSE tree[f].status
      OBVIOUS
    <3> QED BY <2>3, <3>1 DEF EndWalk
  <2> QED BY <2>1, <2>2, <2>3
<1>5. /\ \A q \in Runs : /\ tree'[q].kind = tree[q].kind /\ tree'[q].parent = tree[q].parent
                         /\ tree'[q].of = tree[q].of /\ tree'[q].depth = tree[q].depth
      /\ \A q \in Runs \ {f} : tree'[q] = tree[q]
      /\ tree'[f].status = st
  BY <1>4, OtherStatus DEF ResourcesInv
<1>6. /\ UNCHANGED <<resource, deleted, stage, waits, stranded>>
      /\ detached \subseteq detached'
      /\ \A q \in Runs \ {f} : nodes'[q] = nodes[q] /\ loop'[q] = loop[q]
  BY DEF LoadGraph, FailWalk, CancelFlow, EndWalk, resourceRows, resourceHist, ResourcesInv, ResourcesTypeOK
<1>7. waits[f] = {} /\ loop[f] # "work"
  BY <1>2, <1>3 DEF Located, Awaited, Builds
<1>8. \/ /\ loop[f] = "load" /\ loop'[f] = "walk" /\ (nodes'[f] # {} => st = tree[f].status) /\ detached' = detached
      \/ /\ loop'[f] = loop[f] /\ nodes'[f] = nodes[f] /\ tree[f].status = "running" /\ f \in detached'
      \/ /\ loop[f] = "walk" /\ loop'[f] = "clean" /\ nodes'[f] = {} /\ st # "running" /\ detached' = detached
         /\ AllReturned(f)
  <2>1. CASE LoadGraph(f)
    <3>1. loop[f] = "load" /\ loop'[f] = "walk" /\ detached' = detached
      BY <2>1 DEF LoadGraph, ResourcesInv, ResourcesTypeOK, resourceHist
    <3>2. PICK there \in BOOLEAN :
            /\ nodes' = [nodes EXCEPT ![f] = IF there THEN uses[tree[f].of] ELSE {}]
            /\ tree' = [tree EXCEPT ![f].status = IF ~there /\ tree[f].status = "running" THEN "failed" ELSE tree[f].status]
      BY <2>1 DEF LoadGraph
    <3>3. CASE there
      <4>1. tree' = [tree EXCEPT ![f].status = tree[f].status]
        BY <3>2, <3>3
      <4>2. tree'[f].status = tree[f].status
        BY <4>1, OtherStatus DEF ResourcesInv
      <4> QED BY <1>5, <3>1, <4>2
    <3>4. CASE ~there
      <4>1. nodes'[f] = {}
        BY <3>2, <3>4 DEF ResourcesInv, ResourcesTypeOK
      <4> QED BY <3>1, <4>1
    <3> QED BY <3>3, <3>4
  <2>2. CASE FailWalk(f) \/ CancelFlow(f)
    BY <2>2 DEF FailWalk, CancelFlow
  <2>3. CASE EndWalk(f)
    <3>1. /\ loop[f] = "walk" /\ loop'[f] = "clean" /\ nodes'[f] = {} /\ detached' = detached /\ AllReturned(f)
      BY <2>3 DEF EndWalk, ResourcesInv, ResourcesTypeOK, resourceHist
    <3>2. tree' = [tree EXCEPT ![f].status = IF tree[f].status = "running" THEN "ended" ELSE tree[f].status]
      BY <2>3 DEF EndWalk
    <3>3. PICK now : now = IF tree[f].status = "running" THEN "ended" ELSE tree[f].status
      OBVIOUS
    <3>4. tree' = [tree EXCEPT ![f].status = now]
      BY <3>2, <3>3
    <3>5. tree'[f].status = now
      BY <3>4, OtherStatus DEF ResourcesInv
    <3> QED BY <1>5, <3>1, <3>3, <3>5
  <2> QED BY <2>1, <2>2, <2>3
<1>9. tree[f].status \notin {"none", "parked"} /\ st \notin {"none", "parked"} /\ (st = "running" => tree[f].status = "running")
  BY <1>2, <1>3, <1>4 DEF Related, Located
<1>10. loop'[f] = "clean" => st \notin {"none", "running", "parked"}
  BY <1>2, <1>4, <1>8, <1>9 DEF Located
<1>11. Located(f)'
  <2>1. stage'[f] = stage[f] /\ tree'[f].kind = "flow"
    BY <1>3, <1>5, <1>6
  <2> QED BY <1>2, <1>3, <1>5, <1>7, <1>8, <1>9, <1>10, <2>1 DEF Located
<1>12. Walking(f)'
  BY <1>2, <1>5, <1>6, <1>8 DEF Walking, Running
<1>13. ASSUME NEW n \in Runs \ {f}, tree[n].kind = "node", tree[n].parent = f, loop[n] = "work", n \notin detached'
       PROVE  loop'[f] = "walk" /\ Running(f)'
  <2>1. loop[f] = "walk" /\ Running(f)
    BY <1>6, <1>13 DEF ResourcesInv, TreeInv, Awaited
  <2>2. ~AllReturned(f)
    BY <1>13 DEF AllReturned, NodesOf
  <2> QED BY <1>8, <2>1, <2>2 DEF Running
<1>14. TreeInv'
  <2>1. /\ waits'[f] = {} /\ waits[f] = {} /\ tree[f].kind = "flow"
        /\ \A q \in Runs \ {f} : stage'[q] = stage[q] /\ waits'[q] = waits[q]
    BY <1>3, <1>6, <1>7
  <2>2. loop'[f] \in {"load", "walk"} /\ tree'[f].status = "running" => loop[f] \in {"load", "walk"} /\ tree[f].status = "running"
    BY <1>5, <1>8, <1>9
  <2>3. tree'[f].status # "none"
    BY <1>5, <1>9
  <2> QED BY <1>1, <1>5, <1>6, <1>11, <1>12, <1>13, <2>1, <2>2, <2>3, TreeMoves DEF ResourcesInv
<1>15. RowsInv'
  <2>1. \A q \in Runs \ {f} : stage'[q] = stage[q]
    BY <1>6
  <2>2. CASE loop[f] \in {"load", "walk"}
    <3>1. ~OverForGood(f)
      BY <2>2 DEF OverForGood
    <3>2. \A k \in Kinds : StillToClean(f, k)'
      <4>1. CASE loop'[f] = "clean"
        <5>1. stage'[f] = 0
          BY <1>2, <1>6, <2>2 DEF Located
        <5>2. \A k \in Kinds : \E i \in 1..Len(Order) : i > 0 /\ Order[i] = k
          BY DEF Kinds, Order
        <5> QED BY <4>1, <5>1, <5>2 DEF StillToClean
      <4>2. CASE loop'[f] # "clean"
        BY <1>8, <2>2, <4>2 DEF StillToClean
      <4> QED BY <4>1, <4>2
    <3> QED BY <1>5, <1>6, <2>1, <3>1, <3>2, RowsMove
  <2>3. CASE loop[f] \notin {"load", "walk"}
    <3>1. /\ loop'[f] = loop[f] /\ tree[f].status = "running" /\ loop[f] # "clean"
      BY <1>2, <1>8, <2>3 DEF Located
    <3>2. \A q \in Runs : Ancestors(q)' = Ancestors(q)
      BY <1>5, AncSame
    <3>3. \A q \in Runs : loop'[q] = loop[q] /\ stage'[q] = stage[q]
      BY <1>6, <3>1
    <3>4. \A q \in Runs : tree[q].status = "parked" => tree'[q].status = "parked"
      BY <1>5, <1>9
    <3>5. \A j \in Runs, k \in Kinds : StillToClean(j, k) \/ j \in stranded =>
            \E i \in Ancestors(j) : StillToClean(i, k)' \/ i \in stranded'
      BY <1>6, <3>3, <3>4, AncSelf DEF StillToClean
    <3>6. \A c \in Runs : OverForGood(c) => OverForGood(c)'
      BY <1>5, <3>1, <3>3 DEF OverForGood
    <3> QED BY <1>5, <1>6, <3>2, <3>5, <3>6, RowsStay
  <2> QED BY <2>2, <2>3
<1> QED BY <1>1, <1>14, <1>15 DEF ResourcesInv

\* A statement of the clean-up.
LEMMA CleanKeeps == ASSUME ResourcesInv, NEW r \in Runs, Clean(r) PROVE ResourcesInv'
<1>1. ResourcesTypeOK'
  BY CleanTypes DEF ResourcesInv
<1>2. RowsInv'
  BY RowsClean
<1>3. Related(r) /\ Located(r) /\ Walking(r) /\ Awaited(r)
  BY DEF ResourcesInv, TreeInv
<1>4. tree' = tree /\ nodes' = nodes /\ waits' = waits /\ detached' = detached /\ loop[r] = "clean"
  BY DEF Clean, resourceHist
<1>5. /\ \A q \in Runs \ {r} : stage'[q] = stage[q] /\ loop'[q] = loop[q]
      /\ loop'[r] = "clean" \/ (loop'[r] = "off" /\ stage'[r] = 0)
  BY <1>4 DEF Clean, ResourcesInv, ResourcesTypeOK
<1>6. nodes[r] = {} /\ waits[r] = {} /\ tree[r].kind # "call" /\ tree[r].status \notin {"none", "running", "parked"}
  BY <1>3, <1>4 DEF Located, Awaited
<1>7. Located(r)' /\ Walking(r)'
  BY <1>3, <1>4, <1>5, <1>6 DEF Located, Walking
<1>8. \A n \in Runs \ {r} : tree[n].kind = "node" /\ tree[n].parent = r /\ n \notin detached => loop[n] # "work"
  BY <1>4 DEF ResourcesInv, TreeInv, Awaited
<1>9. TreeInv'
  <2>1. tree[r].kind # "none" /\ tree'[r].status # "none"
    BY <1>3, <1>4, <1>6 DEF Related, NoRun
  <2>2. /\ loop'[r] \notin {"work", "load", "walk"} /\ waits'[r] = {} /\ waits[r] = {}
        /\ tree[r].kind = "call" /\ loop'[r] # "off" => loop[r] # "off"
    BY <1>4, <1>5, <1>6
  <2>3. \A q \in Runs \ {r} : /\ tree'[q] = tree[q] /\ loop'[q] = loop[q] /\ stage'[q] = stage[q]
                              /\ nodes'[q] = nodes[q] /\ waits'[q] = waits[q]
    BY <1>4, <1>5
  <2> QED BY <1>1, <1>4, <1>7, <1>8, <2>1, <2>2, <2>3, TreeMoves DEF ResourcesInv
<1> QED BY <1>1, <1>2, <1>9 DEF ResourcesInv

(* ---- What follows for every behaviour. ---- *)

LEMMA ResourcesKeep == ASSUME ResourcesInv, [ResourcesNext]_resourcesVars PROVE ResourcesInv'
<1>1. CASE UNCHANGED resourcesVars
  <2>1. UNCHANGED <<resourceRows, treeVars, moves, resourceHist>>
    BY <1>1 DEF resourcesVars
  <2>2. TreeInv'
    BY <2>1, TreeSame DEF ResourcesInv, resourceHist
  <2>3. ResourcesTypeOK'
    BY <2>1 DEF ResourcesInv, ResourcesTypeOK, resourceRows, treeVars, resourceHist
  <2>4. RowsInv'
    <3>1. tree' = tree /\ loop' = loop /\ stage' = stage /\ UNCHANGED <<resource, deleted, stranded>>
      BY <2>1 DEF resourceRows, treeVars, resourceHist
    <3>2. \A q \in Runs : Ancestors(q)' = Ancestors(q)
      BY <3>1, AncSame
    <3>3. \A j \in Runs, k \in Kinds : StillToClean(j, k) \/ j \in stranded =>
            \E i \in Ancestors(j) : StillToClean(i, k)' \/ i \in stranded'
      BY <3>1, AncSelf DEF StillToClean
    <3>4. \A c \in Runs : OverForGood(c) => OverForGood(c)'
      BY <3>1 DEF OverForGood
    <3> QED BY <3>1, <3>2, <3>3, <3>4, RowsStay
  <2> QED BY <2>2, <2>3, <2>4 DEF ResourcesInv
<1>2. CASE ResourcesCrash
  <2>1. ResourcesTypeOK' /\ TreeInv'
    BY <1>2, CrashTypes, TreeCrashes DEF ResourcesInv
  <2>2. RowsInv'
    BY <1>2, RowsCrash
  <2> QED BY <2>1, <2>2 DEF ResourcesInv
<1>3. ASSUME NEW r \in Runs, \/ Tools(r) \/ Walk(r) \/ Loop(r) \/ Invoke(r)
                             \/ StopPolling(r) \/ CancelParked(r) \/ CancelFlow(r)
      PROVE  ResourcesInv'
  <2>1. CASE Tools(r)
    BY <2>1, ToolsKeep, StartsKeep
  <2>2. CASE Walk(r) \/ CancelFlow(r)
    BY <2>2, WalkKeeps, StartsKeep DEF Walk
  <2>3. CASE Loop(r) \/ StopPolling(r) \/ CancelParked(r)
    BY <2>3, ReturnKeeps, EndKeeps, ParkedKeeps, CleanKeeps DEF Loop
  <2>4. CASE Invoke(r)
    BY <2>4, StartsKeep
  <2> QED BY <1>3, <2>1, <2>2, <2>3, <2>4
<1> QED BY <1>1, <1>2, <1>3 DEF ResourcesNext

\* Who is related to whom, who waits for whom, and what is to become of every ephemeral
\* resource (executeRun, executeGroupRun, native_call_agent, cleanupEphemeralResources).
THEOREM ResourcesInvariant == ResourcesSpec => []ResourcesInv
<1>1. ResourcesInit => ResourcesInv
  BY ResourcesInitially
<1>2. ResourcesInv /\ [ResourcesNext]_resourcesVars => ResourcesInv'
  BY ResourcesKeep
<1> QED BY <1>1, <1>2, PTL DEF ResourcesSpec

\* The rows of resources, of runs and of goroutines keep their shape, whatever is made,
\* started, cancelled and cleaned up, and whenever the process dies.
THEOREM ResourcesTypeCorrect == ResourcesSpec => []ResourcesTypeOK
<1>1. ResourcesInv => ResourcesTypeOK
  BY DEF ResourcesInv
<1> QED BY <1>1, ResourcesInvariant, PTL

\* Ephemeral resources live as long as the tree of runs that made them, and no longer, for
\* any tree of sub-agents and workflows (cleanupEphemeralResources at the end of executeRun
\* and executeGroupRun).
THEOREM CleanedWithTheirTree == ResourcesSpec => []CleanedWithTheTree
<1>1. ResourcesInv => CleanedWithTheTree
  BY CleanedUp
<1> QED BY <1>1, ResourcesInvariant, PTL

(* ---------------- The parts side by side, as TLC runs them ------------------- *)

\* Each part of MCServices behaves as its own specification says, so that what is proved of
\* it holds of the behaviours that TLC checks.
THEOREM PartsBehave == FairSpec => EvalsSpec /\ ResourcesSpec /\ BuilderSpec /\ McpSpec /\ SessionWorkSpec
<1>1. Init => EvalsInit /\ ResourcesInit /\ BuilderInit /\ McpInit /\ SessionWorkInit
  BY DEF Init
<1>2. [Next]_vars => /\ [EvalsNext]_evalsVars /\ [ResourcesNext]_resourcesVars /\ [BuilderNext]_builderVars
                     /\ [McpNext]_mcpVars /\ [SessionWorkNext]_workVars
  BY DEF Next, vars
<1> QED BY <1>1, <1>2, PTL DEF FairSpec, EvalsSpec, ResourcesSpec, BuilderSpec, McpSpec, SessionWorkSpec

\* Every variable of the five parts keeps its shape in the behaviours that TLC checks.
THEOREM ServicesTypeCorrect == FairSpec => []TypeOK
<1>0. WorkInv => SessionWorkTypeOK
  BY DEF WorkInv
<1>1. EvalsSpec /\ ResourcesSpec /\ BuilderSpec /\ McpSpec /\ SessionWorkSpec
        => [](EvalsTypeOK /\ ResourcesTypeOK /\ BuilderTypeOK /\ McpTypeOK /\ SessionWorkTypeOK)
  BY <1>0, EvalsTypeCorrect, ResourcesTypeCorrect, BuilderTypeCorrect, McpTypeCorrect, WorkInvariant, PTL
<1>2. EvalsTypeOK /\ ResourcesTypeOK /\ BuilderTypeOK /\ McpTypeOK /\ SessionWorkTypeOK => TypeOK
  BY DEF TypeOK
<1> QED BY <1>1, <1>2, PartsBehave, PTL

=============================================================================
