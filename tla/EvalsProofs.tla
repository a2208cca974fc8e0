------------------------------ MODULE EvalsProofs ------------------------------
(* For any number of evaluations, cases and saves: a completed evaluation adds up, *)
(* its analysis is about every failure, and the last save of the agent is          *)
(* evaluated, whatever triggers, workers, edits, decisions and crashes overlap.    *)
EXTENDS Evals, FiniteSetTheorems, WellFoundedInduction, TLAPS

WorkerRow == [at : {"off", "run", "read", "grade", "record", "done"}, grade : Grades \cup {"none"}]
EvalRow == [status : {"none", "pending", "running", "completed", "failed"},
            total : Nat, passed : Nat, failed : Nat, errors : Nat]
CountRow == [passed : Nat, failed : Nat, errors : Nat]
RunStatus == {"none", "running", "approval_wait", "success", "failed", "cancelled"}

EvalsShape ==
  /\ agent \in 0..MaxSaves /\ triggers \in 0..agent /\ due \in 0..agent
  /\ batch \in 0..Cardinality(Cases)
  /\ suite \in [there : BOOLEAN, auto : BOOLEAN] /\ cases \subseteq Cases /\ (~suite.there => cases = {})
  /\ row \in [Evals -> EvalRow]
  /\ analysis \in [Evals -> SUBSET Cases] /\ request \in [Evals -> SUBSET Cases]
  /\ result \in [Evals -> [Cases -> Grades \cup {"none"}]]
  /\ run \in [Evals -> [Cases -> RunStatus]]
  /\ pc \in [Evals -> {"off", "begin", "load", "feed", "analyse"}]
  /\ todo \in [Evals -> SUBSET Cases] /\ failures \in [Evals -> SUBSET Cases]
  /\ worker \in [Evals -> [Cases -> WorkerRow]] /\ count \in [Evals -> CountRow]
  /\ seen \in [Evals -> 0..(MaxSaves + 1)] /\ lost \subseteq Evals /\ used \in Evals \cup {0}
  /\ acts \in 0..MaxActs

\* The cases whose worker has started, and those it has given one of the grades G.
Started(e) == {c \in Cases : worker[e][c].at # "off"}
Scored(w) == w.at \in {"record", "done"}
Graded(e, G) == {c \in Cases : Scored(worker[e][c]) /\ worker[e][c].grade \in G}
Pass == {"passed"}
Fail == {"failed", "error"}
Err == {"error"}

\* While its goroutine starts cases, an evaluation has counted the cases graded so far, and
\* stored only what their workers have graded.
Counted(e) ==
  /\ count[e].passed = Cardinality(Graded(e, Pass)) /\ count[e].failed = Cardinality(Graded(e, Fail))
  /\ count[e].errors = Cardinality(Graded(e, Err)) /\ failures[e] = Graded(e, Fail)
Stored(e) ==
  /\ \A c \in Cases : Scored(worker[e][c]) => worker[e][c].grade \in Grades
  /\ \A c \in Cases : run[e][c] # "none" => worker[e][c].at # "off"
  /\ \A c \in Cases : result[e][c] # "none" => worker[e][c].at = "done" /\ result[e][c] = worker[e][c].grade
  /\ \A c \in cases : row[e].status # "none" /\ worker[e][c].at = "done" => result[e][c] # "none"
Feeding(e) == todo[e] \cap Started(e) = {} /\ Cardinality(Busy(e)) <= MaxConcurrency /\ Counted(e)
  /\ Stored(e)

Begun(e) == pc[e] \in {"begin", "load", "feed"}
Phase(e) ==
  /\ ~Begun(e) => todo[e] = {}
  /\ pc[e] # "feed" => worker[e] = ForCases(Unstarted) /\ count[e] = Zero
  /\ pc[e] \in {"off", "begin", "load"} => failures[e] = {}
  /\ pc[e] \in {"begin", "load"} => run[e] = ForCases("none") /\ result[e] = ForCases("none")
  /\ Begun(e) => /\ request[e] = {} /\ analysis[e] = {} /\ row[e].status \in {"none", "pending", "running"}
                 /\ row[e].status # "none" => row[e].total = Cardinality(todo[e] \cup Started(e))
  /\ pc[e] = "feed" => Feeding(e)
\* An analysis, and whoever is about to store one, is about every failed result.
Covered(e) ==
  /\ pc[e] = "analyse" => Failed(e) \subseteq failures[e]
  /\ request[e] # {} => Failed(e) \subseteq request[e]
  /\ analysis[e] # {} => Failed(e) \subseteq analysis[e]
Completed(e) == row[e].status = "completed" =>
  /\ row[e].passed + row[e].failed = row[e].total /\ row[e].errors <= row[e].failed
  /\ \A c \in cases : run[e][c] # "none" => result[e][c] # "none"
  /\ Cardinality({c \in Cases : result[e][c] = "passed"}) <= row[e].passed
  /\ Cardinality(Failed(e)) <= row[e].failed
Unused(e) ==
  /\ pc[e] = "off" /\ row[e] = NoEval /\ analysis[e] = {} /\ request[e] = {}
  /\ result[e] = ForCases("none") /\ run[e] = ForCases("none")
Good(e) == Phase(e) /\ Covered(e) /\ Completed(e) /\ (used < e => Unused(e))

\* The save that an auto-run suite has to evaluate is the last one: a trigger, or an evaluation
\* that has not yet loaded the agent, is still to come, or one has loaded it since.
Dues ==
  due # 0 =>
    /\ due = agent /\ suite.there /\ suite.auto /\ cases # {}
    /\ triggers > 0 \/ (\E e \in Evals : pc[e] \in {"begin", "load"}) \/ \E e \in Evals : seen[e] = due + 1

EvalsInv == EvalsShape /\ Dues /\ \A e \in Evals : Good(e)

-----------------------------------------------------------------------------
\* Sets of cases are finite.
LEMMA CaseSets ==
  /\ \A S \in SUBSET Cases : IsFiniteSet(S) /\ Cardinality(S) \in Nat
  /\ \A S, T \in SUBSET Cases : S \subseteq T => Cardinality(S) <= Cardinality(T)
  /\ \A S \in SUBSET Cases : \A c \in Cases \ S : Cardinality(S \cup {c}) = Cardinality(S) + 1
  /\ \A S, T \in SUBSET Cases : S \cap T = {} => Cardinality(S \cup T) = Cardinality(S) + Cardinality(T)
  /\ Cardinality({}) = 0
<1>1. \A S \in SUBSET Cases : IsFiniteSet(S)
  BY EvalsAssumption, FS_Subset
<1>2. \A S \in SUBSET Cases : Cardinality(S) \in Nat
  BY <1>1, FS_CardinalityType
<1>3. \A S, T \in SUBSET Cases : S \subseteq T => Cardinality(S) <= Cardinality(T)
  BY <1>1, FS_Subset
<1>4. \A S \in SUBSET Cases : \A c \in Cases \ S : Cardinality(S \cup {c}) = Cardinality(S) + 1
  BY <1>1, FS_AddElement
<1>5. \A S, T \in SUBSET Cases : S \cap T = {} => Cardinality(S \cup T) = Cardinality(S) + Cardinality(T)
  <2> SUFFICES ASSUME NEW S \in SUBSET Cases, NEW T \in SUBSET Cases, S \cap T = {}
               PROVE  Cardinality(S \cup T) = Cardinality(S) + Cardinality(T)
    OBVIOUS
  <2>1. Cardinality(S \cup T) = Cardinality(S) + Cardinality(T) - Cardinality(S \cap T)
    BY <1>1, FS_Union
  <2>2. Cardinality(S \cap T) = 0
    BY FS_EmptySet
  <2> QED
    BY <1>2, <2>1, <2>2
<1>6. Cardinality({}) = 0
  BY FS_EmptySet
<1> QED
  BY <1>1, <1>2, <1>3, <1>4, <1>5, <1>6

\* The parts of the shape, one evaluation at a time.
LEMMA EvalShape ==
  ASSUME EvalsShape, NEW e \in Evals
  PROVE  /\ row[e] \in EvalRow /\ analysis[e] \in SUBSET Cases /\ request[e] \in SUBSET Cases
         /\ result[e] \in [Cases -> Grades \cup {"none"}] /\ run[e] \in [Cases -> RunStatus]
         /\ todo[e] \in SUBSET Cases /\ failures[e] \in SUBSET Cases
         /\ worker[e] \in [Cases -> WorkerRow] /\ count[e] \in CountRow
         /\ Started(e) \in SUBSET Cases /\ Busy(e) \in SUBSET Cases /\ Failed(e) \in SUBSET Cases
         /\ \A G : Graded(e, G) \in SUBSET Cases
BY DEF EvalsShape, Started, Busy, Failed, Graded

\* Nothing of evaluation f changes.
Same(f) ==
  /\ row'[f] = row[f] /\ analysis'[f] = analysis[f] /\ result'[f] = result[f] /\ run'[f] = run[f]
  /\ pc'[f] = pc[f] /\ todo'[f] = todo[f] /\ count'[f] = count[f] /\ failures'[f] = failures[f]
  /\ worker'[f] = worker[f] /\ request'[f] = request[f]

\* The sets of cases of an evaluation depend on its workers and results alone.
LEMMA SameSets ==
  ASSUME NEW e \in Evals, worker'[e] = worker[e]
  PROVE  Started(e)' = Started(e) /\ Busy(e)' = Busy(e) /\ (\A G : Graded(e, G)' = Graded(e, G))
BY DEF Started, Busy, Graded

\* ... its failed results on its results, ...
LEMMA SameFailed ==
  ASSUME NEW e \in Evals, result'[e] = result[e]
  PROVE  Failed(e)' = Failed(e)
BY DEF Failed

\* ... and its books on workers, counters and failures.
LEMMA SameCounted ==
  ASSUME NEW e \in Evals, worker'[e] = worker[e], count'[e] = count[e], failures'[e] = failures[e]
  PROVE  Counted(e)' <=> Counted(e)
<1>1. Graded(e, Pass)' = Graded(e, Pass) /\ Graded(e, Fail)' = Graded(e, Fail)
        /\ Graded(e, Err)' = Graded(e, Err)
  BY DEF Graded, Pass, Fail, Err
<1> QED
  BY <1>1 DEF Counted

\* What a step does not touch stays good; a case that appears has a new id.
LEMMA Frame ==
  ASSUME EvalsInv, NEW e \in Evals, Same(e), used' \in Nat, used <= used',
         \A c \in cases' \ cases : worker[e][c].at = "off" /\ run[e][c] = "none"
  PROVE  Good(e)'
<1>0. Good(e) /\ used \in Nat /\ e \in Nat
  BY EvalsAssumption DEF EvalsInv, EvalsShape
<1>1. Started(e)' = Started(e) /\ Busy(e)' = Busy(e) /\ Failed(e)' = Failed(e) /\ (Counted(e)' <=> Counted(e))
  BY SameSets, SameFailed, SameCounted DEF Same
<1>2. Stored(e) => Stored(e)'
  BY DEF Stored, Same
<1>3. Phase(e)'
  BY <1>0, <1>1, <1>2 DEF Good, Phase, Begun, Feeding, Same
<1>4. Covered(e)'
  BY <1>0, <1>1 DEF Good, Covered, Same
<1>5. Completed(e)'
  BY <1>0, <1>1 DEF Good, Completed, Same
<1>6. (used < e => Unused(e))'
  BY <1>0 DEF Good, Unused, Same
<1> QED
  BY <1>3, <1>4, <1>5, <1>6 DEF Good

\* A step of evaluation e leaves the others good.
LEMMA Others ==
  ASSUME EvalsInv, NEW e \in Evals, used' \in Nat, used <= used', cases' = cases,
         \A f \in Evals \ {e} : Same(f), Good(e)'
  PROVE  \A f \in Evals : Good(f)'
BY Frame

-----------------------------------------------------------------------------
\* The shape is kept: starting and loading.
LEMMA ShapeOfStarts ==
  ASSUME EvalsInv, \/ \E e \in Evals : TriggerRun(e) \/ MarkRunning(e) \/ LoadAgent(e) \/ AgentNotLoaded(e)
                   \/ SaveAgent \/ TriggerAutoRunsForAgent
  PROVE  EvalsShape'
<1>0. EvalsShape /\ MaxSaves \in Nat /\ MaxActs \in Nat /\ Cardinality(cases) \in Nat
        /\ Evals \subseteq Nat \ {0}
  BY EvalsAssumption, CaseSets DEF EvalsInv, EvalsShape
<1>1. ASSUME NEW e \in Evals, CreateRun(e)
      PROVE  /\ row' \in [Evals -> EvalRow] /\ pc' \in [Evals -> {"off", "begin", "load", "feed", "analyse"}]
             /\ todo' \in [Evals -> SUBSET Cases] /\ used' \in Evals
  <2>1. [NoEval EXCEPT !.status = "pending", !.total = Cardinality(cases)] \in EvalRow
    BY <1>0 DEF NoEval, EvalRow
  <2> QED
    BY <1>0, <1>1, <2>1 DEF CreateRun, EvalsShape
<1>2. ASSUME NEW e \in Evals, NEW s \in {"running", "failed"}, SetStatus(e, s)
      PROVE  row' \in [Evals -> EvalRow]
  <2>1. row \in [Evals -> EvalRow] /\ row[e] \in EvalRow
    BY <1>0 DEF EvalsShape
  <2>2. [row[e] EXCEPT !.status = s] \in EvalRow
    BY <2>1 DEF EvalRow
  <2>3. CASE row[e].status = "none"
    BY <1>2, <2>1, <2>3 DEF SetStatus
  <2>4. CASE row[e].status # "none"
    <3>1. row' = [row EXCEPT ![e].status = s]
      BY <1>2, <2>4 DEF SetStatus
    <3>2. row' = [row EXCEPT ![e] = [row[e] EXCEPT !.status = s]]
      BY <2>1, <3>1
    <3> QED
      BY <2>1, <2>2, <3>2
  <2> QED
    BY <2>3, <2>4
<1>3. ASSUME NEW e \in Evals, TriggerRun(e) PROVE EvalsShape'
  BY <1>0, <1>1, <1>3 DEF EvalsShape, TriggerRun, evalHist
<1>4. ASSUME NEW e \in Evals, MarkRunning(e) PROVE EvalsShape'
  BY <1>0, <1>2, <1>4 DEF EvalsShape, MarkRunning, Goto, evalHist
<1>5. ASSUME NEW e \in Evals, LoadAgent(e) PROVE EvalsShape'
  <2>1. agent + 1 \in 0..(MaxSaves + 1)
    BY <1>0 DEF EvalsShape
  <2> QED
    BY <1>0, <1>5, <2>1 DEF EvalsShape, LoadAgent, Goto, evalRows
<1>6. ASSUME NEW e \in Evals, AgentNotLoaded(e) PROVE EvalsShape'
  BY <1>0, <1>2, <1>6 DEF EvalsShape, AgentNotLoaded, Goto, Act
<1>7. ASSUME SaveAgent PROVE EvalsShape'
  BY <1>0, <1>7 DEF EvalsShape, SaveAgent, evalRows, goVars
<1>8. ASSUME TriggerAutoRunsForAgent PROVE EvalsShape'
  <2>1. CASE \E e \in Evals : CreateRun(e)
    BY <1>0, <1>1, <1>8, <2>1 DEF EvalsShape, TriggerAutoRunsForAgent, evalHist
  <2>2. CASE UNCHANGED <<used, row, pc, todo>>
    BY <1>0, <1>8, <2>2 DEF EvalsShape, TriggerAutoRunsForAgent, evalHist
  <2> QED
    BY <1>8, <2>1, <2>2 DEF TriggerAutoRunsForAgent
<1> QED
  BY <1>3, <1>4, <1>5, <1>6, <1>7, <1>8

\* A score changes the counters by at most one each, and the case's worker.
LEMMA ScoreShape ==
  ASSUME EvalsShape, NEW e \in Evals, NEW c \in Cases, NEW grade \in Grades, Score(e, c, grade)
  PROVE  /\ count' \in [Evals -> CountRow] /\ failures' \in [Evals -> SUBSET Cases]
         /\ worker' \in [Evals -> [Cases -> WorkerRow]]
         /\ worker' = [worker EXCEPT ![e][c] = [at |-> "record", grade |-> grade]]
         /\ failures' = [failures EXCEPT ![e] = IF grade \in Fail THEN failures[e] \cup {c} ELSE failures[e]]
         /\ \A f \in Evals \ {e} : count'[f] = count[f] /\ failures'[f] = failures[f]
              /\ worker'[f] = worker[f]
         /\ count'[e].passed = count[e].passed + (IF grade \in Pass THEN 1 ELSE 0)
         /\ count'[e].failed = count[e].failed + (IF grade \in Fail THEN 1 ELSE 0)
         /\ count'[e].errors = count[e].errors + (IF grade \in Err THEN 1 ELSE 0)
<1>0. count \in [Evals -> CountRow] /\ count[e] \in CountRow
  BY DEF EvalsShape
<1>1. /\ grade \in Pass <=> grade = "passed"
      /\ grade \in Fail <=> grade # "passed"
      /\ grade \in Err <=> grade = "error"
  BY DEF Pass, Fail, Err, Grades
<1> DEFINE r == [passed |-> count[e].passed + (IF grade = "passed" THEN 1 ELSE 0),
                 failed |-> count[e].failed + (IF grade = "passed" THEN 0 ELSE 1),
                 errors |-> count[e].errors + (IF grade = "error" THEN 1 ELSE 0)]
<1>2. count' = [count EXCEPT ![e] = r]
  BY <1>0 DEF Score
<1>3. r \in CountRow
  BY <1>0 DEF CountRow
<1>4. /\ r.passed = count[e].passed + (IF grade \in Pass THEN 1 ELSE 0)
      /\ r.failed = count[e].failed + (IF grade \in Fail THEN 1 ELSE 0)
      /\ r.errors = count[e].errors + (IF grade \in Err THEN 1 ELSE 0)
  BY <1>1
<1> HIDE DEF r
<1>5. count' \in [Evals -> CountRow] /\ count'[e] = r /\ \A f \in Evals \ {e} : count'[f] = count[f]
  BY <1>0, <1>2, <1>3
<1>6. worker' = [worker EXCEPT ![e][c] = [at |-> "record", grade |-> grade]]
  BY DEF Score
<1>7. [at |-> "record", grade |-> grade] \in WorkerRow
  BY DEF WorkerRow
<1>8. worker' \in [Evals -> [Cases -> WorkerRow]] /\ \A f \in Evals \ {e} : worker'[f] = worker[f]
  BY <1>6, <1>7 DEF EvalsShape
<1>9. failures' = [failures EXCEPT ![e] = IF grade \in Fail THEN failures[e] \cup {c} ELSE failures[e]]
  BY <1>1 DEF EvalsShape, Score
<1>10. failures' \in [Evals -> SUBSET Cases] /\ \A f \in Evals \ {e} : failures'[f] = failures[f]
  BY <1>9 DEF EvalsShape
<1> QED
  BY <1>4, <1>5, <1>6, <1>8, <1>9, <1>10

\* The worker of one case moves on.
LEMMA WorkShape ==
  ASSUME EvalsShape, NEW e \in Evals, NEW c \in Cases, NEW to \in {"run", "read", "grade", "record", "done"},
         worker' = [worker EXCEPT ![e][c].at = to]
  PROVE  /\ worker' \in [Evals -> [Cases -> WorkerRow]]
         /\ worker' = [worker EXCEPT ![e][c] = [at |-> to, grade |-> worker[e][c].grade]]
         /\ \A f \in Evals \ {e} : worker'[f] = worker[f]
<1> DEFINE w == [at |-> to, grade |-> worker[e][c].grade]
<1>0. worker \in [Evals -> [Cases -> WorkerRow]] /\ worker[e] \in [Cases -> WorkerRow]
        /\ worker[e][c] \in WorkerRow
  BY DEF EvalsShape
<1>1. [worker[e][c] EXCEPT !.at = to] = w
  BY <1>0 DEF WorkerRow
<1>2. w \in WorkerRow
  BY <1>0 DEF WorkerRow
<1>3. worker' = [worker EXCEPT ![e][c] = [worker[e][c] EXCEPT !.at = to]]
  BY <1>0
<1> HIDE DEF w
<1>4. worker' = [worker EXCEPT ![e][c] = w]
  BY <1>1, <1>3
<1>5. worker' \in [Evals -> [Cases -> WorkerRow]] /\ \A f \in Evals \ {e} : worker'[f] = worker[f]
  BY <1>0, <1>2, <1>4
<1> QED
  BY <1>4, <1>5 DEF w

\* The shape is kept: workers.
LEMMA ShapeOfWorkers ==
  ASSUME EvalsInv, NEW e \in Evals, NEW c \in Cases, WorkerStep(e, c)
  PROVE  EvalsShape'
<1>0. EvalsShape /\ MaxActs \in Nat
  BY EvalsAssumption DEF EvalsInv
<1>1. \A x \in RunStatus : [run EXCEPT ![e][c] = x] \in [Evals -> [Cases -> RunStatus]]
  BY <1>0 DEF EvalsShape
<1>2. CASE StartCase(e, c)
  <2>1. todo' \in [Evals -> SUBSET Cases]
    BY <1>0, <1>2 DEF EvalsShape, StartCase
  <2>2. CASE RunAgentSync(e, c)
    <3>1. worker' \in [Evals -> [Cases -> WorkerRow]] /\ run' \in [Evals -> [Cases -> RunStatus]]
      BY <1>0, <1>1, <2>2, WorkShape DEF RunAgentSync, Work, RunStatus
    <3> QED
      BY <1>0, <1>2, <2>1, <2>2, <3>1 DEF EvalsShape, StartCase, RunAgentSync, evalRows, evalHist
  <2>3. CASE RunNotCreated(e, c)
    <3>1. "error" \in Grades
      BY DEF Grades
    <3>2. /\ count' \in [Evals -> CountRow] /\ failures' \in [Evals -> SUBSET Cases]
          /\ worker' \in [Evals -> [Cases -> WorkerRow]]
      BY <1>0, <2>3, <3>1, ScoreShape DEF RunNotCreated
    <3> QED
      BY <1>0, <1>2, <2>1, <2>3, <3>2 DEF EvalsShape, StartCase, RunNotCreated, Act, evalRows, evalHist
  <2> QED
    BY <1>2, <2>2, <2>3 DEF StartCase
<1>3. CASE ReturnFromRun(e, c)
  <2>1. worker' \in [Evals -> [Cases -> WorkerRow]]
    BY <1>0, <1>3, WorkShape DEF ReturnFromRun, Work
  <2>2. PICK s \in {"success", "failed", "approval_wait"} :
          run' = [run EXCEPT ![e][c] = IF run[e][c] = "cancelled" THEN run[e][c] ELSE s]
    BY <1>0, <1>3 DEF ReturnFromRun, EvalsShape
  <2>3. run' \in [Evals -> [Cases -> RunStatus]]
    BY <1>0, <1>1, <2>2 DEF RunStatus, EvalsShape
  <2> QED
    BY <1>0, <1>3, <2>1, <2>3 DEF EvalsShape, ReturnFromRun, evalRows, evalHist
<1>4. CASE ReadFailure(e, c)
  <2>1. "error" \in Grades
    BY DEF Grades
  <2>2. /\ count' \in [Evals -> CountRow] /\ failures' \in [Evals -> SUBSET Cases]
        /\ worker' \in [Evals -> [Cases -> WorkerRow]]
    BY <1>0, <1>4, <2>1, ScoreShape DEF ReadFailure
  <2> QED
    BY <1>0, <1>4, <2>2 DEF EvalsShape, ReadFailure, evalRows, evalHist
<1>5. CASE ReadOutput(e, c)
  <2>1. worker' \in [Evals -> [Cases -> WorkerRow]]
    BY <1>0, <1>5, WorkShape DEF ReadOutput
  <2> QED
    BY <1>0, <1>5, <2>1 DEF EvalsShape, ReadOutput, evalRows
<1>6. CASE Grade(e, c)
  <2>1. PICK grade \in Grades : Score(e, c, grade)
    BY <1>6 DEF Grade, Grades
  <2>2. /\ count' \in [Evals -> CountRow] /\ failures' \in [Evals -> SUBSET Cases]
        /\ worker' \in [Evals -> [Cases -> WorkerRow]]
    BY <1>0, <2>1, ScoreShape
  <2> QED
    BY <1>0, <1>6, <2>2 DEF EvalsShape, Grade, evalRows, evalHist
<1>7. CASE CreateResult(e, c)
  <2>1. worker' \in [Evals -> [Cases -> WorkerRow]]
    BY <1>0, <1>7, WorkShape DEF CreateResult, Work
  <2>2. worker[e][c].grade \in Grades \cup {"none"}
    BY <1>0 DEF EvalsShape, WorkerRow
  <2>3. result' \in [Evals -> [Cases -> Grades \cup {"none"}]]
    BY <1>0, <1>7, <2>2 DEF CreateResult, EvalsShape
  <2> QED
    BY <1>0, <1>7, <2>1, <2>3 DEF EvalsShape, CreateResult, evalHist
<1> QED
  BY <1>2, <1>3, <1>4, <1>5, <1>6, <1>7 DEF WorkerStep, ReadRun

\* The shape is kept: completion and the analyses.
LEMMA ShapeOfEnds ==
  ASSUME EvalsInv, NEW e \in Evals, CompleteRun(e) \/ DoAnalysis(e) \/ StoreAnalysis(e) \/ AnalyzeRun(e)
  PROVE  EvalsShape'
<1>0. EvalsShape /\ Failed(e) \in SUBSET Cases /\ Zero \in CountRow
        /\ ForCases(Unstarted) \in [Cases -> WorkerRow]
  BY EvalShape DEF EvalsInv, Zero, CountRow, ForCases, Unstarted, WorkerRow
<1>1. ASSUME NEW about \in SUBSET Cases, Store(e, about) PROVE analysis' \in [Evals -> SUBSET Cases]
  BY <1>0, <1>1 DEF Store, EvalsShape
<1>2. CASE CompleteRun(e)
  <2>1. row[e] \in EvalRow /\ count[e] \in CountRow
    BY <1>0, EvalShape
  <2> DEFINE r == [status |-> "completed", total |-> row[e].total, passed |-> count[e].passed,
                   failed |-> count[e].failed, errors |-> count[e].errors]
  <2>2. r \in EvalRow
    BY <2>1 DEF EvalRow, CountRow
  <2>3. row' = row \/ row' = [row EXCEPT ![e] = r]
    BY <1>0, <1>2 DEF CompleteRun, EvalsShape
  <2> HIDE DEF r
  <2>4. row' \in [Evals -> EvalRow]
    BY <1>0, <2>2, <2>3 DEF EvalsShape
  <2>5. pc' \in [Evals -> {"off", "begin", "load", "feed", "analyse"}]
    BY <1>0, <1>2 DEF CompleteRun, EvalsShape
  <2>6. worker' \in [Evals -> [Cases -> WorkerRow]] /\ count' \in [Evals -> CountRow]
    BY <1>0, <1>2 DEF CompleteRun, EvalsShape
  <2> QED
    BY <1>0, <1>2, <2>4, <2>5, <2>6 DEF EvalsShape, CompleteRun, evalHist
<1>3. CASE DoAnalysis(e)
  <2>1. failures[e] \in SUBSET Cases
    BY <1>0, EvalShape
  <2>2. analysis' \in [Evals -> SUBSET Cases]
    BY <1>1, <1>3, <2>1 DEF DoAnalysis
  <2> QED
    BY <1>0, <1>3, <2>2 DEF EvalsShape, DoAnalysis, Goto, evalHist
<1>4. CASE StoreAnalysis(e)
  <2>1. request[e] \in SUBSET Cases
    BY <1>0, EvalShape
  <2>2. analysis' \in [Evals -> SUBSET Cases]
    BY <1>1, <1>4, <2>1 DEF StoreAnalysis
  <2> QED
    BY <1>0, <1>4, <2>2 DEF EvalsShape, StoreAnalysis, goVars, evalHist
<1>5. CASE AnalyzeRun(e)
  BY <1>0, <1>5 DEF EvalsShape, AnalyzeRun, FailedResults, evalRows, goVars, evalHist
<1> QED
  BY <1>2, <1>3, <1>4, <1>5

\* The shape is kept: users, decisions and crashes.
LEMMA ShapeOfUsers ==
  ASSUME EvalsInv, \/ UpdateSuite \/ DeleteSuite \/ ImportCases \/ GenerateCases \/ EndBatch \/ EvalsCrash
                   \/ \E c \in Cases : CreateCase(c) \/ SaveCase(c) \/ DeleteCase(c)
                   \/ \E e \in Evals, c \in Cases : DecideRun(e, c) \/ CancelRun(e, c)
  PROVE  EvalsShape'
<1>0. /\ EvalsShape /\ MaxActs \in Nat /\ Cardinality(Cases) \in Nat /\ Zero \in CountRow
           /\ NoEval \in EvalRow
      /\ ForCases(Unstarted) \in [Cases -> WorkerRow] /\ ForCases("none") \in [Cases -> Grades \cup {"none"}]
  BY EvalsAssumption, CaseSets DEF EvalsInv, Zero, CountRow, ForCases, Unstarted, WorkerRow, NoEval, EvalRow
<1>1. CASE UpdateSuite
  <2>1. suite \in [there : BOOLEAN, auto : BOOLEAN] /\ (~suite.auto) \in BOOLEAN /\ suite.there
    BY <1>0, <1>1 DEF EvalsShape, UpdateSuite
  <2>2. suite' = [suite EXCEPT !.auto = ~suite.auto]
    BY <1>1, <2>1 DEF UpdateSuite
  <2>3. suite' \in [there : BOOLEAN, auto : BOOLEAN] /\ suite'.there
    BY <2>1, <2>2
  <2> QED
    BY <1>0, <1>1, <2>3 DEF EvalsShape, UpdateSuite, Act, goVars
<1>2. CASE DeleteSuite
  BY <1>0, <1>2 DEF EvalsShape, DeleteSuite, Act, goVars
<1>3. CASE ImportCases \/ GenerateCases \/ EndBatch
  BY <1>0, <1>3 DEF EvalsShape, ImportCases, GenerateCases, BeginBatch, EndBatch, Act, evalRows, goVars,
    evalHist
<1>4. CASE EvalsCrash
  <2>1. run' \in [Evals -> [Cases -> RunStatus]]
    BY <1>0, <1>4 DEF EvalsShape, EvalsCrash, RunStatus
  <2>2. /\ pc' \in [Evals -> {"off", "begin", "load", "feed", "analyse"}] /\ todo' \in [Evals -> SUBSET Cases]
        /\ failures' \in [Evals -> SUBSET Cases] /\ request' \in [Evals -> SUBSET Cases]
        /\ worker' \in [Evals -> [Cases -> WorkerRow]] /\ count' \in [Evals -> CountRow]
    BY <1>0, <1>4 DEF EvalsCrash
  <2> QED
    BY <1>0, <1>4, <2>1, <2>2 DEF EvalsShape, EvalsCrash, Act, evalRows
<1>5. ASSUME NEW c \in Cases, CreateCase(c) \/ SaveCase(c) PROVE EvalsShape'
  BY <1>0, <1>5 DEF EvalsShape, CreateCase, SaveCase, InsertCase, Act, goVars, evalHist
<1>6. ASSUME NEW c \in Cases, DeleteCase(c) PROVE EvalsShape'
  <2>1. result' \in [Evals -> [Cases -> Grades \cup {"none"}]]
    BY <1>0, <1>6 DEF EvalsShape, DeleteCase
  <2> QED
    BY <1>0, <1>6, <2>1 DEF EvalsShape, DeleteCase, Act, goVars
<1>7. ASSUME NEW e \in Evals, NEW c \in Cases, DecideRun(e, c) \/ CancelRun(e, c) PROVE EvalsShape'
  <2>0. \A x \in RunStatus : [run EXCEPT ![e][c] = x] \in [Evals -> [Cases -> RunStatus]]
    BY <1>0 DEF EvalsShape
  <2>1. run' \in [Evals -> [Cases -> RunStatus]]
    BY <2>0, <1>7 DEF DecideRun, CancelRun, RunStatus
  <2> QED
    BY <1>0, <1>7, <2>1 DEF EvalsShape, DecideRun, CancelRun, Act, evalRows, goVars, evalHist
<1> QED
  BY <1>1, <1>2, <1>3, <1>4, <1>5, <1>6, <1>7

-----------------------------------------------------------------------------
\* No worker of an evaluation has started.
LEMMA NoneStarted ==
  ASSUME NEW e \in Evals, worker[e] = ForCases(Unstarted)
  PROVE  Started(e) = {} /\ Busy(e) = {} /\ \A G : Graded(e, G) = {}
BY DEF Started, Busy, Graded, Scored, ForCases, Unstarted

\* Every evaluation stays good when one is created, ...
LEMMA GoodAtCreate ==
  ASSUME EvalsInv, NEW e \in Evals, CreateRun(e),
         UNCHANGED <<cases, analysis, result, run, count, failures, worker, request>>
  PROVE  \A f \in Evals : Good(f)'
<1>0. EvalsShape /\ Good(e) /\ used \in Nat /\ e \in Nat /\ used < e /\ used' = e
  BY EvalsAssumption DEF EvalsInv, EvalsShape, CreateRun
<1>1. Unused(e) /\ Phase(e)
  BY <1>0 DEF Good
<1>2. todo'[e] = cases /\ pc'[e] = "begin" /\ row'[e].status = "pending" /\ row'[e].total = Cardinality(cases)
  BY <1>0 DEF CreateRun, EvalsShape, NoEval
<1>3. worker[e] = ForCases(Unstarted) /\ count[e] = Zero /\ failures[e] = {}
  BY <1>1 DEF Unused, Phase
<1>4. Started(e)' = {}
  BY <1>3, NoneStarted DEF Started
<1>5. Phase(e)'
  BY <1>1, <1>2, <1>3, <1>4 DEF Phase, Begun, Unused
<1>6. Covered(e)' /\ Completed(e)'
  BY <1>1, <1>2 DEF Covered, Completed, Unused
<1>7. Good(e)'
  BY <1>0, <1>5, <1>6 DEF Good
<1>8. \A f \in Evals \ {e} : Same(f)
  BY <1>0 DEF Same, CreateRun, EvalsShape
<1> QED
  BY <1>0, <1>7, <1>8, Others

\* ... marked running, ...
LEMMA GoodAtMark ==
  ASSUME EvalsInv, NEW e \in Evals, MarkRunning(e)
  PROVE  \A f \in Evals : Good(f)'
<1>0. EvalsShape /\ Good(e) /\ used \in Nat /\ e \in Nat /\ used' = used /\ row[e] \in EvalRow
  BY EvalsAssumption DEF EvalsInv, EvalsShape, MarkRunning
<1>1. pc[e] = "begin" /\ pc'[e] = "load" /\ ~(used < e)
  BY <1>0 DEF MarkRunning, Goto, EvalsShape, Good, Unused
<1>2. row'[e].total = row[e].total /\ (row'[e].status = "none" <=> row[e].status = "none")
      /\ row'[e].status \in {"none", "running"}
  BY <1>0 DEF MarkRunning, SetStatus, EvalsShape, EvalRow
<1>3. Started(e)' = Started(e)
  BY DEF Started, MarkRunning
<1>4. Phase(e)'
  BY <1>0, <1>1, <1>2, <1>3 DEF Good, Phase, Begun, MarkRunning
<1>5. Covered(e)' /\ Completed(e)'
  BY <1>0, <1>1, <1>2 DEF Good, Phase, Begun, Covered, Completed, MarkRunning
<1>6. Good(e)'
  BY <1>0, <1>1, <1>4, <1>5 DEF Good
<1>7. \A f \in Evals \ {e} : Same(f)
  BY <1>0 DEF Same, MarkRunning, Goto, SetStatus, EvalsShape
<1> QED
  BY <1>0, <1>6, <1>7, Others DEF MarkRunning

\* ... loads its agent, ...
LEMMA GoodAtLoad ==
  ASSUME EvalsInv, NEW e \in Evals, LoadAgent(e)
  PROVE  \A f \in Evals : Good(f)'
<1>0. /\ EvalsShape /\ Good(e) /\ used \in Nat /\ e \in Nat /\ used' = used /\ cases' = cases
      /\ todo[e] \in SUBSET Cases /\ MaxConcurrency \in Nat
  BY EvalsAssumption DEF EvalsInv, EvalsShape, LoadAgent, evalRows
<1>1. pc[e] = "load" /\ pc'[e] = "feed" /\ ~(used < e)
  BY <1>0 DEF LoadAgent, Goto, EvalsShape, Good, Unused
<1>2. /\ worker[e] = ForCases(Unstarted) /\ count[e] = Zero /\ failures[e] = {}
      /\ run[e] = ForCases("none") /\ result[e] = ForCases("none")
  BY <1>0, <1>1 DEF Good, Phase
<1>3. UNCHANGED <<row, analysis, result, run, request, todo, count, failures, worker>>
  BY DEF LoadAgent, evalRows
<1>4. Started(e)' = {} /\ Busy(e)' = {} /\ \A G : Graded(e, G)' = {}
  BY <1>2, <1>3, NoneStarted, SameSets
<1>5. Started(e) = {}
  BY <1>2, NoneStarted
<1>6. Counted(e)'
  <2>1. Graded(e, Pass)' = {} /\ Graded(e, Fail)' = {} /\ Graded(e, Err)' = {}
    BY <1>4 DEF Graded, Pass, Fail, Err
  <2>2. count'[e].passed = 0 /\ count'[e].failed = 0 /\ count'[e].errors = 0 /\ failures'[e] = {}
    BY <1>2, <1>3 DEF Zero
  <2> QED
    BY <2>1, <2>2, CaseSets DEF Counted
<1>7. Stored(e)'
  <2>1. \A c \in Cases : worker'[e][c].at = "off" /\ run'[e][c] = "none" /\ result'[e][c] = "none"
    BY <1>2, <1>3 DEF ForCases, Unstarted
  <2>2. cases' \subseteq Cases
    BY <1>0 DEF EvalsShape
  <2> QED
    BY <2>1, <2>2 DEF Stored, Scored
<1>8. Cardinality(Busy(e)') <= MaxConcurrency
  BY <1>0, <1>4, CaseSets
<1>9. Feeding(e)'
  BY <1>4, <1>6, <1>7, <1>8 DEF Feeding
<1>10. Phase(e)'
  BY <1>0, <1>1, <1>3, <1>4, <1>5, <1>9 DEF Good, Phase, Begun
<1>11. Covered(e)' /\ Completed(e)'
  BY <1>0, <1>1, <1>3 DEF Good, Phase, Begun, Covered, Completed
<1>12. Good(e)'
  BY <1>0, <1>1, <1>10, <1>11 DEF Good
<1>13. \A f \in Evals \ {e} : Same(f)
  BY <1>0, <1>3 DEF Same, LoadAgent, Goto, EvalsShape
<1> QED
  BY <1>0, <1>12, <1>13, Others

\* ... or cannot, ...
LEMMA GoodWithoutAgent ==
  ASSUME EvalsInv, NEW e \in Evals, AgentNotLoaded(e)
  PROVE  \A f \in Evals : Good(f)'
<1>0. EvalsShape /\ Good(e) /\ used \in Nat /\ e \in Nat /\ used' = used /\ row[e] \in EvalRow
        /\ cases' = cases
  BY EvalsAssumption DEF EvalsInv, EvalsShape, AgentNotLoaded
<1>1. pc[e] = "load" /\ pc'[e] = "off" /\ todo'[e] = {} /\ ~(used < e)
  BY <1>0 DEF AgentNotLoaded, Goto, EvalsShape, Good, Unused
<1>2. row'[e].status \in {"none", "failed"}
  BY <1>0 DEF AgentNotLoaded, SetStatus, EvalsShape, EvalRow
<1>3. Phase(e)'
  BY <1>0, <1>1, <1>2 DEF Good, Phase, Begun, AgentNotLoaded
<1>4. Covered(e)' /\ Completed(e)'
  BY <1>0, <1>1, <1>2 DEF Good, Phase, Begun, Covered, Completed, AgentNotLoaded
<1>5. Good(e)'
  BY <1>0, <1>1, <1>3, <1>4 DEF Good
<1>6. \A f \in Evals \ {e} : Same(f)
  BY <1>0 DEF Same, AgentNotLoaded, Goto, SetStatus, EvalsShape
<1> QED
  BY <1>0, <1>5, <1>6, Others

-----------------------------------------------------------------------------
\* Every evaluation stays good when one is completed: every case it listed has been graded,
\* and every result that there is agrees with the grade that was counted.
LEMMA GoodAtComplete ==
  ASSUME EvalsInv, NEW e \in Evals, CompleteRun(e)
  PROVE  \A f \in Evals : Good(f)'
<1>0. /\ EvalsShape /\ Good(e) /\ used \in Nat /\ e \in Nat /\ used' = used /\ cases' = cases
           /\ cases \subseteq Cases
      /\ row[e] \in EvalRow /\ count[e] \in CountRow /\ worker[e] \in [Cases -> WorkerRow]
      /\ Started(e) \in SUBSET Cases /\ Failed(e) \in SUBSET Cases /\ \A G : Graded(e, G) \in SUBSET Cases
  BY EvalsAssumption, EvalShape DEF EvalsInv, EvalsShape, CompleteRun
<1>1. pc[e] = "feed" /\ todo[e] = {} /\ Busy(e) = {} /\ ~(used < e)
  BY <1>0 DEF CompleteRun, AllWorkersDone, Good, Unused
<1>2. Feeding(e) /\ request[e] = {} /\ analysis[e] = {} /\ row[e].status \in {"none", "pending", "running"}
      /\ (row[e].status # "none" => row[e].total = Cardinality(Started(e)))
  BY <1>0, <1>1 DEF Good, Phase, Begun
<1>3. \A c \in Cases : worker[e][c].at \in {"off", "done"}
  BY <1>1 DEF Busy
<1>4. Graded(e, Pass) \cap Graded(e, Fail) = {} /\ Graded(e, Pass) \cup Graded(e, Fail) = Started(e)
      /\ Graded(e, Err) \subseteq Graded(e, Fail)
  BY <1>2, <1>3 DEF Feeding, Stored, Graded, Scored, Started, Pass, Fail, Err, Grades
<1>5. /\ count[e].passed + count[e].failed = Cardinality(Started(e))
      /\ count[e].errors <= count[e].failed /\ failures[e] = Graded(e, Fail)
  BY <1>0, <1>2, <1>4, CaseSets DEF Feeding, Counted
<1>6. Failed(e) \subseteq Graded(e, Fail) /\ {c \in Cases : result[e][c] = "passed"} \subseteq Graded(e, Pass)
  BY <1>2 DEF Feeding, Stored, Graded, Scored, Failed, Pass, Fail
<1>7. Cardinality(Failed(e)) <= count[e].failed
        /\ Cardinality({c \in Cases : result[e][c] = "passed"}) <= count[e].passed
  BY <1>0, <1>2, <1>6, CaseSets DEF Feeding, Counted
<1>8. UNCHANGED <<cases, analysis, result, run, todo, failures, request>>
  BY DEF CompleteRun
<1>9. /\ worker'[e] = ForCases(Unstarted) /\ count'[e] = Zero
      /\ pc'[e] = IF failures[e] = {} THEN "off" ELSE "analyse"
  BY <1>0 DEF CompleteRun, EvalsShape
<1>10. Phase(e)'
  BY <1>1, <1>8, <1>9 DEF Phase, Begun
<1>11. Failed(e)' = Failed(e)
  BY <1>8 DEF Failed
<1>12. Covered(e)'
  BY <1>2, <1>5, <1>6, <1>8, <1>9, <1>11 DEF Covered
<1>13. Completed(e)'
  <2>1. CASE row[e].status = "none"
    <3>1. row'[e] = row[e]
      BY <2>1 DEF CompleteRun
    <3> QED
      BY <2>1, <3>1 DEF Completed
  <2>2. CASE row[e].status # "none"
    <3>1. row'[e] = [status |-> "completed", total |-> row[e].total, passed |-> count[e].passed,
                     failed |-> count[e].failed, errors |-> count[e].errors]
      BY <1>0, <2>2 DEF CompleteRun, EvalsShape
    <3>2. \A c \in cases : run[e][c] # "none" => result[e][c] # "none"
      BY <1>0, <1>2, <1>3, <2>2 DEF Feeding, Stored
    <3> QED
      BY <1>2, <1>5, <1>7, <1>8, <1>11, <2>2, <3>1, <3>2 DEF Completed
  <2> QED
    BY <2>1, <2>2
<1>14. Good(e)'
  BY <1>0, <1>1, <1>10, <1>12, <1>13 DEF Good
<1>15. \A f \in Evals \ {e} : Same(f)
  BY <1>0, <1>8 DEF Same, CompleteRun, EvalsShape
<1> QED
  BY <1>0, <1>14, <1>15, Others

-----------------------------------------------------------------------------
\* What the step of one worker does to the sets of cases.
LEMMA WorkerSets ==
  ASSUME EvalsShape, NEW e \in Evals, NEW c \in Cases, NEW w \in WorkerRow,
         worker' = [worker EXCEPT ![e][c] = w], w.at # "off"
  PROVE  /\ Started(e)' = Started(e) \cup {c}
         /\ w.at # "done" => Busy(e)' = Busy(e) \cup {c}
         /\ Busy(e)' \subseteq Busy(e) \cup {c}
         /\ \A G : Scored(w) /\ w.grade \in G => Graded(e, G)' = Graded(e, G) \cup {c}
         /\ \A G : ~Scored(w) \/ w.grade \notin G => Graded(e, G)' = Graded(e, G) \ {c}
<1>1. worker'[e][c] = w /\ \A d \in Cases \ {c} : worker'[e][d] = worker[e][d]
  BY DEF EvalsShape
<1> QED
  BY <1>1 DEF Started, Busy, Graded

\* A worker at work belongs to an evaluation that starts cases.
LEMMA AtWork ==
  ASSUME EvalsInv, NEW e \in Evals, NEW c \in Cases, worker[e][c].at # "off"
  PROVE  pc[e] = "feed" /\ Feeding(e) /\ c \notin todo[e]
<1>1. Phase(e)
  BY DEF EvalsInv, Good
<1>2. worker[e] # ForCases(Unstarted)
  BY DEF ForCases, Unstarted
<1>3. pc[e] = "feed" /\ Feeding(e)
  BY <1>1, <1>2 DEF Phase
<1> QED
  BY <1>3 DEF Feeding, Started

\* An evaluation that starts cases, and after the step of a worker still keeps its books,
\* is good, and so are the others.
LEMMA GoodAtFeed ==
  ASSUME EvalsInv, NEW e \in Evals, pc[e] = "feed", \A f \in Evals \ {e} : Same(f),
         UNCHANGED <<cases, used, row, analysis, request, pc>>,
         todo'[e] \cup Started(e)' = todo[e] \cup Started(e), Feeding(e)'
  PROVE  \A f \in Evals : Good(f)'
<1>0. EvalsShape /\ Good(e) /\ used \in Nat /\ e \in Nat /\ ~(used < e)
  BY EvalsAssumption DEF EvalsInv, EvalsShape, Good, Unused
<1>1. Phase(e)'
  BY <1>0 DEF Good, Phase, Begun
<1>2. Covered(e)' /\ Completed(e)'
  BY <1>0 DEF Good, Phase, Begun, Covered, Completed
<1>3. Good(e)'
  BY <1>0, <1>1, <1>2 DEF Good
<1> QED
  BY <1>0, <1>3, Others

\* The books are kept by a worker that has not graded before and does not now.
LEMMA Ungraded ==
  ASSUME EvalsShape, NEW e \in Evals, NEW c \in Cases, NEW w \in WorkerRow, Feeding(e), UNCHANGED <<count,
    failures>>,
         worker' = [worker EXCEPT ![e][c] = w], w.at # "off",
         Scored(w) <=> Scored(worker[e][c]), w.grade = worker[e][c].grade
  PROVE  Counted(e)'
<1>1. \A G : Graded(e, G)' = Graded(e, G)
  <2> SUFFICES ASSUME NEW G PROVE Graded(e, G)' = Graded(e, G)
    OBVIOUS
  <2>1. CASE Scored(w) /\ w.grade \in G
    BY <2>1, WorkerSets DEF Graded
  <2>2. CASE ~Scored(w) \/ w.grade \notin G
    BY <2>2, WorkerSets DEF Graded
  <2> QED
    BY <2>1, <2>2
<1>2. Graded(e, Pass)' = Graded(e, Pass) /\ Graded(e, Fail)' = Graded(e, Fail)
        /\ Graded(e, Err)' = Graded(e, Err)
  BY <1>1 DEF Graded, Pass, Fail, Err
<1> QED
  BY <1>2 DEF Feeding, Counted

\* A score keeps the books.
LEMMA ScoreCounted ==
  ASSUME EvalsShape, NEW e \in Evals, NEW c \in Cases, NEW grade \in Grades, Feeding(e),
    ~Scored(worker[e][c]),
         Score(e, c, grade)
  PROVE  /\ Counted(e)' /\ Started(e)' = Started(e) \cup {c} /\ Busy(e)' = Busy(e) \cup {c}
         /\ worker'[e][c] = [at |-> "record", grade |-> grade]
         /\ \A d \in Cases \ {c} : worker'[e][d] = worker[e][d]
<1> DEFINE w == [at |-> "record", grade |-> grade]
<1>0. worker \in [Evals -> [Cases -> WorkerRow]] /\ failures \in [Evals -> SUBSET Cases]
        /\ count[e] \in CountRow
      /\ Graded(e, Pass) \in SUBSET Cases /\ Graded(e, Fail) \in SUBSET Cases
           /\ Graded(e, Err) \in SUBSET Cases
  BY EvalShape DEF EvalsShape
<1>1. w \in WorkerRow /\ w.at = "record" /\ w.grade = grade /\ Scored(w)
  BY DEF WorkerRow, Scored
<1>2. worker' = [worker EXCEPT ![e][c] = w]
  BY ScoreShape
<1> HIDE DEF w
<1>3. Started(e)' = Started(e) \cup {c} /\ Busy(e)' = Busy(e) \cup {c}
  BY <1>1, <1>2, WorkerSets
<1>9. worker'[e][c] = w /\ \A d \in Cases \ {c} : worker'[e][d] = worker[e][d]
  BY <1>0, <1>2
<1>4. c \notin Graded(e, Pass) /\ c \notin Graded(e, Fail) /\ c \notin Graded(e, Err)
  BY DEF Graded
<1>5. /\ Graded(e, Pass)' = IF grade \in Pass THEN Graded(e, Pass) \cup {c} ELSE Graded(e, Pass)
      /\ Graded(e, Fail)' = IF grade \in Fail THEN Graded(e, Fail) \cup {c} ELSE Graded(e, Fail)
      /\ Graded(e, Err)' = IF grade \in Err THEN Graded(e, Err) \cup {c} ELSE Graded(e, Err)
  BY <1>1, <1>9 DEF Graded, Pass, Fail, Err
<1>6. /\ Cardinality(Graded(e, Pass)') = Cardinality(Graded(e, Pass)) + (IF grade \in Pass THEN 1 ELSE 0)
      /\ Cardinality(Graded(e, Fail)') = Cardinality(Graded(e, Fail)) + (IF grade \in Fail THEN 1 ELSE 0)
      /\ Cardinality(Graded(e, Err)') = Cardinality(Graded(e, Err)) + (IF grade \in Err THEN 1 ELSE 0)
  <2>1. \A S \in SUBSET Cases : c \notin S => Cardinality(S \cup {c}) = Cardinality(S) + 1
    BY CaseSets
  <2>2. /\ Cardinality(Graded(e, Pass)) \in Nat /\ Cardinality(Graded(e, Fail)) \in Nat
        /\ Cardinality(Graded(e, Err)) \in Nat
    BY <1>0, CaseSets
  <2>3. Cardinality(Graded(e, Pass)') = Cardinality(Graded(e, Pass)) + (IF grade \in Pass THEN 1 ELSE 0)
    BY <1>0, <1>4, <1>5, <2>1, <2>2
  <2>4. Cardinality(Graded(e, Fail)') = Cardinality(Graded(e, Fail)) + (IF grade \in Fail THEN 1 ELSE 0)
    BY <1>0, <1>4, <1>5, <2>1, <2>2
  <2>5. Cardinality(Graded(e, Err)') = Cardinality(Graded(e, Err)) + (IF grade \in Err THEN 1 ELSE 0)
    BY <1>0, <1>4, <1>5, <2>1, <2>2
  <2> QED
    BY <2>3, <2>4, <2>5
<1>7. Counted(e)'
  <2>1. /\ count'[e].passed = count[e].passed + (IF grade \in Pass THEN 1 ELSE 0)
        /\ count'[e].failed = count[e].failed + (IF grade \in Fail THEN 1 ELSE 0)
        /\ count'[e].errors = count[e].errors + (IF grade \in Err THEN 1 ELSE 0)
    BY ScoreShape
  <2>2. failures' = [failures EXCEPT ![e] = IF grade \in Fail THEN failures[e] \cup {c} ELSE failures[e]]
    BY ScoreShape
  <2>3. failures'[e] = IF grade \in Fail THEN failures[e] \cup {c} ELSE failures[e]
    BY <1>0, <2>2
  <2>4. Counted(e)
    BY DEF Feeding
  <2> QED
    BY <1>5, <1>6, <2>1, <2>3, <2>4 DEF Counted
<1> QED
  BY <1>3, <1>7, <1>9 DEF w

\* A set of case numbers that is not empty has a least element.
LEMMA LeastCase ==
  ASSUME NEW S \in SUBSET Cases, S # {}
  PROVE  Min(S) \in S
<1>1. S \subseteq Nat
  BY EvalsAssumption
<1>2. PICK m \in S : \A y \in S : ~ (<<y, m>> \in OpToRel(<, Nat))
  BY <1>1, WFMin, NatLessThanWellFounded
<1>3. ASSUME NEW y \in S PROVE m =< y
  <2>1. ~(<<y, m>> \in OpToRel(<, Nat))
    BY <1>2
  <2>2. y \in Nat /\ m \in Nat
    BY <1>1
  <2>3. ~(y < m)
    BY <2>1, <2>2 DEF OpToRel
  <2> QED
    BY <2>2, <2>3
<1> QED
  BY <1>3 DEF Min

\* One more worker within the limit.
LEMMA OneMoreBusy ==
  ASSUME NEW S \in SUBSET Cases, NEW c \in Cases, Cardinality(S) < MaxConcurrency
  PROVE  Cardinality(S \cup {c}) <= MaxConcurrency
<1>1. Cardinality(S) \in Nat /\ MaxConcurrency \in Nat
  BY CaseSets, EvalsAssumption
<1>2. CASE c \in S
  <2>1. S \cup {c} = S
    BY <1>2
  <2> QED
    BY <1>1, <2>1
<1>3. CASE c \notin S
  <2>1. Cardinality(S \cup {c}) = Cardinality(S) + 1
    BY <1>3, CaseSets
  <2> QED
    BY <1>1, <2>1
<1> QED
  BY <1>2, <1>3

\* Every evaluation stays good when a worker starts, ...
LEMMA GoodAtStart ==
  ASSUME EvalsInv, NEW e \in Evals, NEW c \in Cases, StartCase(e, c)
  PROVE  \A f \in Evals : Good(f)'
<1>0. /\ EvalsShape /\ Good(e) /\ pc[e] = "feed" /\ todo[e] \in SUBSET Cases
           /\ worker \in [Evals -> [Cases -> WorkerRow]]
      /\ worker[e][c] \in WorkerRow /\ Busy(e) \in SUBSET Cases /\ run \in [Evals -> [Cases -> RunStatus]]
      /\ cases \subseteq Cases
  BY EvalShape DEF EvalsInv, StartCase, EvalsShape
<1>1. Feeding(e) /\ c \in todo[e] /\ Cardinality(Busy(e)) < MaxConcurrency
  BY <1>0, LeastCase DEF StartCase, Good, Phase
<1>2. worker[e][c].at = "off" /\ run[e][c] = "none" /\ result[e][c] = "none"
  BY <1>1 DEF Feeding, Started, Stored
<1>3. todo'[e] = todo[e] \ {c}
  BY <1>0 DEF StartCase, EvalsShape
<1>4. UNCHANGED <<cases, used, row, analysis, request, pc, result>>
  BY DEF StartCase, evalRows
<1>5. Cardinality(Busy(e) \cup {c}) <= MaxConcurrency
  BY <1>0, <1>1, OneMoreBusy
<1>6. CASE RunAgentSync(e, c)
  <2> DEFINE w == [at |-> "run", grade |-> worker[e][c].grade]
  <2>1. worker' = [worker EXCEPT ![e][c] = w] /\ run' = [run EXCEPT ![e][c] = "running"]
          /\ UNCHANGED <<count, failures>>
    BY <1>0, <1>6, WorkShape DEF RunAgentSync, Work
  <2>2. w \in WorkerRow /\ w.at = "run" /\ w.grade = worker[e][c].grade /\ ~Scored(w)
    BY <1>0 DEF WorkerRow, Scored
  <2> HIDE DEF w
  <2>3. worker'[e][c] = w /\ \A d \in Cases \ {c} : worker'[e][d] = worker[e][d]
    BY <1>0, <2>1
  <2>4. Started(e)' = Started(e) \cup {c} /\ Busy(e)' = Busy(e) \cup {c}
    BY <1>0, <2>1, <2>2, WorkerSets
  <2>5. ~Scored(worker[e][c])
    BY <1>2 DEF Scored
  <2>6. Counted(e)'
    BY <1>0, <1>1, <2>1, <2>2, <2>5, Ungraded
  <2>7. \A d \in Cases \ {c} : run'[e][d] = run[e][d]
    BY <1>0, <2>1
  <2>8. Stored(e)'
    BY <1>0, <1>1, <1>2, <1>4, <2>2, <2>3, <2>7 DEF Feeding, Stored, Scored
  <2>9. Feeding(e)'
    BY <1>1, <1>3, <1>5, <2>4, <2>6, <2>8 DEF Feeding
  <2>10. \A f \in Evals \ {e} : Same(f)
    BY <1>0, <1>4, <2>1 DEF Same, EvalsShape, StartCase
  <2>11. todo'[e] \cup Started(e)' = todo[e] \cup Started(e)
    BY <1>1, <1>3, <2>4
  <2> QED
    BY <1>0, <1>4, <2>9, <2>10, <2>11, GoodAtFeed
<1>7. CASE RunNotCreated(e, c)
  <2>1. Score(e, c, "error") /\ run' = run /\ "error" \in Grades /\ ~Scored(worker[e][c])
    BY <1>2, <1>7 DEF RunNotCreated, Grades, Scored
  <2>2. /\ Counted(e)' /\ Started(e)' = Started(e) \cup {c} /\ Busy(e)' = Busy(e) \cup {c}
        /\ worker'[e][c] = [at |-> "record", grade |-> "error"]
        /\ \A d \in Cases \ {c} : worker'[e][d] = worker[e][d]
    BY <1>0, <1>1, <2>1, ScoreCounted
  <2>3. Stored(e)'
    <3>1. Stored(e)
      BY <1>1 DEF Feeding
    <3>2. worker'[e][c].at = "record" /\ worker'[e][c].grade = "error"
      BY <2>2
    <3>3. \A d \in Cases : Scored(worker'[e][d]) => worker'[e][d].grade \in Grades
      BY <2>1, <2>2, <3>1, <3>2 DEF Stored
    <3>4. \A d \in Cases : run'[e][d] # "none" => worker'[e][d].at # "off"
      BY <2>1, <2>2, <3>1, <3>2 DEF Stored
    <3>5. \A d \in Cases : result'[e][d] # "none" =>
            worker'[e][d].at = "done" /\ result'[e][d] = worker'[e][d].grade
      BY <1>2, <1>4, <2>2, <3>1 DEF Stored
    <3>6. \A d \in cases' : row'[e].status # "none" /\ worker'[e][d].at = "done" => result'[e][d] # "none"
      BY <1>0, <1>4, <2>2, <3>1, <3>2 DEF Stored
    <3> QED
      BY <3>3, <3>4, <3>5, <3>6 DEF Stored
  <2>4. Feeding(e)'
    BY <1>1, <1>3, <1>5, <2>2, <2>3 DEF Feeding
  <2>5. \A f \in Evals \ {e} : count'[f] = count[f] /\ failures'[f] = failures[f] /\ worker'[f] = worker[f]
    BY <1>0, <2>1, ScoreShape
  <2>6. \A f \in Evals \ {e} : Same(f)
    BY <1>0, <1>4, <2>1, <2>5 DEF Same, EvalsShape, StartCase
  <2>7. todo'[e] \cup Started(e)' = todo[e] \cup Started(e)
    BY <1>1, <1>3, <2>2
  <2> QED
    BY <1>0, <1>4, <2>4, <2>6, <2>7, GoodAtFeed
<1> QED
  BY <1>6, <1>7 DEF StartCase

\* ... moves on without grading, ...
LEMMA GoodAtMove ==
  ASSUME EvalsInv, NEW e \in Evals, NEW c \in Cases, ReturnFromRun(e, c) \/ ReadOutput(e, c)
  PROVE  \A f \in Evals : Good(f)'
<1>0. /\ EvalsShape /\ Good(e) /\ worker \in [Evals -> [Cases -> WorkerRow]]
      /\ worker[e][c] \in WorkerRow /\ run \in [Evals -> [Cases -> RunStatus]] /\ cases \subseteq Cases
  BY EvalShape DEF EvalsInv, EvalsShape
<1>1. worker[e][c].at \in {"run", "read"}
        /\ UNCHANGED <<cases, used, row, analysis, request, pc, result, todo, count, failures>>
  BY DEF ReturnFromRun, ReadOutput, Work, evalRows
<1>2. pc[e] = "feed" /\ Feeding(e)
  BY <1>1, AtWork
<1>3. PICK to \in {"read", "grade"} : worker' = [worker EXCEPT ![e][c].at = to]
  BY DEF ReturnFromRun, ReadOutput, Work
<1> DEFINE w == [at |-> to, grade |-> worker[e][c].grade]
<1>4. worker' = [worker EXCEPT ![e][c] = w] /\ \A f \in Evals \ {e} : worker'[f] = worker[f]
  <2>1. to \in {"run", "read", "grade", "record", "done"}
    OBVIOUS
  <2>2. EvalsShape
    BY <1>0
  <2>3. worker' = [worker EXCEPT ![e][c] = w]
    <3>1. CASE to = "read"
      <4>1. worker' = [worker EXCEPT ![e][c].at = "read"]
        BY <1>3, <3>1
      <4>2. worker' = [worker EXCEPT ![e][c] = [at |-> "read", grade |-> worker[e][c].grade]]
        BY ZenonT(30), <2>2, <4>1, WorkShape
      <4> QED
        BY <3>1, <4>2
    <3>2. CASE to = "grade"
      <4>1. worker' = [worker EXCEPT ![e][c].at = "grade"]
        BY <1>3, <3>2
      <4>2. worker' = [worker EXCEPT ![e][c] = [at |-> "grade", grade |-> worker[e][c].grade]]
        BY <2>2, <4>1, WorkShape
      <4> QED
        BY <3>2, <4>2
    <3> QED
      BY <3>1, <3>2
  <2>4. \A f \in Evals \ {e} : worker'[f] = worker[f]
    BY <1>3, <2>1, <2>2, WorkShape
  <2> QED
    BY <2>3, <2>4
<1>5. w \in WorkerRow /\ w.at = to /\ w.at # "off" /\ w.at # "done" /\ w.grade = worker[e][c].grade
        /\ ~Scored(w) /\ ~Scored(worker[e][c])
  BY <1>0, <1>1 DEF WorkerRow, Scored
<1> HIDE DEF w
<1>6. worker'[e][c] = w /\ \A d \in Cases \ {c} : worker'[e][d] = worker[e][d]
  BY <1>0, <1>4
<1>7. Started(e)' = Started(e) /\ Busy(e)' = Busy(e)
  BY <1>1, <1>5, <1>6 DEF Started, Busy
<1>8. Counted(e)'
  BY <1>0, <1>1, <1>2, <1>4, <1>5, Ungraded
<1>9. (\A d \in Cases \ {c} : run'[e][d] = run[e][d]) /\ \A f \in Evals \ {e} : run'[f] = run[f]
  BY <1>0 DEF ReturnFromRun, ReadOutput
<1>10. Stored(e)'
  BY <1>0, <1>1, <1>2, <1>5, <1>6, <1>9 DEF Feeding, Stored, Scored
<1>11. Feeding(e)'
  BY <1>1, <1>2, <1>7, <1>8, <1>10 DEF Feeding
<1>12. \A f \in Evals \ {e} : Same(f)
  BY <1>1, <1>4, <1>9 DEF Same
<1> QED
  BY <1>1, <1>2, <1>7, <1>11, <1>12, GoodAtFeed

\* ... grades, ...
LEMMA GoodAtScore ==
  ASSUME EvalsInv, NEW e \in Evals, NEW c \in Cases, ReadFailure(e, c) \/ Grade(e, c)
  PROVE  \A f \in Evals : Good(f)'
<1>0. EvalsShape /\ Good(e) /\ cases \subseteq Cases /\ Busy(e) \in SUBSET Cases
  BY EvalShape DEF EvalsInv, EvalsShape
<1>1. worker[e][c].at \in {"read", "grade"}
        /\ UNCHANGED <<cases, used, row, analysis, request, pc, result, todo, run>>
  BY DEF ReadFailure, Grade, evalRows
<1>2. pc[e] = "feed" /\ Feeding(e) /\ ~Scored(worker[e][c])
  BY <1>1, AtWork DEF Scored
<1>3. PICK grade \in Grades : Score(e, c, grade)
  BY DEF ReadFailure, Grade, Grades
<1>4. /\ Counted(e)' /\ Started(e)' = Started(e) \cup {c} /\ Busy(e)' = Busy(e) \cup {c}
      /\ worker'[e][c] = [at |-> "record", grade |-> grade]
      /\ \A d \in Cases \ {c} : worker'[e][d] = worker[e][d]
  BY <1>0, <1>2, <1>3, ScoreCounted
<1>5. c \in Started(e) /\ c \in Busy(e)
  BY <1>1 DEF Started, Busy
<1>6. Started(e)' = Started(e) /\ Busy(e)' = Busy(e)
  BY <1>4, <1>5
<1>7. Stored(e)'
  BY <1>0, <1>1, <1>2, <1>4 DEF Feeding, Stored, Scored
<1>8. Feeding(e)'
  BY <1>1, <1>2, <1>4, <1>6, <1>7 DEF Feeding
<1>9. \A f \in Evals \ {e} : count'[f] = count[f] /\ failures'[f] = failures[f] /\ worker'[f] = worker[f]
  BY <1>0, <1>3, ScoreShape
<1>10. \A f \in Evals \ {e} : Same(f)
  BY <1>1, <1>9 DEF Same
<1> QED
  BY <1>1, <1>2, <1>6, <1>8, <1>10, GoodAtFeed

\* ... and stores its result.
LEMMA GoodAtResult ==
  ASSUME EvalsInv, NEW e \in Evals, NEW c \in Cases, CreateResult(e, c)
  PROVE  \A f \in Evals : Good(f)'
<1>0. /\ EvalsShape /\ Good(e) /\ worker \in [Evals -> [Cases -> WorkerRow]]
           /\ worker[e] \in [Cases -> WorkerRow]
      /\ worker[e][c] \in WorkerRow /\ cases \subseteq Cases /\ Busy(e) \in SUBSET Cases
      /\ result \in [Evals -> [Cases -> Grades \cup {"none"}]] /\ MaxConcurrency \in Nat
  BY EvalShape, EvalsAssumption DEF EvalsInv, EvalsShape
<1>1. worker[e][c].at = "record" /\ UNCHANGED <<cases, used, row, analysis, request, pc, todo, run, count,
        failures>>
  BY DEF CreateResult, Work
<1>2. pc[e] = "feed" /\ Feeding(e) /\ Scored(worker[e][c]) /\ worker[e][c].grade \in Grades
  BY <1>1, AtWork DEF Scored, Feeding, Stored
<1> DEFINE w == [at |-> "done", grade |-> worker[e][c].grade]
<1>3. worker' = [worker EXCEPT ![e][c] = w] /\ \A f \in Evals \ {e} : worker'[f] = worker[f]
  <2>1. worker' = [worker EXCEPT ![e][c].at = "done"]
    BY DEF CreateResult, Work
  <2>2. EvalsShape
    BY <1>0
  <2>3. worker' = [worker EXCEPT ![e][c] = w]
    BY ZenonT(30), <2>1, <2>2, WorkShape
  <2>4. \A f \in Evals \ {e} : worker'[f] = worker[f]
    BY <2>1, <2>2, WorkShape
  <2> QED
    BY <2>3, <2>4
<1>4. w \in WorkerRow /\ w.at = "done" /\ w.grade = worker[e][c].grade /\ Scored(w)
  BY <1>0 DEF WorkerRow, Scored
<1> HIDE DEF w
<1>5. worker'[e][c] = w /\ \A d \in Cases \ {c} : worker'[e][d] = worker[e][d]
  BY <1>0, <1>3
<1>6. Started(e)' = Started(e) /\ Busy(e)' \subseteq Busy(e)
  BY <1>1, <1>4, <1>5 DEF Started, Busy
<1>7. Cardinality(Busy(e)') <= MaxConcurrency
  <2>1. Busy(e)' \in SUBSET Cases
    BY <1>0, <1>6
  <2>2. Cardinality(Busy(e)') <= Cardinality(Busy(e)) /\ Cardinality(Busy(e)') \in Nat
          /\ Cardinality(Busy(e)) \in Nat
    BY <1>0, <1>6, <2>1, CaseSets
  <2> QED
    BY <1>0, <1>2, <2>2 DEF Feeding
<1>8. Counted(e)'
  BY <1>0, <1>1, <1>2, <1>3, <1>4, Ungraded
<1>9. /\ result'[e][c] = IF row[e].status # "none" /\ c \in cases THEN worker[e][c].grade ELSE result[e][c]
      /\ \A d \in Cases \ {c} : result'[e][d] = result[e][d]
      /\ \A f \in Evals \ {e} : result'[f] = result[f]
  BY <1>0 DEF CreateResult
<1>10. result[e][c] = "none"
  BY <1>1, <1>2 DEF Feeding, Stored
<1>11. Stored(e)'
  <2>1. Stored(e)
    BY <1>2 DEF Feeding
  <2>2. worker'[e][c].at = "done" /\ worker'[e][c].grade = worker[e][c].grade
    BY <1>4, <1>5
  <2>3. \A d \in Cases : Scored(worker'[e][d]) => worker'[e][d].grade \in Grades
    BY <1>2, <1>5, <2>1, <2>2 DEF Stored
  <2>4. \A d \in Cases : run'[e][d] # "none" => worker'[e][d].at # "off"
    BY <1>1, <1>5, <2>1, <2>2 DEF Stored
  <2>5. \A d \in Cases : result'[e][d] # "none" =>
          worker'[e][d].at = "done" /\ result'[e][d] = worker'[e][d].grade
    BY <1>5, <1>9, <1>10, <2>1, <2>2 DEF Stored
  <2>6. worker[e][c].grade # "none"
    BY <1>2 DEF Grades
  <2>7. \A d \in cases' : row'[e].status # "none" /\ worker'[e][d].at = "done" => result'[e][d] # "none"
    BY <1>0, <1>1, <1>5, <1>9, <2>1, <2>6 DEF Stored
  <2> QED
    BY <2>3, <2>4, <2>5, <2>7 DEF Stored
<1>12. Feeding(e)'
  BY <1>1, <1>2, <1>6, <1>7, <1>8, <1>11 DEF Feeding
<1>13. \A f \in Evals \ {e} : Same(f)
  BY <1>1, <1>3, <1>9 DEF Same
<1> QED
  BY <1>1, <1>2, <1>6, <1>12, <1>13, GoodAtFeed

-----------------------------------------------------------------------------
\* Every evaluation stays good when an analysis is asked for or stored, ...
LEMMA GoodAtAnalysis ==
  ASSUME EvalsInv, NEW e \in Evals, DoAnalysis(e) \/ StoreAnalysis(e) \/ AnalyzeRun(e)
  PROVE  \A f \in Evals : Good(f)'
<1>0. EvalsShape /\ Good(e) /\ used \in Nat /\ e \in Nat
  BY EvalsAssumption DEF EvalsInv, EvalsShape
<1>1. UNCHANGED <<cases, used, row, result, run, todo, count, worker>>
  BY DEF DoAnalysis, StoreAnalysis, AnalyzeRun, evalRows, goVars
<1>2. ~Begun(e) /\ ~(used < e)
  BY <1>0 DEF DoAnalysis, StoreAnalysis, AnalyzeRun, Goto, Good, Phase, Begun, Unused, NoEval
<1>3. Failed(e)' = Failed(e)
  BY <1>1 DEF Failed
<1>4. CASE DoAnalysis(e)
  <2>1. pc[e] = "analyse" /\ pc'[e] = "off" /\ failures'[e] = {} /\ request' = request
    BY <1>0, <1>4 DEF DoAnalysis, Goto, EvalsShape
  <2>2. analysis'[e] = analysis[e] \/ analysis'[e] = failures[e]
    BY <1>0, <1>4 DEF DoAnalysis, Store, EvalsShape
  <2>3. Good(e)'
    BY <1>0, <1>1, <1>2, <1>3, <2>1, <2>2 DEF Good, Phase, Begun, Covered, Completed
  <2>4. \A f \in Evals \ {e} : Same(f)
    BY <1>0, <1>1, <1>4 DEF Same, DoAnalysis, Goto, Store, EvalsShape
  <2> QED
    BY <1>0, <1>1, <2>3, <2>4, Others
<1>5. CASE StoreAnalysis(e)
  <2>1. request[e] # {} /\ request'[e] = {} /\ UNCHANGED <<pc, failures>>
    BY <1>0, <1>5 DEF StoreAnalysis, EvalsShape, goVars
  <2>2. analysis'[e] = analysis[e] \/ analysis'[e] = request[e]
    BY <1>0, <1>5 DEF StoreAnalysis, Store, EvalsShape
  <2>3. Good(e)'
    BY <1>0, <1>1, <1>2, <1>3, <2>1, <2>2 DEF Good, Phase, Begun, Covered, Completed
  <2>4. \A f \in Evals \ {e} : Same(f)
    BY <1>0, <1>1, <1>5 DEF Same, StoreAnalysis, Store, EvalsShape, goVars
  <2> QED
    BY <1>0, <1>1, <2>3, <2>4, Others
<1>6. CASE AnalyzeRun(e)
  <2>1. request'[e] = Failed(e) /\ UNCHANGED <<pc, failures, analysis>>
    BY <1>0, <1>6 DEF AnalyzeRun, FailedResults, EvalsShape, goVars, evalRows
  <2>2. Good(e)'
    BY <1>0, <1>1, <1>2, <1>3, <2>1 DEF Good, Phase, Begun, Covered, Completed
  <2>3. \A f \in Evals \ {e} : Same(f)
    BY <1>0, <1>1, <1>6 DEF Same, AnalyzeRun, EvalsShape, goVars, evalRows
  <2> QED
    BY <1>0, <1>1, <2>2, <2>3, Others
<1> QED
  BY <1>4, <1>5, <1>6

\* ... when a case or the suite goes, ...
LEMMA GoodAtDelete ==
  ASSUME EvalsInv, DeleteSuite \/ \E c \in Cases : DeleteCase(c)
  PROVE  \A f \in Evals : Good(f)'
<1> SUFFICES ASSUME NEW f \in Evals PROVE Good(f)'
  OBVIOUS
<1>0. EvalsShape /\ Good(f) /\ cases \subseteq Cases /\ Failed(f) \in SUBSET Cases
        /\ result \in [Evals -> [Cases -> Grades \cup {"none"}]]
      /\ result[f] \in [Cases -> Grades \cup {"none"}] /\ row[f] \in EvalRow
  BY EvalShape DEF EvalsInv, EvalsShape
<1>1. UNCHANGED <<used, run, pc, todo, count, failures, worker, request>>
  BY DEF DeleteSuite, DeleteCase, goVars
<1>2. Started(f)' = Started(f) /\ Busy(f)' = Busy(f) /\ (Counted(f)' <=> Counted(f))
  BY <1>1, SameSets, SameCounted
<1>3. CASE DeleteSuite
  <2>1. cases' = {} /\ row'[f] = NoEval /\ analysis'[f] = {} /\ result'[f] = ForCases("none")
          /\ row'[f].status = "none"
    BY <1>3 DEF DeleteSuite, NoEval
  <2>2. Failed(f)' = {}
    BY <2>1 DEF Failed, ForCases
  <2>3. Stored(f) => Stored(f)'
    BY <1>1, <2>1 DEF Stored, ForCases
  <2>4. Phase(f)'
    BY <1>0, <1>1, <1>2, <2>1, <2>3 DEF Good, Phase, Begun, Feeding
  <2>5. Covered(f)' /\ Completed(f)' /\ (used < f => Unused(f))'
    BY <1>0, <1>1, <2>1, <2>2 DEF Good, Covered, Completed, Unused
  <2> QED
    BY <2>4, <2>5 DEF Good
<1>4. CASE \E c \in Cases : DeleteCase(c)
  <2>0. PICK c \in Cases : DeleteCase(c)
    BY <1>4
  <2>1. cases' = cases \ {c} /\ UNCHANGED <<row, analysis>>
    BY <2>0 DEF DeleteCase
  <2>2. result'[f] = [result[f] EXCEPT ![c] = "none"]
    BY <2>0 DEF DeleteCase
  <2>3. result'[f][c] = "none" /\ \A d \in Cases \ {c} : result'[f][d] = result[f][d]
    BY <1>0, <2>2
  <2>4. result[f] = ForCases("none") => result'[f] = ForCases("none")
    BY <2>2 DEF ForCases
  <2>5. Stored(f) => Stored(f)'
    BY <1>0, <1>1, <2>1, <2>3 DEF Stored
  <2>6. Phase(f)'
    BY <1>0, <1>1, <1>2, <2>1, <2>4, <2>5 DEF Good, Phase, Begun, Feeding
  <2>7. Failed(f)' \subseteq Failed(f) /\ Failed(f)' \in SUBSET Cases
    BY <2>3 DEF Failed
  <2>8. Covered(f)'
    BY <1>0, <1>1, <2>1, <2>7 DEF Good, Covered
  <2> DEFINE passed == {d \in Cases : result[f][d] = "passed"}
             after == {d \in Cases : result'[f][d] = "passed"}
  <2>9. after \subseteq passed /\ after \in SUBSET Cases /\ passed \in SUBSET Cases
    BY <2>3
  <2> HIDE DEF passed, after
  <2>10. Cardinality(after) <= Cardinality(passed) /\ Cardinality(Failed(f)') <= Cardinality(Failed(f))
         /\ Cardinality(after) \in Nat /\ Cardinality(passed) \in Nat
         /\ Cardinality(Failed(f)') \in Nat /\ Cardinality(Failed(f)) \in Nat
    BY <1>0, <2>7, <2>9, CaseSets
  <2>11. Completed(f)'
    <3>1. SUFFICES ASSUME row'[f].status = "completed" PROVE Completed(f)'
      BY DEF Completed
    <3>2. /\ row[f].passed + row[f].failed = row[f].total /\ row[f].errors <= row[f].failed
          /\ \A d \in cases : run[f][d] # "none" => result[f][d] # "none"
          /\ Cardinality(passed) <= row[f].passed /\ Cardinality(Failed(f)) <= row[f].failed
      BY <1>0, <2>1, <3>1 DEF Good, Completed, passed
    <3>3. Cardinality(after) <= row[f].passed /\ Cardinality(Failed(f)') <= row[f].failed
      BY <1>0, <2>10, <3>2 DEF EvalRow
    <3> QED
      BY <1>0, <1>1, <2>1, <2>3, <3>2, <3>3 DEF Completed, after
  <2>12. (used < f => Unused(f))'
    BY <1>0, <1>1, <2>1, <2>4 DEF Good, Unused
  <2> QED
    BY <2>6, <2>8, <2>11, <2>12 DEF Good
<1> QED
  BY <1>3, <1>4

\* ... when the process dies, ...
LEMMA GoodAtCrash ==
  ASSUME EvalsInv, EvalsCrash
  PROVE  \A f \in Evals : Good(f)'
<1> SUFFICES ASSUME NEW f \in Evals PROVE Good(f)'
  OBVIOUS
<1>0. EvalsShape /\ Good(f) /\ run[f] \in [Cases -> RunStatus] /\ cases \subseteq Cases
  BY EvalShape DEF EvalsInv, EvalsShape
<1>1. /\ UNCHANGED <<used, cases, row, analysis, result>>
      /\ pc'[f] = "off" /\ todo'[f] = {} /\ count'[f] = Zero /\ failures'[f] = {} /\ request'[f] = {}
      /\ worker'[f] = ForCases(Unstarted)
  BY DEF EvalsCrash, evalRows
<1>2. run'[f] = [c \in Cases |-> IF run[f][c] = "running" THEN "failed" ELSE run[f][c]]
  BY DEF EvalsCrash
<1>3. (\A c \in Cases : run'[f][c] # "none" => run[f][c] # "none")
      /\ (run[f] = ForCases("none") => run'[f] = ForCases("none"))
  BY <1>2 DEF ForCases
<1>4. Failed(f)' = Failed(f)
  BY <1>1 DEF Failed
<1>5. Phase(f)'
  BY <1>1 DEF Phase, Begun
<1>6. Covered(f)' /\ Completed(f)'
  BY <1>0, <1>1, <1>3, <1>4 DEF Good, Covered, Completed
<1>7. (used < f => Unused(f))'
  BY <1>0, <1>1, <1>3 DEF Good, Unused
<1> QED
  BY <1>5, <1>6, <1>7 DEF Good

\* ... when somebody decides on a run, which may come long after its evaluation has gone on.
LEMMA GoodAtDecision ==
  ASSUME EvalsInv, NEW e \in Evals, NEW c \in Cases, DecideRun(e, c) \/ CancelRun(e, c)
  PROVE  \A f \in Evals : Good(f)'
<1>0. EvalsShape /\ Good(e) /\ run[e] \in [Cases -> RunStatus] /\ cases \subseteq Cases /\ used \in Nat
        /\ e \in Nat
  BY EvalShape, EvalsAssumption DEF EvalsInv, EvalsShape
<1>1. UNCHANGED <<used, cases, row, analysis, result, pc, todo, count, failures, worker, request>>
        /\ run[e][c] # "none"
  BY DEF DecideRun, CancelRun, goVars, evalRows
<1>2. PICK s \in {"success", "failed", "cancelled"} : run' = [run EXCEPT ![e][c] = s]
  BY DEF DecideRun, CancelRun
<1>3. (\A d \in Cases \ {c} : run'[e][d] = run[e][d]) /\ \A f \in Evals \ {e} : run'[f] = run[f]
  BY <1>0, <1>2 DEF EvalsShape
<1>4. pc[e] \notin {"begin", "load"} /\ ~(used < e)
  BY <1>0, <1>1 DEF Good, Phase, Unused, ForCases
<1>5. Started(e)' = Started(e) /\ Busy(e)' = Busy(e) /\ Failed(e)' = Failed(e) /\ (Counted(e)' <=> Counted(e))
  BY <1>1, SameSets, SameFailed, SameCounted
<1>6. Stored(e) => Stored(e)'
  BY <1>0, <1>1, <1>3 DEF Stored
<1>7. Phase(e)'
  BY <1>0, <1>1, <1>4, <1>5, <1>6 DEF Good, Phase, Begun, Feeding
<1>8. Covered(e)' /\ Completed(e)'
  BY <1>0, <1>1, <1>3, <1>5 DEF Good, Covered, Completed
<1>9. Good(e)'
  BY <1>1, <1>4, <1>7, <1>8 DEF Good
<1>10. \A f \in Evals \ {e} : Same(f)
  BY <1>1, <1>3 DEF Same
<1> QED
  BY <1>0, <1>1, <1>9, <1>10, Others

\* ... and at whatever adds cases, or leaves the evaluations alone.
LEMMA GoodOtherwise ==
  ASSUME EvalsInv, \/ SaveAgent \/ UpdateSuite \/ ImportCases \/ GenerateCases \/ EndBatch
                   \/ \E c \in Cases : CreateCase(c) \/ SaveCase(c)
  PROVE  \A f \in Evals : Good(f)'
<1> SUFFICES ASSUME NEW f \in Evals PROVE Good(f)'
  OBVIOUS
<1>0. used \in Nat
  BY EvalsAssumption DEF EvalsInv, EvalsShape
<1>1. CASE SaveAgent \/ UpdateSuite \/ ImportCases \/ GenerateCases \/ EndBatch
  <2>1. Same(f) /\ cases' = cases /\ used' = used
    BY <1>1 DEF SaveAgent, UpdateSuite, ImportCases, GenerateCases, BeginBatch, EndBatch, Same, evalRows,
      goVars
  <2> QED
    BY <1>0, <2>1, Frame
<1>2. ASSUME NEW c \in Cases, CreateCase(c) \/ SaveCase(c) PROVE Good(f)'
  <2>1. Same(f) /\ cases' = cases \cup {c} /\ used' = used /\ worker[f][c] = Unstarted /\ run[f][c] = "none"
    BY <1>2 DEF CreateCase, SaveCase, InsertCase, Same, goVars
  <2>2. \A d \in cases' \ cases : worker[f][d].at = "off" /\ run[f][d] = "none"
    BY <2>1 DEF Unstarted
  <2> QED
    BY <1>0, <2>1, <2>2, Frame
<1> QED
  BY <1>1, <1>2

-----------------------------------------------------------------------------
\* A step that leaves the save to evaluate, what it depends on, and whoever is to serve it alone.
LEMMA DuesKept ==
  ASSUME Dues, UNCHANGED <<agent, suite, triggers, pc, seen, due>>, cases # {} => cases' # {}
  PROVE  Dues'
BY DEF Dues

\* The save that is to be evaluated stays accounted for.
LEMMA DuesStep == ASSUME EvalsInv, EvalsNext PROVE Dues'
<1>0. /\ EvalsShape /\ Dues /\ agent \in Nat /\ triggers \in Nat /\ due \in Nat
      /\ \A e \in Evals : Good(e) /\ seen[e] \in Nat /\ e \in Nat /\ e # 0
      /\ pc \in [Evals -> {"off", "begin", "load", "feed", "analyse"}]
           /\ seen \in [Evals -> 0..(MaxSaves + 1)]
  BY EvalsAssumption DEF EvalsInv, EvalsShape
<1>1. ASSUME NEW e \in Evals, CreateRun(e), UNCHANGED <<agent, suite, cases, seen, due>> PROVE Dues'
  <2>1. pc'[e] = "begin"
    BY <1>0, <1>1 DEF CreateRun
  <2> QED
    BY <1>0, <1>1, <2>1 DEF Dues
<1>2. ASSUME NEW e \in Evals, TriggerRun(e) PROVE Dues'
  BY <1>1, <1>2 DEF TriggerRun, evalHist
<1>3. CASE TriggerAutoRunsForAgent
  <2>1. CASE suite.there /\ suite.auto /\ cases # {}
    BY <1>1, <1>3, <2>1 DEF TriggerAutoRunsForAgent, evalHist
  <2>2. CASE ~(suite.there /\ suite.auto /\ cases # {})
    BY <1>0, <1>3, <2>2 DEF TriggerAutoRunsForAgent, evalHist, Dues
  <2> QED
    BY <2>1, <2>2
<1>4. CASE SaveAgent
  BY <1>0, <1>4 DEF SaveAgent, Dues, evalRows, goVars
<1>5. CASE UpdateSuite \/ DeleteSuite \/ EvalsCrash \/ \E e \in Evals : AgentNotLoaded(e)
  BY <1>5 DEF UpdateSuite, DeleteSuite, EvalsCrash, AgentNotLoaded, Dues
<1>6. ASSUME NEW e \in Evals, MarkRunning(e) PROVE Dues'
  <2>1. pc[e] = "begin" /\ pc'[e] = "load" /\ \A f \in Evals \ {e} : pc'[f] = pc[f]
    BY <1>0, <1>6 DEF MarkRunning, Goto
  <2>2. UNCHANGED <<agent, suite, cases, triggers, seen, due>>
    BY <1>6 DEF MarkRunning, evalHist
  <2> QED
    BY <1>0, <2>1, <2>2 DEF Dues
<1>7. ASSUME NEW e \in Evals, LoadAgent(e) PROVE Dues'
  <2>1. seen'[e] = agent + 1 /\ UNCHANGED <<agent, suite, cases, triggers, due>>
    BY <1>0, <1>7 DEF LoadAgent, evalRows
  <2> QED
    BY <1>0, <2>1 DEF Dues
<1>8. ASSUME NEW e \in Evals, CompleteRun(e) \/ DoAnalysis(e) PROVE Dues'
  <2>1. pc[e] \in {"feed", "analyse"} /\ (\A f \in Evals \ {e} : pc'[f] = pc[f])
          /\ UNCHANGED <<agent, suite, cases, triggers, seen, due>>
    BY <1>0, <1>8 DEF CompleteRun, DoAnalysis, Goto, evalHist
  <2> QED
    BY <1>0, <2>1 DEF Dues
<1>9. ASSUME NEW e \in Evals, StoreAnalysis(e) \/ AnalyzeRun(e) PROVE Dues'
  BY <1>0, <1>9, DuesKept DEF StoreAnalysis, AnalyzeRun, evalRows, goVars, evalHist
<1>10. ASSUME NEW e \in Evals, NEW c \in Cases, WorkerStep(e, c) PROVE Dues'
  BY <1>0, <1>10, DuesKept DEF WorkerStep, StartCase, ReturnFromRun, ReadRun, ReadFailure, ReadOutput, Grade,
       CreateResult, evalRows, evalHist
<1>11. ASSUME NEW e \in Evals, NEW c \in Cases, DecideRun(e, c) \/ CancelRun(e, c) PROVE Dues'
  BY <1>0, <1>11, DuesKept DEF DecideRun, CancelRun, evalRows, goVars, evalHist
<1>12. ASSUME NEW c \in Cases, CreateCase(c) \/ SaveCase(c) PROVE Dues'
  BY <1>0, <1>12, DuesKept DEF CreateCase, SaveCase, InsertCase, goVars, evalHist
<1>13. ASSUME NEW c \in Cases, DeleteCase(c) PROVE Dues'
  BY <1>0, <1>13 DEF DeleteCase, goVars, Dues
<1>14. CASE ImportCases \/ GenerateCases \/ EndBatch
  BY <1>0, <1>14, DuesKept DEF ImportCases, GenerateCases, BeginBatch, EndBatch, evalRows, goVars, evalHist
<1> QED
  BY <1>2, <1>3, <1>4, <1>5, <1>6, <1>7, <1>8, <1>9, <1>10, <1>11, <1>12, <1>13, <1>14
     DEF EvalsNext, EvalStep, Users, Trouble

-----------------------------------------------------------------------------
\* To begin with, no evaluation has been created since the process started.
LEMMA InitGood == EvalsInit => EvalsInv
<1> SUFFICES ASSUME EvalsInit PROVE EvalsInv
  OBVIOUS
<1>1. PICK s \in Starts : cases = s.cases /\ used = s.used /\ agent = s.agent /\ acts = s.acts
  BY DEF EvalsInit
<1>2. s \in [cases : SUBSET Cases, used : Evals \cup {0}, agent : 0..MaxSaves, acts : 0..MaxActs]
  BY EvalsAssumption
<1>3. cases \subseteq Cases /\ used \in Evals \cup {0} /\ agent \in 0..MaxSaves /\ acts \in 0..MaxActs
  BY <1>1, <1>2
<1>4. EvalsShape
  <2>1. /\ triggers \in 0..agent /\ due \in 0..agent /\ batch \in 0..Cardinality(Cases)
        /\ suite \in [there : BOOLEAN, auto : BOOLEAN] /\ suite.there
    BY <1>3, CaseSets, EvalsAssumption DEF EvalsInit
  <2>2. /\ row \in [Evals -> EvalRow] /\ count \in [Evals -> CountRow]
    BY DEF EvalsInit, NoEval, EvalRow, Zero, CountRow
  <2>3. /\ result \in [Evals -> [Cases -> Grades \cup {"none"}]] /\ run \in [Evals -> [Cases -> RunStatus]]
        /\ worker \in [Evals -> [Cases -> WorkerRow]]
    BY DEF EvalsInit, ForCases, Unstarted, WorkerRow, RunStatus
  <2>4. seen \in [Evals -> 0..(MaxSaves + 1)]
    BY EvalsAssumption DEF EvalsInit
  <2> QED
    BY <1>3, <2>1, <2>2, <2>3, <2>4 DEF EvalsInit, EvalsShape
<1>5. Dues
  BY DEF EvalsInit, Dues
<1>6. ASSUME NEW e \in Evals PROVE Good(e)
  <2>1. /\ pc[e] = "off" /\ row[e] = NoEval /\ analysis[e] = {} /\ request[e] = {} /\ todo[e] = {}
             /\ count[e] = Zero
        /\ result[e] = ForCases("none") /\ run[e] = ForCases("none") /\ failures[e] = {}
             /\ worker[e] = ForCases(Unstarted)
    BY DEF EvalsInit
  <2> QED
    BY <2>1 DEF Good, Phase, Begun, Covered, Completed, Unused, NoEval
<1> QED
  BY <1>4, <1>5, <1>6 DEF EvalsInv

\* Every step keeps the invariant.
LEMMA EvalsStepKeeps == ASSUME EvalsInv, EvalsNext PROVE EvalsInv'
<1>1. Dues'
  BY DuesStep
<1>2. ASSUME NEW e \in Evals, TriggerRun(e) PROVE EvalsShape' /\ \A f \in Evals : Good(f)'
  BY <1>2, ShapeOfStarts, GoodAtCreate DEF TriggerRun
<1>3. ASSUME TriggerAutoRunsForAgent PROVE EvalsShape' /\ \A f \in Evals : Good(f)'
  <2>1. EvalsShape'
    BY <1>3, ShapeOfStarts
  <2>2. ASSUME NEW e \in Evals, CreateRun(e) PROVE \A f \in Evals : Good(f)'
    BY <1>3, <2>2, GoodAtCreate DEF TriggerAutoRunsForAgent
  <2>3. ASSUME UNCHANGED <<used, row, pc, todo>>, NEW f \in Evals PROVE Good(f)'
    <3>1. used \in Nat
      BY EvalsAssumption DEF EvalsInv, EvalsShape
    <3>2. Same(f) /\ cases' = cases /\ used' = used
      BY <1>3, <2>3 DEF TriggerAutoRunsForAgent, Same
    <3> QED
      BY <3>1, <3>2, Frame
  <2> QED
    BY <1>3, <2>1, <2>2, <2>3 DEF TriggerAutoRunsForAgent
<1>4. ASSUME NEW e \in Evals, MarkRunning(e) PROVE EvalsShape' /\ \A f \in Evals : Good(f)'
  BY <1>4, ShapeOfStarts, GoodAtMark
<1>5. ASSUME NEW e \in Evals, LoadAgent(e) PROVE EvalsShape' /\ \A f \in Evals : Good(f)'
  BY <1>5, ShapeOfStarts, GoodAtLoad
<1>6. ASSUME NEW e \in Evals, AgentNotLoaded(e) PROVE EvalsShape' /\ \A f \in Evals : Good(f)'
  BY <1>6, ShapeOfStarts, GoodWithoutAgent
<1>7. ASSUME SaveAgent
      PROVE EvalsShape' /\ \A f \in Evals : Good(f)'
  BY <1>7, ShapeOfStarts, GoodOtherwise
<1>8. ASSUME NEW e \in Evals, CompleteRun(e) PROVE EvalsShape' /\ \A f \in Evals : Good(f)'
  BY <1>8, ShapeOfEnds, GoodAtComplete
<1>9. ASSUME NEW e \in Evals, DoAnalysis(e) \/ StoreAnalysis(e) \/ AnalyzeRun(e)
      PROVE EvalsShape' /\ \A f \in Evals : Good(f)'
  BY <1>9, ShapeOfEnds, GoodAtAnalysis
<1>10. ASSUME NEW e \in Evals, NEW c \in Cases, WorkerStep(e, c) PROVE EvalsShape'
         /\ \A f \in Evals : Good(f)'
  <2>1. EvalsShape'
    BY <1>10, ShapeOfWorkers
  <2> QED
    BY <1>10, <2>1, GoodAtStart, GoodAtMove, GoodAtScore, GoodAtResult DEF WorkerStep, ReadRun
<1>11. ASSUME UpdateSuite \/ ImportCases \/ GenerateCases \/ EndBatch \/ \E c \in Cases : CreateCase(c)
         \/ SaveCase(c)
      PROVE EvalsShape' /\ \A f \in Evals : Good(f)'
  <2>1. EvalsShape'
    BY <1>11, ShapeOfUsers
  <2> QED
    BY <1>11, <2>1, GoodOtherwise
<1>12. ASSUME DeleteSuite \/ \E c \in Cases : DeleteCase(c)
      PROVE EvalsShape' /\ \A f \in Evals : Good(f)'
  <2>1. EvalsShape'
    BY <1>12, ShapeOfUsers
  <2> QED
    BY <1>12, <2>1, GoodAtDelete
<1>13. ASSUME EvalsCrash
      PROVE EvalsShape' /\ \A f \in Evals : Good(f)'
  BY <1>13, ShapeOfUsers, GoodAtCrash
<1>14. ASSUME NEW e \in Evals, NEW c \in Cases, DecideRun(e, c) \/ CancelRun(e, c)
       PROVE EvalsShape' /\ \A f \in Evals : Good(f)'
  BY <1>14, ShapeOfUsers, GoodAtDecision
<1>15. EvalsShape' /\ \A f \in Evals : Good(f)'
  BY <1>2, <1>3, <1>4, <1>5, <1>6, <1>7, <1>8, <1>9, <1>10, <1>11, <1>12, <1>13, <1>14
     DEF EvalsNext, EvalStep, Users, Trouble
<1> QED
  BY <1>1, <1>15 DEF EvalsInv

\* The invariant of the evaluations.
THEOREM EvalsInvariant == EvalsSpec => []EvalsInv
<1>1. EvalsInv /\ UNCHANGED evalsVars => EvalsInv'
  <2> SUFFICES ASSUME EvalsInv, UNCHANGED evalsVars PROVE EvalsInv'
    OBVIOUS
  <2>1. \A e \in Evals : Same(e)
    BY DEF evalsVars, evalRows, goVars, Same
  <2>2. used \in Nat /\ used' = used /\ cases' = cases
    BY EvalsAssumption DEF EvalsInv, EvalsShape, evalsVars, evalRows
  <2>3. \A e \in Evals : Good(e)'
    BY <2>1, <2>2, Frame
  <2>4. EvalsShape'
    BY DEF EvalsInv, EvalsShape, evalsVars, evalRows, goVars, evalHist
  <2>5. Dues'
    BY DEF EvalsInv, Dues, evalsVars, evalRows, goVars, evalHist
  <2> QED
    BY <2>3, <2>4, <2>5 DEF EvalsInv
<1> QED
  BY <1>1, InitGood, EvalsStepKeeps, PTL DEF EvalsSpec

\* No counter exceeds the cases of an evaluation, and no more workers run at a time than there
\* are slots (the semaphore and the lock of executeEvalRun).
THEOREM EvalsTypeCorrect == EvalsSpec => []EvalsTypeOK
<1>1. ASSUME EvalsInv, NEW e \in Evals
      PROVE  /\ count[e].passed + count[e].failed <= Cardinality(Cases)
             /\ count[e].errors <= count[e].failed
             /\ Cardinality(Busy(e)) <= MaxConcurrency
  <2>0. /\ Phase(e) /\ Busy(e) \in SUBSET Cases /\ Cardinality(Cases) \in Nat /\ MaxConcurrency \in Nat
        /\ \A G : Graded(e, G) \in SUBSET Cases
    BY <1>1, EvalShape, CaseSets, EvalsAssumption DEF EvalsInv, Good
  <2>1. CASE pc[e] # "feed"
    <3>1. Busy(e) = {} /\ count[e] = Zero
      BY <2>0, <2>1, NoneStarted DEF Phase
    <3> QED
      BY <2>0, <3>1, CaseSets DEF Zero
  <2>2. CASE pc[e] = "feed"
    <3>1. Feeding(e)
      BY <2>0, <2>2 DEF Phase
    <3>2. Graded(e, Pass) \cap Graded(e, Fail) = {} /\ Graded(e, Err) \subseteq Graded(e, Fail)
          /\ Graded(e, Pass) \cup Graded(e, Fail) \in SUBSET Cases
      BY DEF Graded, Pass, Fail, Err
    <3>3. Cardinality(Graded(e, Pass)) + Cardinality(Graded(e, Fail)) <= Cardinality(Cases)
      <4>1. Cardinality(Graded(e, Pass) \cup Graded(e, Fail))
            = Cardinality(Graded(e, Pass)) + Cardinality(Graded(e, Fail))
        BY <2>0, <3>2, CaseSets
      <4>2. Cardinality(Graded(e, Pass) \cup Graded(e, Fail)) <= Cardinality(Cases)
        BY <3>2, CaseSets
      <4> QED
        BY <4>1, <4>2
    <3>4. Cardinality(Graded(e, Err)) <= Cardinality(Graded(e, Fail))
      BY <2>0, <3>2, CaseSets
    <3> QED
      BY <3>1, <3>3, <3>4 DEF Feeding, Counted
  <2> QED
    BY <2>1, <2>2
<1>2. EvalsInv => EvalsTypeOK
  <2> SUFFICES ASSUME EvalsInv PROVE EvalsTypeOK
    OBVIOUS
  <2>1. triggers \in 0..MaxSaves /\ MaxSaves \in Nat
    BY EvalsAssumption DEF EvalsInv, EvalsShape
  <2> QED
    BY <1>1, <2>1 DEF EvalsInv, EvalsShape, EvalsTypeOK, EvalRow, WorkerRow, RunStatus
<1> QED
  BY <1>2, EvalsInvariant, PTL

\* A completed evaluation accounts for every case, and an analysis for every failure, whoever
\* stores it last (wg.Wait in executeEvalRun; AnalyzeRun).
THEOREM ResultsAccounted == EvalsSpec => []ResultsAddUp
<1>1. EvalsInv => ResultsAddUp
  BY DEF EvalsInv, Good, Covered, Completed, ResultsAddUp, CompletedIsComplete, AnalysisCoversFailures
<1> QED
  BY <1>1, EvalsInvariant, PTL

\* The last save of the agent is evaluated, whatever triggers and evaluations overlap
\* (TriggerAutoRunsForAgent).
THEOREM LatestEvaluated == EvalsSpec => []LatestIsEvaluated
<1>1. EvalsInv => LatestIsEvaluated
  BY DEF EvalsInv, EvalsShape, Dues, LatestIsEvaluated
<1> QED
  BY <1>1, EvalsInvariant, PTL
=============================================================================
