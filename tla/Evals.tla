------------------------------- MODULE Evals -------------------------------
(* Evaluations: a suite of cases for one agent, run on demand or after a save  *)
(* of the agent.  Every evaluation has a goroutine that starts one worker per  *)
(* case, a bounded number at a time; a worker executes the agent, grades the   *)
(* answer, adds to counters shared under a lock, and stores a result.  Source: *)
(* handler/evals.go, repository/eval_repository.go.  What a case asks, an       *)
(* answer says and a judge replies is content.                                 *)
EXTENDS Integers, Sequences, FiniteSets, FiniteSetsExt

CONSTANTS
  Cases,            \* test cases, numbered in the order of their creation
  Evals,            \* evaluations ("eval runs"), numbered in the order of their creation
  MaxConcurrency,   \* workers of one evaluation at a time (5 in the code)
  Starts,           \* to begin with: [cases, used, agent, acts]
  MaxSaves,         \* bound: saves of the agent
  MaxActs           \* bound: edits, decisions on runs, failing statements, crashes

ASSUME EvalsAssumption ==
  /\ IsFiniteSet(Cases) /\ Cases \subseteq Nat /\ Evals \subseteq Nat \ {0}
  /\ MaxConcurrency \in Nat \ {0} /\ MaxSaves \in Nat /\ MaxActs \in Nat
  /\ Starts \subseteq [cases : SUBSET Cases, used : Evals \cup {0}, agent : 0..MaxSaves,
                      acts : 0..MaxActs]

VARIABLES
  agent,      \* how often the agent has been saved
  suite,      \* [there, auto]: the suite's row, its auto_run flag
  cases,      \* rows of eval_cases
  row,        \* rows of eval_runs; status "none": no such row
  analysis,   \* eval_runs.analysis: the cases it is about; {} when there is none
  result,     \* rows of eval_results: the grade of a case, or "none"
  run,        \* runs.status of the agent run of a case
  triggers,   \* goroutines of TriggerAutoRunsForAgent that are still to look
  used,       \* the last evaluation created
  pc, todo,   \* each evaluation's goroutine, and the cases it has still to start
  count,      \* its counters, under its lock
  failures,   \* its failedResults
  worker,     \* each worker: where it stands, the grade it has given
  batch,      \* cases a generation or an import may still add
  request,    \* AnalyzeRun requests: the failed results they have read
  seen,       \* history: the save of the agent an evaluation has loaded
  due,        \* history: the save an auto-run suite has to evaluate, 0 for none
  graded,     \* history: run status of a case when its answer was graded
  lost,       \* history: evaluations whose goroutine a crash has ended
  acts

evalRows == <<suite, cases, row, analysis, result>>
goVars == <<pc, todo, count, failures, worker>>
evalHist == <<seen, due, graded, lost>>
evalsVars == <<agent, used, evalRows, run, triggers, goVars, batch, request, evalHist, acts>>

NoEval == [status |-> "none", total |-> 0, passed |-> 0, failed |-> 0, errors |-> 0]
Zero == [passed |-> 0, failed |-> 0, errors |-> 0]
Grades == {"passed", "failed", "error"}
Unstarted == [at |-> "off", grade |-> "none"]
ForCases(x) == [c \in Cases |-> x]

EvalsInit ==
  /\ suite = [there |-> TRUE, auto |-> TRUE]
  /\ \E s \in Starts : cases = s.cases /\ used = s.used /\ agent = s.agent /\ acts = s.acts
  /\ row = [e \in Evals |-> NoEval] /\ analysis = [e \in Evals |-> {}]
  /\ result = [e \in Evals |-> ForCases("none")] /\ run = [e \in Evals |-> ForCases("none")]
  /\ triggers = 0 /\ pc = [e \in Evals |-> "off"] /\ todo = [e \in Evals |-> {}]
  /\ count = [e \in Evals |-> Zero] /\ failures = [e \in Evals |-> {}]
  /\ worker = [e \in Evals |-> ForCases(Unstarted)] /\ request = [e \in Evals |-> {}]
  /\ seen = [e \in Evals |-> 0] /\ due = 0 /\ graded = [e \in Evals |-> ForCases("none")]
  /\ lost = {} /\ batch = 0

Act == acts < MaxActs /\ acts' = acts + 1
Goto(e, from, to) == pc[e] = from /\ pc' = [pc EXCEPT ![e] = to]
Busy(e) == {c \in Cases : worker[e][c].at \notin {"off", "done"}}
Work(e, c, from, to) ==   \* the worker of c moves on
  worker[e][c].at = from /\ worker' = [worker EXCEPT ![e][c].at = to]
Failed(e) == {c \in Cases : result[e][c] \in {"failed", "error"}}

(* ------------------------- Faulty variants ------------------------------- *)
(* Plausible bugs, each a variant of one definition below.                     *)

\* the worker's slot is released before its result is stored, and the goroutine
\* waits for free slots instead of for the workers
AllDone(e) == \A c \in Cases : worker[e][c].at \in {"off", "done", "record"}

\* a save does not start an evaluation while one is going on
TriggerUnlessBusy ==
  /\ triggers > 0 /\ triggers' = triggers - 1
  /\ suite.there /\ suite.auto /\ cases # {}
  /\ \E e \in Evals : row[e].status \in {"pending", "running"}
  /\ UNCHANGED <<agent, batch, used, evalRows, run, goVars, request, evalHist, acts>>

\* a worker whose run failed returns without giving its slot back
HangOnError(e, c) ==
  /\ worker[e][c].at = "read"
  /\ run[e][c] # "failed"
  /\ worker' = [worker EXCEPT ![e][c].at = "grade"]
  /\ graded' = [graded EXCEPT ![e][c] = run[e][c]]
  /\ UNCHANGED <<agent, batch, used, evalRows, run, triggers, pc, todo, count, failures, request, seen, due,
                 lost, acts>>

(* ------------------------ Starting an evaluation ------------------------- *)

\* An evaluation of the suite as it is listed now.
CreateRun(e) ==
  /\ used < e /\ \A f \in Evals : used < f => e <= f   \* a new id
  /\ used' = e
  /\ suite.there /\ cases # {}
  /\ row' = [row EXCEPT ![e] = [NoEval EXCEPT !.status = "pending", !.total = Cardinality(cases)]]
  /\ pc' = [pc EXCEPT ![e] = "begin"]
  /\ todo' = [todo EXCEPT ![e] = cases]

TriggerRun(e) ==
  /\ CreateRun(e)
  /\ UNCHANGED <<agent, batch, suite, cases, analysis, result, run, triggers, count, failures, worker,
                 request, evalHist, acts>>

\* Saving the agent starts a goroutine that looks for auto-run suites.
SaveAgent ==
  /\ agent < MaxSaves
  /\ agent' = agent + 1
  /\ triggers' = triggers + 1
  /\ due' = IF suite.there /\ suite.auto /\ cases # {} THEN agent + 1 ELSE 0
  /\ UNCHANGED <<batch, used, evalRows, run, goVars, request, seen, graded, lost, acts>>

TriggerAutoRunsForAgent ==
  /\ triggers > 0 /\ triggers' = triggers - 1
  /\ IF suite.there /\ suite.auto /\ cases # {}
     THEN \E e \in Evals : CreateRun(e)
     ELSE UNCHANGED <<used, row, pc, todo>>
  /\ UNCHANGED <<agent, batch, suite, cases, analysis, result, run, count, failures, worker, request,
                 evalHist, acts>>

(* --------------------------- The evaluation ------------------------------ *)

SetStatus(e, s) == row' = IF row[e].status = "none" THEN row ELSE [row EXCEPT ![e].status = s]

MarkRunning(e) ==
  /\ Goto(e, "begin", "load")
  /\ SetStatus(e, "running")
  /\ UNCHANGED <<agent, batch, used, suite, cases, analysis, result, run, triggers, todo, count, failures,
                 worker, request, evalHist, acts>>

LoadAgent(e) ==
  /\ Goto(e, "load", "feed")
  /\ seen' = [seen EXCEPT ![e] = agent + 1]   \* 0 stands for not yet
  /\ UNCHANGED <<agent, batch, used, evalRows, run, triggers, todo, count, failures, worker, request, due,
                 graded, lost, acts>>

AgentNotLoaded(e) ==
  /\ Act /\ Goto(e, "load", "off")
  /\ SetStatus(e, "failed")
  /\ due' = 0 /\ todo' = [todo EXCEPT ![e] = {}]
  /\ UNCHANGED <<agent, batch, used, seen, suite, cases, analysis, result, run, triggers, count, failures,
                 worker, request, graded, lost>>

AllWorkersDone(e) == Busy(e) = {}

CompleteRun(e) ==
  /\ pc[e] = "feed" /\ todo[e] = {} /\ AllWorkersDone(e)
  /\ row' = IF row[e].status = "none" THEN row
            ELSE [row EXCEPT ![e] = [status |-> "completed", total |-> @.total, passed |-> count[e].passed,
                                       failed |-> count[e].failed, errors |-> count[e].errors]]
  /\ pc' = [pc EXCEPT ![e] = IF failures[e] = {} THEN "off" ELSE "analyse"]
  /\ worker' = [worker EXCEPT ![e] = ForCases(Unstarted)] /\ count' = [count EXCEPT ![e] = Zero]
  /\ UNCHANGED <<agent, batch, used, suite, cases, analysis, result, run, triggers, todo, failures,
                 request, evalHist, acts>>

(* ---------------------- A worker: one case ------------------------------- *)

Score(e, c, grade) ==
  /\ count' = [count EXCEPT ![e] = [passed |-> @.passed + (IF grade = "passed" THEN 1 ELSE 0),
                                    failed |-> @.failed + (IF grade = "passed" THEN 0 ELSE 1),
                                    errors |-> @.errors + (IF grade = "error" THEN 1 ELSE 0)]]
  /\ failures' = [failures EXCEPT ![e] = IF grade = "passed" THEN @ ELSE @ \cup {c}]
  /\ worker' = [worker EXCEPT ![e][c] = [at |-> "record", grade |-> grade]]

\* The conversation and the run are created; the run is executed in this goroutine.
RunAgentSync(e, c) ==
  /\ Work(e, c, "off", "run")
  /\ run' = [run EXCEPT ![e][c] = "running"]
  /\ UNCHANGED <<count, failures, acts>>

RunNotCreated(e, c) == Act /\ Score(e, c, "error") /\ UNCHANGED run

\* Faulty variant: the worker takes its slot itself, once it has been started.
StartUnlimited(e, c) ==
  /\ pc[e] = "feed" /\ todo[e] # {} /\ c = Min(todo[e])
  /\ todo' = [todo EXCEPT ![e] = @ \ {c}]
  /\ RunAgentSync(e, c)
  /\ UNCHANGED <<agent, batch, used, evalRows, triggers, pc, request, evalHist>>

\* The loop blocks until one of the slots is free.
StartCase(e, c) ==
  /\ pc[e] = "feed" /\ todo[e] # {} /\ c = Min(todo[e]) /\ Cardinality(Busy(e)) < MaxConcurrency
  /\ todo' = [todo EXCEPT ![e] = @ \ {c}]
  /\ \/ RunAgentSync(e, c)
     \/ RunNotCreated(e, c)
  /\ UNCHANGED <<agent, batch, used, evalRows, triggers, pc, request, evalHist>>

\* executeRun returns: the run has ended, was cancelled, or waits for an approval.
ReturnFromRun(e, c) ==
  /\ Work(e, c, "run", "read")
  /\ \E s \in {"success", "failed", "approval_wait"} :
       run' = [run EXCEPT ![e][c] = IF @ = "cancelled" THEN @ ELSE s]
  /\ UNCHANGED <<agent, batch, used, evalRows, triggers, pc, todo, count, failures, request, evalHist, acts>>

ReadFailure(e, c) ==
  /\ worker[e][c].at = "read" /\ run[e][c] = "failed"
  /\ Score(e, c, "error")
  /\ UNCHANGED <<agent, batch, used, evalRows, run, triggers, pc, todo, request, evalHist, acts>>

ReadOutput(e, c) ==
  /\ worker[e][c].at = "read" /\ run[e][c] # "failed"
  /\ worker' = [worker EXCEPT ![e][c].at = "grade"]
  /\ graded' = [graded EXCEPT ![e][c] = run[e][c]]
  /\ UNCHANGED <<agent, batch, used, evalRows, run, triggers, pc, todo, count, failures, request, seen, due,
                 lost, acts>>

ReadRun(e, c) == ReadFailure(e, c) \/ ReadOutput(e, c)

\* By comparison or by a judge, outside the lock.
Grade(e, c) ==
  /\ worker[e][c].at = "grade"
  /\ \E grade \in {"passed", "failed"} : Score(e, c, grade)
  /\ UNCHANGED <<agent, batch, used, evalRows, run, triggers, pc, todo, request, evalHist, acts>>

\* A result whose case has been deleted in the meantime is not stored.
CreateResult(e, c) ==
  /\ Work(e, c, "record", "done")
  /\ result' = IF row[e].status # "none" /\ c \in cases
               THEN [result EXCEPT ![e][c] = worker[e][c].grade] ELSE result
  /\ UNCHANGED <<agent, batch, used, suite, cases, row, analysis, run, triggers, pc, todo, count, failures,
                 request, evalHist, acts>>

(* ------------------------------ Analysis --------------------------------- *)

Store(e, about) ==   \* the model may fail, the row may be gone
  \/ UNCHANGED analysis
  \/ /\ row[e].status # "none"
     /\ analysis' = [analysis EXCEPT ![e] = about]

DoAnalysis(e) ==
  /\ Goto(e, "analyse", "off")
  /\ Store(e, failures[e])
  /\ failures' = [failures EXCEPT ![e] = {}]
  /\ UNCHANGED <<agent, batch, used, suite, cases, row, result, run, triggers, todo, count, worker,
                 request, evalHist, acts>>

FailedResults(e) == Failed(e)

\* The page asks for a completed evaluation with failures that has no analysis.
AnalyzeRun(e) ==
  /\ row[e].status = "completed" /\ row[e].failed > 0 /\ analysis[e] = {} /\ request[e] = {}
  /\ request' = [request EXCEPT ![e] = FailedResults(e)]
  /\ UNCHANGED <<agent, batch, used, evalRows, run, triggers, goVars, evalHist, acts>>

StoreAnalysis(e) ==
  /\ request[e] # {} /\ request' = [request EXCEPT ![e] = {}]
  /\ Store(e, request[e])
  /\ UNCHANGED <<agent, batch, used, suite, cases, row, result, run, triggers, goVars, evalHist, acts>>

(* ------------------ Users, approvers, crashes ---------------------------- *)

InsertCase(c) ==
  /\ suite.there /\ c \notin cases
  /\ \A e \in Evals : c \notin todo[e] /\ worker[e][c] = Unstarted /\ run[e][c] = "none"  \* a new id
  /\ cases' = cases \cup {c}
  /\ UNCHANGED <<agent, used, suite, row, analysis, result, run, triggers, goVars, request, evalHist>>

CreateCase(c) == Act /\ InsertCase(c) /\ UNCHANGED batch

\* A file of cases, or a model that is asked for them, several times over: every case is
\* stored by a statement of its own, and either may stop short.
BeginBatch(n) ==
  /\ Act /\ suite.there /\ batch = 0 /\ batch' = n
  /\ UNCHANGED <<agent, used, evalRows, run, triggers, goVars, request, evalHist>>
ImportCases == \E n \in 1..Cardinality(Cases) : BeginBatch(n)
GenerateCases == \E n \in 1..Cardinality(Cases) : BeginBatch(n)

SaveCase(c) == batch > 0 /\ InsertCase(c) /\ batch' = batch - 1 /\ UNCHANGED acts
EndBatch ==
  /\ batch > 0 /\ batch' = 0
  /\ UNCHANGED <<agent, used, evalRows, run, triggers, goVars, request, evalHist, acts>>

DeleteCase(c) ==
  /\ Act /\ c \in cases
  /\ cases' = cases \ {c}
  /\ result' = [e \in Evals |-> [result[e] EXCEPT ![c] = "none"]]
  /\ due' = IF cases = {c} THEN 0 ELSE due
  /\ UNCHANGED <<agent, batch, used, suite, row, analysis, run, triggers, goVars, request, seen, graded, lost>>

UpdateSuite ==
  /\ Act /\ suite.there
  /\ suite' = [suite EXCEPT !.auto = ~@]
  /\ due' = 0
  /\ UNCHANGED <<agent, batch, used, cases, row, analysis, result, run, triggers, goVars, request, seen,
                 graded, lost>>

DeleteSuite ==
  /\ Act /\ suite.there
  /\ suite' = [there |-> FALSE, auto |-> FALSE] /\ cases' = {}
  /\ row' = [e \in Evals |-> NoEval] /\ analysis' = [e \in Evals |-> {}]
  /\ result' = [e \in Evals |-> ForCases("none")] /\ due' = 0
  /\ UNCHANGED <<agent, batch, used, run, triggers, goVars, request, seen, graded, lost>>

\* Somebody decides on a run that parked: it goes on in a goroutine of its own.
DecideRun(e, c) ==
  /\ run[e][c] = "approval_wait" /\ Act
  /\ \E s \in {"success", "failed"} : run' = [run EXCEPT ![e][c] = s]
  /\ UNCHANGED <<agent, batch, used, evalRows, triggers, goVars, request, evalHist>>

CancelRun(e, c) ==
  /\ run[e][c] \in {"running", "approval_wait"} /\ Act
  /\ run' = [run EXCEPT ![e][c] = "cancelled"]
  /\ UNCHANGED <<agent, batch, used, evalRows, triggers, goVars, request, evalHist>>

\* Nothing takes up the evaluations of a process that died.
EvalsCrash ==
  /\ Act
  /\ lost' = lost \cup {e \in Evals : pc[e] # "off"}
  /\ pc' = [e \in Evals |-> "off"] /\ todo' = [e \in Evals |-> {}]
  /\ count' = [e \in Evals |-> Zero] /\ failures' = [e \in Evals |-> {}]
  /\ worker' = [e \in Evals |-> ForCases(Unstarted)] /\ request' = [e \in Evals |-> {}]
  /\ triggers' = 0 /\ due' = 0 /\ batch' = 0
  /\ run' = [e \in Evals |-> [c \in Cases |-> IF run[e][c] = "running" THEN "failed" ELSE run[e][c]]]
  /\ UNCHANGED <<agent, used, evalRows, seen, graded>>

WorkerStep(e, c) ==
  \/ StartCase(e, c) \/ ReturnFromRun(e, c) \/ ReadRun(e, c)
  \/ Grade(e, c) \/ CreateResult(e, c)

EvalStep(e) ==
  \/ MarkRunning(e) \/ LoadAgent(e) \/ CompleteRun(e) \/ DoAnalysis(e) \/ StoreAnalysis(e)
  \/ \E c \in Cases : WorkerStep(e, c)

Users ==
  \/ SaveAgent \/ UpdateSuite \/ DeleteSuite \/ ImportCases \/ GenerateCases \/ EndBatch
  \/ \E c \in Cases : CreateCase(c) \/ SaveCase(c) \/ DeleteCase(c)
  \/ \E e \in Evals : TriggerRun(e) \/ AnalyzeRun(e)
                      \/ \E c \in Cases : DecideRun(e, c) \/ CancelRun(e, c)

Trouble == EvalsCrash \/ \E e \in Evals : AgentNotLoaded(e)

EvalsNext == TriggerAutoRunsForAgent \/ (\E e \in Evals : EvalStep(e)) \/ Users \/ Trouble

EvalsSpec == EvalsInit /\ [][EvalsNext]_evalsVars

(* Goroutines run, statements return, and so do the model's and the agent's    *)
(* runs (LoopsFinish of RunLifecycle).  Nobody has to save, decide or analyse.  *)
Advance(e) == MarkRunning(e) \/ LoadAgent(e) \/ CompleteRun(e) \/ \E c \in Cases : WorkerStep(e, c)
EvalsFairness == WF_evalsVars(\E e \in Evals : Advance(e))

(* ----------------------------- Properties -------------------------------- *)

\* Every variable keeps its shape, and no counter exceeds the evaluation's cases.
EvalsTypeOK ==
  /\ agent \in 0..MaxSaves /\ triggers \in 0..MaxSaves /\ due \in 0..agent
  /\ batch \in 0..Cardinality(Cases)
  /\ suite \in [there : BOOLEAN, auto : BOOLEAN] /\ cases \subseteq Cases
  /\ row \in [Evals -> [status : {"none", "pending", "running", "completed", "failed"},
                        total : Nat, passed : Nat, failed : Nat, errors : Nat]]
  /\ analysis \in [Evals -> SUBSET Cases] /\ request \in [Evals -> SUBSET Cases]
  /\ result \in [Evals -> [Cases -> Grades \cup {"none"}]]
  /\ run \in [Evals -> [Cases -> {"none", "running", "approval_wait", "success", "failed",
                                  "cancelled"}]]
  /\ pc \in [Evals -> {"off", "begin", "load", "feed", "analyse"}]
  /\ todo \in [Evals -> SUBSET Cases] /\ failures \in [Evals -> SUBSET Cases]
  /\ worker \in [Evals -> [Cases -> [at : {"off", "run", "read", "grade", "record", "done"},
                                     grade : Grades \cup {"none"}]]]
  /\ \A e \in Evals : /\ count[e].passed + count[e].failed <= Cardinality(Cases)
                       /\ count[e].errors <= count[e].failed
                       /\ Cardinality(Busy(e)) <= MaxConcurrency
  /\ seen \in [Evals -> 0..(MaxSaves + 1)] /\ lost \subseteq Evals /\ used \in Evals \cup {0}
  /\ acts \in 0..MaxActs

\* A completed evaluation accounts for every case it listed: its counters add up, every
\* case that is still there and was run has its result, and there are no more results
\* of a kind than the counters say (wg.Wait in executeEvalRun).
CompletedIsComplete ==
  \A e \in Evals : row[e].status = "completed" =>
    /\ row[e].passed + row[e].failed = row[e].total /\ row[e].errors <= row[e].failed
    /\ \A c \in cases : run[e][c] # "none" => result[e][c] # "none"
    /\ Cardinality({c \in Cases : result[e][c] = "passed"}) <= row[e].passed
    /\ Cardinality(Failed(e)) <= row[e].failed

\* Whoever stores the analysis last, the goroutine or a request of the page: it is about
\* every failed result there still is (executeEvalRun and AnalyzeRun race).
AnalysisCoversFailures ==
  \A e \in Evals : analysis[e] # {} => Failed(e) \subseteq analysis[e]

\* What the page shows of an evaluation accounts for its results: counters and analysis.
ResultsAddUp == CompletedIsComplete /\ AnalysisCoversFailures

\* Once the triggers have been served, some evaluation has loaded the agent as it was
\* saved last, provided the suite was to be run at that save and nobody has changed
\* it since (TriggerAutoRunsForAgent: "triggered by a save").
LatestIsEvaluated ==
  due # 0 /\ triggers = 0 /\ (\A e \in Evals : pc[e] \notin {"begin", "load"})
    => \E e \in Evals : seen[e] = due + 1

\* Every evaluation ends, unless the process died under it.
EvalsEnd == []<>(\A e \in Evals \ lost : row[e].status \notin {"pending", "running"})

============================================================================
