----------------------------- MODULE SessionWork -----------------------------
(* What a session of the runner does with git: a coding session clones the base *)
(* branch, lets Claude work, and pushes what there is of the ticket's branch,    *)
(* however Claude has ended; a review session reads the branch.  Their launches, *)
(* callbacks and crashes are in module RunnerSessions.                           *)
(* Source: runner/main.go.  Claude and GitHub are external.                      *)
EXTENDS Naturals, FiniteSets

CONSTANTS
  Coders, Reviewers,  \* sessions of one ticket in one repository
  WorkLoads,          \* bound: the sessions of a behaviour
  MaxChanges,         \* bound: changes that Claude makes in a session
  MaxGitFaults        \* bound: git commands that fail, and crashes of the runner

WorkSessions == Coders \cup Reviewers
ASSUME WorkAssumption ==
  /\ Coders \cap Reviewers = {} /\ WorkSessions \subseteq Nat \ {0} /\ WorkLoads \subseteq SUBSET WorkSessions
  /\ MaxChanges \in Nat /\ MaxGitFaults \in Nat

VARIABLES
  work,      \* a session: where it is, its clone, how Claude ended, its result
  remote,    \* the branch nexus/<ticket> on GitHub: whose it is, and how many changes it has
  landed,    \* history: how many changes of a session its last push has brought there
  gitFaults,
  unlucky    \* history: the sessions that a failed command or a crash has hit

workVars == <<work, remote, landed, gitFaults, unlucky>>

Nowhere == [by |-> 0, has |-> 0]
\* made, done: changes, and those committed to the branch; away: on a branch of its own;
\* token: origin has the credential.
NewWork == [at |-> "idle", made |-> 0, done |-> 0, away |-> FALSE, token |-> FALSE, pushed |-> FALSE,
            end |-> "none", status |-> "none", named |-> FALSE]
SessionWorkInit ==
  /\ \E L \in WorkLoads : work = [s \in WorkSessions |-> [NewWork EXCEPT !.at = IF s \in L THEN "idle" ELSE "over"]]
  /\ remote = Nowhere /\ landed = [s \in WorkSessions |-> 0]
  /\ gitFaults = 0 /\ unlucky = {}

Is(s, at) == work[s].at = at
Set(s, w) == work' = [work EXCEPT ![s] = w]
To(s, at) == work' = [work EXCEPT ![s].at = at]
Fails(s) == gitFaults < MaxGitFaults /\ gitFaults' = gitFaults + 1 /\ unlucky' = unlucky \cup {s}
Lucky == UNCHANGED <<gitFaults, unlucky>>
Sibling(s) == IF s \in Coders THEN Coders ELSE Reviewers

\* crash(stage, ...) before Claude has started: no branch, and the clone is removed.
CrashSession(s) == Set(s, [work[s] EXCEPT !.at = "over", !.status = "crashed"])
GitFails(s) ==
  /\ work[s].at \in {"clone", "branch", "fetch", "diff", "strip"}
  /\ Fails(s) /\ CrashSession(s) /\ UNCHANGED <<remote, landed>>

(* ------------------------------ Faulty variants ------------------------------ *)

\* without --force: a branch that is there already rejects it
PushUnforced(s) ==
  /\ Is(s, "push") /\ Lucky
  /\ IF remote.by \in {0, s}
     THEN /\ Set(s, [work[s] EXCEPT !.at = "report", !.pushed = TRUE])
          /\ remote' = [by |-> s, has |-> work[s].done] /\ landed' = [landed EXCEPT ![s] = work[s].done]
     ELSE To(s, "report") /\ UNCHANGED <<remote, landed>>

(* ---------------------------------- A session --------------------------------- *)

\* sessionKey: one coding and one review session of the ticket at a time.
StartWork(s) ==
  /\ Is(s, "idle") /\ \A o \in Sibling(s) \ {s} : work[o].at \in {"idle", "over"}
  /\ To(s, IF s \in Coders THEN "clone" ELSE "fetch")
  /\ UNCHANGED <<remote, landed>> /\ Lucky

CloneBase(s) ==
  /\ Is(s, "clone") /\ To(s, "branch") /\ UNCHANGED <<remote, landed>> /\ Lucky
\* checkout -B, and the base's SHA.
CreateBranch(s) ==
  /\ Is(s, "branch") /\ Set(s, [work[s] EXCEPT !.at = "claude", !.token = TRUE])
  /\ UNCHANGED <<remote, landed>> /\ Lucky

\* A review fetches the head, which has to be there, ...
FetchHead(s) ==
  /\ Is(s, "fetch")
  /\ IF remote = Nowhere THEN CrashSession(s)
     ELSE Set(s, [work[s] EXCEPT !.at = "diff", !.token = TRUE])
  /\ UNCHANGED <<remote, landed>> /\ Lucky
\* ... compares it with the base, with all of the history if there is no merge base, ...
DiffHead(s) == Is(s, "diff") /\ To(s, "strip") /\ UNCHANGED <<remote, landed>> /\ Lucky
\* ... and takes the credential from origin before the model gets a shell.
StripToken(s) ==
  /\ Is(s, "strip") /\ Set(s, [work[s] EXCEPT !.at = "claude", !.token = FALSE])
  /\ UNCHANGED <<remote, landed>> /\ Lucky

\* Claude edits, commits, goes to a branch of its own (in a review all of that stays in a
\* clone that is thrown away), or pushes against the orders.
Change(s) ==
  /\ s \in Coders /\ Is(s, "claude") /\ work[s].made < MaxChanges /\ Set(s, [work[s] EXCEPT !.made = @ + 1])
  /\ UNCHANGED <<remote, landed>> /\ Lucky
CommitChange(s) ==
  /\ s \in Coders /\ Is(s, "claude") /\ ~work[s].away /\ work[s].done < work[s].made
  /\ Set(s, [work[s] EXCEPT !.done = @ + 1]) /\ UNCHANGED <<remote, landed>> /\ Lucky
Leave(s) ==
  /\ s \in Coders /\ Is(s, "claude") /\ ~work[s].away /\ Set(s, [work[s] EXCEPT !.away = TRUE])
  /\ UNCHANGED <<remote, landed>> /\ Lucky
PushByHand(s) ==
  /\ Is(s, "claude") /\ work[s].token /\ ~work[s].away
  /\ remote' = [by |-> s, has |-> work[s].done] /\ landed' = [landed EXCEPT ![s] = work[s].done]
  /\ UNCHANGED work /\ Lucky

\* Its process ends, or is killed (timeout, cancel); what lastJSONObject finds of a result.
Ends == {"success", "turns", "error", "killed"}
EndClaude(s) ==
  /\ Is(s, "claude")
  /\ \E e \in Ends : Set(s, [work[s] EXCEPT !.at = IF s \in Coders THEN "sweep" ELSE "report", !.end = e])
  /\ UNCHANGED <<remote, landed>> /\ Lucky

(* --------------------------------- salvagePush -------------------------------- *)

\* What is uncommitted becomes a commit, where Claude has left HEAD; a failure is logged.
SweepTree(s) ==
  /\ Is(s, "sweep")
  /\ LET w == work[s] IN
       \/ Set(s, [w EXCEPT !.at = "head", !.done = IF w.away THEN @ ELSE w.made]) /\ Lucky
       \/ w.done < w.made /\ Fails(s) /\ To(s, "head")
  /\ UNCHANGED <<remote, landed>>

\* HEAD is the base still: nothing to push.
Uncommitted(w) == w.done = 0 /\ ~w.away
ReadHead(s) ==
  /\ Is(s, "head")
  /\ \/ ~Uncommitted(work[s]) /\ To(s, "push") /\ Lucky
     \/ (Uncommitted(work[s]) \/ work[s].away) /\ To(s, "report") /\ Lucky
     \/ Fails(s) /\ To(s, "report")
  /\ UNCHANGED <<remote, landed>>

PushBranch(s) ==
  /\ Is(s, "push") /\ Set(s, [work[s] EXCEPT !.at = "report", !.pushed = TRUE])
  /\ remote' = [by |-> s, has |-> work[s].done] /\ landed' = [landed EXCEPT ![s] = work[s].done]
  /\ Lucky
\* The push fails, or its answer is lost.
PushFails(s) ==
  /\ Is(s, "push") /\ Fails(s) /\ To(s, "report")
  /\ \/ remote' = [by |-> s, has |-> work[s].done] /\ landed' = [landed EXCEPT ![s] = work[s].done]
     \/ UNCHANGED <<remote, landed>>

\* A killed one leaves no JSON; one that exits with 0 and leaves none counts as a success.
Outcome(end) == CASE end \in {"killed", "error"} -> "crashed" [] end = "turns" -> "budget-exceeded"
                     [] OTHER -> "success"
\* The result, and the clone is removed.
Report(s) ==
  /\ Is(s, "report")
  /\ Set(s, [work[s] EXCEPT !.at = "over", !.status = Outcome(work[s].end), !.token = FALSE, !.end = "none",
               !.named = IF s \in Coders THEN work[s].pushed ELSE work[s].end # "killed"])
  /\ UNCHANGED <<remote, landed>> /\ Lucky

\* The clones of a dead runner are nobody's.
LoseRunner ==
  /\ gitFaults < MaxGitFaults /\ gitFaults' = gitFaults + 1
  /\ LET dead == {s \in WorkSessions : work[s].at \notin {"idle", "over"}} IN
       /\ dead # {} /\ unlucky' = unlucky \cup dead
       /\ work' = [s \in WorkSessions |->
                    IF s \in dead THEN [work[s] EXCEPT !.at = "over", !.status = "crashed"] ELSE work[s]]
  /\ UNCHANGED <<remote, landed>>

Proceed(s) ==
  \/ StartWork(s) \/ GitFails(s) \/ CloneBase(s) \/ CreateBranch(s) \/ FetchHead(s) \/ DiffHead(s) \/ StripToken(s)
  \/ Change(s) \/ CommitChange(s) \/ Leave(s) \/ PushByHand(s) \/ EndClaude(s)
  \/ SweepTree(s) \/ ReadHead(s) \/ PushBranch(s) \/ PushFails(s) \/ Report(s)
SessionWorkNext == LoseRunner \/ \E s \in WorkSessions : Proceed(s)
SessionWorkSpec == SessionWorkInit /\ [][SessionWorkNext]_workVars

(* --------------------------------- Properties ---------------------------------- *)

SessionWorkTypeOK ==
  /\ work \in [WorkSessions ->
       [at : {"idle", "clone", "branch", "fetch", "diff", "strip", "claude", "sweep", "head", "push", "report", "over"},
        made : 0..MaxChanges, done : 0..MaxChanges, away : BOOLEAN, token : BOOLEAN, pushed : BOOLEAN,
        end : Ends \cup {"none"}, status : {"none", "success", "budget-exceeded", "crashed"}, named : BOOLEAN]]
  /\ \A s \in WorkSessions : work[s].done <= work[s].made
  /\ remote \in [by : WorkSessions \cup {0}, has : 0..MaxChanges] /\ landed \in [WorkSessions -> 0..MaxChanges]
  /\ gitFaults \in 0..MaxGitFaults /\ unlucky \subseteq WorkSessions

\* "Push whatever was committed regardless of how the session ended" (runClaudeSession):
\* when a coding session is over, everything it has changed has reached the branch, and its
\* result names the branch just when there was something, unless a git command failed, the
\* runner died, or Claude left the branch.  A named branch holds something whatever failed
\* ("an empty branch pushed to the remote would falsely signal ... that work landed").
\* And a review session "must not be able to write to the remote" (runReviewSession).
WorkReachesRemote ==
  /\ \A s \in Coders : Is(s, "over") /\ ~work[s].away =>
       /\ work[s].named => landed[s] = work[s].done /\ landed[s] > 0
       /\ s \notin unlucky => landed[s] = work[s].made /\ (work[s].named <=> work[s].made > 0)
  /\ remote.by \notin Reviewers
===============================================================================
