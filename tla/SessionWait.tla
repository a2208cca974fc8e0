---------------------------- MODULE SessionWait ----------------------------
(***************************************************************************)
(* Runs that wait for a session of the runner service: the launch, the     *)
(* wait in the process and the durable park that replaces it after 60      *)
(* seconds, the runner's callback that feeds the waiting goroutine or      *)
(* resumes the parked run, the watchdog, Cancel, and a restart of the API. *)
(* The runner is module RunnerSessions.                                    *)
(*                                                                         *)
(* A run's tool calls are the session keys of Plan[r], in turn.  The       *)
(* result of a call is the session whose callback carried it, Watchdog,    *)
(* or Error; the other results, tools and model calls of the loop are in   *)
(* module RunLifecycle.                                                    *)
(***************************************************************************)
EXTENDS RunnerSessions

CONSTANTS
  Plan,            \* the session keys a run asks for, one after the other
  Child,           \* runs whose caller waits on this process's stack
  Ambiguous        \* the answer to an HTTP request may get lost

ASSUME PlanAssumption == Plan \in [Runs -> Seq(Keys)] /\ Child \subseteq Runs
ASSUME AmbiguousAssumption == Ambiguous \in BOOLEAN

VARIABLES
  (* PostgreSQL *)
  status,    \* runs.status
  snapshot,  \* run_wait_states: the call the run is parked at, or 0
  saved,     \* metadata.runner_session_key: the index of its call, or 0
  (* memory of the API process *)
  registry,  \* runs whose channel is in sessionRegistry
  chan,      \* the buffer of the run's newest channel
  claim,     \* the snapshot a callback or the watchdog has claimed, or NoClaim
  resumes,   \* goroutines of ResumeSessionRun that wait for the conversation
  (* the goroutine that executes the run *)
  pc, call, attached, ctxDone,
  (* Cancel, and the runs it was asked for *)
  cancelling, cancelled,
  (* history *)
  asked,     \* the session each call was given
  answers,   \* the results the calls were answered with, in order
  told,      \* <<run, session>>: the results the runs were given
  unsure     \* runs with a lost answer or a result given twice

runVars == <<status, snapshot, saved, registry, chan, resumes, pc, call, attached, ctxDone>>
histVars == <<asked, answers, told, unsure>>
cancelVars == <<cancelling, cancelled>>
vars == <<runnerVars, faults, claim, runVars, histVars, cancelVars>>

Error == MaxSessions + 1
Watchdog == MaxSessions + 2
Results == 0..Watchdog
Callers == Senders \cup {Watchdog}   \* whose requests resume a run

Status == {"running", "session_wait", "success", "failed", "cancelled"}
RunPC == {"next", "save_key", "register", "save", "mark", "wait", "unmark", "off"}
NoClaim == [run |-> None, call |-> 0, res |-> None]
Idle == [run |-> None, at |-> "idle"]

Init ==
  /\ RunnerInit
  /\ claim = [d \in Callers |-> NoClaim]
  /\ status = [r \in Runs |-> "running"]
  /\ snapshot = [r \in Runs |-> 0] /\ saved = [r \in Runs |-> 0]
  /\ registry = {} /\ chan = [r \in Runs |-> None] /\ resumes = [r \in Runs |-> {}]
  /\ pc = [r \in Runs |-> "next"] /\ call = [r \in Runs |-> 1]
  /\ attached = [r \in Runs |-> r \notin Child] /\ ctxDone = [r \in Runs |-> FALSE]
  /\ cancelling = Idle /\ cancelled = {}
  /\ asked = [r \in Runs |-> <<>>] /\ answers = [r \in Runs |-> <<>>]
  /\ told = {} /\ unsure = {}

Goto(r, from, to) == pc[r] = from /\ pc' = [pc EXCEPT ![r] = to]
Carried(d) == IF d = Watchdog THEN Watchdog ELSE post[d].sid
Ask(r, s) == asked' = [asked EXCEPT ![r] = Append(@, s)]
Answer(r, x) == answers' = [answers EXCEPT ![r] = Append(@, [call |-> call[r], res |-> x])]

-----------------------------------------------------------------------------
(* Faulty variants: bugs this code could plausibly have. *)

(* The snapshot outlives the wait it was saved for. *)
KeepSnapshot(r) ==
  /\ chan[r] # None
  /\ Goto(r, "wait", "unmark")
  /\ UNCHANGED <<faults, runnerVars, claim, status, snapshot, saved, registry, chan, resumes,
                 call, attached, ctxDone, histVars, cancelVars>>

(* claimWaitState reads the snapshot and leaves it there. *)
ReadSnapshot(d, r) ==
  /\ claim[d] = NoClaim /\ snapshot[r] # 0
  /\ claim' = [claim EXCEPT ![d] = [run |-> r, call |-> snapshot[r], res |-> Carried(d)]]
  /\ UNCHANGED snapshot

(* The resumed goroutine skips the call behind the answered one. *)
ResumeOneMore(r) ==
  /\ pc[r] = "off"
  /\ \E x \in resumes[r] :
       /\ resumes' = [resumes EXCEPT ![r] = @ \ {x}]
       /\ status' = [status EXCEPT ![r] = "running"]
       /\ pc' = [pc EXCEPT ![r] = "next"]
       /\ call' = [call EXCEPT ![r] = x.call + 2]
       /\ answers' = [answers EXCEPT ![r] = Append(@, x)]
  /\ UNCHANGED <<faults, runnerVars, claim, snapshot, saved, registry, chan, attached, ctxDone,
                 asked, told, unsure, cancelVars>>

(* The sweep trusts that every waiting run has a snapshot. *)
SweepRunningOnly(r) == status[r] = "running"

(* The watchdog takes up the runs that are shown as running only. *)
SweepRunning == \E r \in Runs : status[r] = "running" /\ UNCHANGED vars

-----------------------------------------------------------------------------
(* The loop of executeRun, up to the next session tool *)

(* A cancelled context ends the loop before the next call or model call,   *)
(* and the deferred failRun leaves a cancelled run alone.                  *)
Finish(r) ==
  /\ Goto(r, "next", "off")
  /\ ctxDone[r] \/ call[r] > Len(Plan[r])
  /\ status' = [status EXCEPT ![r] = IF @ = "cancelled" THEN @
                                     ELSE IF ctxDone[r] THEN "failed" ELSE "success"]
  /\ UNCHANGED <<faults, runnerVars, claim, snapshot, saved, registry, chan, resumes,
                 call, attached, ctxDone, histVars, cancelVars>>

(* launchAndWait: the runner starts a session or joins one. *)
Launch(r) ==
  /\ ~ctxDone[r] /\ call[r] <= Len(Plan[r])
  /\ Goto(r, "next", "save_key")
  /\ HandleLaunch(Plan[r][call[r]], r)
  /\ Ask(r, Assigned(Plan[r][call[r]]))
  /\ UNCHANGED <<faults, claim, status, snapshot, saved, registry, chan, resumes,
                 call, attached, ctxDone, answers, told, unsure, cancelVars>>

(* The runner is out of reach or refuses, and the call gets the error; or  *)
(* only its answer is lost, and the session runs.                          *)
LaunchFails(r) ==
  /\ ~ctxDone[r] /\ call[r] <= Len(Plan[r]) /\ Goto(r, "next", "next")
  /\ Fault
  /\ \/ UNCHANGED <<runnerVars, unsure>> /\ Ask(r, Error)
     \/ /\ Ambiguous
        /\ HandleLaunch(Plan[r][call[r]], r)
        /\ Ask(r, Assigned(Plan[r][call[r]]))
        /\ unsure' = unsure \cup {r}
  /\ Answer(r, Error)
  /\ call' = [call EXCEPT ![r] = @ + 1]
  /\ UNCHANGED <<claim, status, snapshot, saved, registry, chan, resumes,
                 attached, ctxDone, told, cancelVars>>

SaveKey(r) ==
  /\ Goto(r, "save_key", "register")
  /\ saved' = IF ctxDone[r] THEN saved ELSE [saved EXCEPT ![r] = call[r]]
  /\ UNCHANGED <<faults, runnerVars, claim, status, snapshot, registry, chan, resumes,
                 call, attached, ctxDone, histVars, cancelVars>>

-----------------------------------------------------------------------------
(* WaitForSession; a child run saves nothing and waits on *)

RegisterSessionWait(r) ==
  /\ Goto(r, "register", IF r \in Child THEN "mark" ELSE "save")
  /\ registry' = registry \cup {r}
  /\ chan' = [chan EXCEPT ![r] = None]
  /\ UNCHANGED <<faults, runnerVars, claim, status, snapshot, saved, resumes,
                 call, attached, ctxDone, histVars, cancelVars>>

SaveWaitState(r) ==
  /\ Goto(r, "save", "mark")
  /\ snapshot' = [snapshot EXCEPT ![r] = call[r]]
  /\ UNCHANGED <<faults, runnerVars, claim, status, saved, registry, chan, resumes,
                 call, attached, ctxDone, histVars, cancelVars>>

(* With ctx, and no guard. *)
MarkWait(r) ==
  /\ Goto(r, "mark", "wait")
  /\ status' = IF ctxDone[r] THEN status ELSE [status EXCEPT ![r] = "session_wait"]
  /\ UNCHANGED <<faults, runnerVars, claim, snapshot, saved, registry, chan, resumes,
                 call, attached, ctxDone, histVars, cancelVars>>

(* After 60 seconds, or with a cancelled context: the goroutine is gone.   *)
Park(r) ==
  /\ r \notin Child
  /\ chan[r] = None
  /\ Goto(r, "wait", "off")
  /\ registry' = registry \ {r}
  /\ UNCHANGED <<faults, runnerVars, claim, status, snapshot, saved, chan, resumes,
                 call, attached, ctxDone, histVars, cancelVars>>

(* blockingSessionWait: after 240 minutes, by when the runner, whose cap   *)
(* is 120, has nothing left to say.                                        *)
GiveUp(r) ==
  /\ r \in Child
  /\ chan[r] = None
  /\ ctxDone[r] \/ ~Owes(r)
  /\ Goto(r, "wait", "unmark")
  /\ registry' = registry \ {r}
  /\ UNCHANGED <<faults, runnerVars, claim, status, snapshot, saved, chan, resumes,
                 call, attached, ctxDone, histVars, cancelVars>>

(* The result is there; the snapshot is deleted after it was received. *)
DropWaitState(r) ==
  /\ chan[r] # None
  /\ Goto(r, "wait", "unmark")
  /\ snapshot' = [snapshot EXCEPT ![r] = 0]
  /\ UNCHANGED <<faults, runnerVars, claim, status, saved, registry, chan, resumes,
                 call, attached, ctxDone, histVars, cancelVars>>

(* Back to running: a child's statement is guarded and has a context of    *)
(* its own, the other one has neither.                                     *)
UnmarkWait(r) ==
  /\ Goto(r, "unmark", "next")
  /\ status' = IF IF r \in Child THEN status[r] = "cancelled" ELSE ctxDone[r]
               THEN status ELSE [status EXCEPT ![r] = "running"]
  /\ Answer(r, IF chan[r] = None THEN Error ELSE chan[r])
  /\ chan' = [chan EXCEPT ![r] = None]
  /\ call' = [call EXCEPT ![r] = @ + 1]
  /\ UNCHANGED <<faults, runnerVars, claim, snapshot, saved, registry, resumes,
                 attached, ctxDone, asked, told, unsure, cancelVars>>

-----------------------------------------------------------------------------
(* POST /internal/sessions/callback: sender d posts to r; and              *)
(* ResumeSessionRun, called from there and from the watchdog.              *)

Posting(d) == post[d].subs # <<>> /\ claim[d] = NoClaim
Target(d) == Head(post[d].subs)

(* The run is given the result; twice the watchdog's is nothing unusual. *)
Handled(r, s) ==
  /\ told' = told \cup {<<r, s>>}
  /\ unsure' = IF s # Watchdog /\ <<r, s>> \in told THEN unsure \cup {r} ELSE unsure

(* The 200 reaches the runner or, if Ambiguous, is lost.  There is nobody  *)
(* to reply to once the runner has crashed.                                *)
Reply(d) ==
  /\ \/ post' = [post EXCEPT ![d] = IF @.subs = <<>> THEN @ ELSE Posted(@)] /\ UNCHANGED faults
     \/ Ambiguous /\ post[d].subs # <<>> /\ post' = [post EXCEPT ![d] = Missed(@)] /\ Fault
  /\ UNCHANGED <<sessions, current, journal, todo, stopped, crashes>>

SendSessionResult(d) ==
  /\ Posting(d) /\ Target(d) \in registry
  /\ registry' = registry \ {Target(d)}
  /\ chan' = [chan EXCEPT ![Target(d)] = post[d].sid]
  /\ Handled(Target(d), post[d].sid) /\ Reply(d)
  /\ UNCHANGED <<claim, status, snapshot, saved, resumes, pc, call, attached, ctxDone,
                 asked, answers, cancelVars>>

(* claimWaitState: the row is deleted and returned. *)
ClaimWaitState(d, r) ==
  /\ claim[d] = NoClaim /\ snapshot[r] # 0
  /\ claim' = [claim EXCEPT ![d] = [run |-> r, call |-> snapshot[r], res |-> Carried(d)]]
  /\ snapshot' = [snapshot EXCEPT ![r] = 0]

ResumeByCallback(d) ==
  /\ Posting(d) /\ Target(d) \notin registry
  /\ ClaimWaitState(d, Target(d))
  /\ UNCHANGED <<faults, runnerVars, status, saved, registry, chan, resumes,
                 pc, call, attached, ctxDone, histVars, cancelVars>>

(* No goroutine and no snapshot: accepted and forgotten. *)
IgnoreCallback(d) ==
  /\ Posting(d) /\ Target(d) \notin registry /\ snapshot[Target(d)] = 0
  /\ Reply(d)
  /\ UNCHANGED <<claim, runVars, histVars, cancelVars>>

(* sweepStaleSessionWaits: the snapshot is older than 240 minutes, so the  *)
(* goroutine has parked and the runner, whose cap is 120, has nothing left *)
(* to say.                                                                 *)
Stale(r) == status[r] = "session_wait" /\ pc[r] = "off" /\ ~Owes(r)

SweepStale ==
  /\ \E r \in Runs : Stale(r) /\ ClaimWaitState(Watchdog, r)
  /\ UNCHANGED <<faults, runnerVars, status, saved, registry, chan, resumes,
                 pc, call, attached, ctxDone, histVars, cancelVars>>

(* The rest of ResumeSessionRun: any status but cancelled will do. *)
Revive(d) ==
  LET r == claim[d].run
  IN  /\ claim[d] # NoClaim
      /\ claim' = [claim EXCEPT ![d] = NoClaim]
      /\ IF status[r] = "cancelled" THEN UNCHANGED <<status, resumes, told, unsure>>
         ELSE /\ status' = [status EXCEPT ![r] = "running"]
              /\ resumes' = [resumes EXCEPT ![r] = @ \cup {[call |-> claim[d].call, res |-> claim[d].res]}]
              /\ Handled(r, claim[d].res)
      /\ IF d = Watchdog THEN UNCHANGED <<faults, runnerVars>> ELSE Reply(d)
      /\ UNCHANGED <<snapshot, saved, registry, chan, pc, call, attached, ctxDone,
                     asked, answers, cancelVars>>

(* The resumed goroutine has the conversation, claims the run, and answers *)
(* the pending call with the result it was given.                          *)
Resume(r) ==
  /\ pc[r] = "off"
  /\ \E x \in resumes[r] :
       /\ resumes' = [resumes EXCEPT ![r] = @ \ {x}]
       /\ IF status[r] = "cancelled"
          THEN UNCHANGED <<status, pc, call, attached, ctxDone, answers>>
          ELSE /\ status' = [status EXCEPT ![r] = "running"]
               /\ pc' = [pc EXCEPT ![r] = "next"]
               /\ call' = [call EXCEPT ![r] = x.call + 1]
               /\ attached' = [attached EXCEPT ![r] = FALSE]
               /\ ctxDone' = [ctxDone EXCEPT ![r] = FALSE]
               /\ answers' = [answers EXCEPT ![r] = Append(@, x)]
  /\ UNCHANGED <<faults, runnerVars, claim, snapshot, saved, registry, chan,
                 asked, told, unsure, cancelVars>>

-----------------------------------------------------------------------------
(* POST /runs/{id}/cancel *)

CancelStatus(r) ==
  /\ cancelling = Idle /\ Fault
  /\ status[r] \in {"running", "session_wait"}
  /\ status' = [status EXCEPT ![r] = "cancelled"]
  /\ cancelling' = [run |-> r, at |-> "signal"]
  /\ cancelled' = cancelled \cup {r}
  /\ UNCHANGED <<runnerVars, claim, snapshot, saved, registry, chan, resumes,
                 pc, call, attached, ctxDone, histVars>>

CancelRun ==
  /\ cancelling.at = "signal"
  /\ cancelling' = [cancelling EXCEPT !.at = "runner"]
  /\ ctxDone' = [ctxDone EXCEPT ![cancelling.run] = @ \/ pc[cancelling.run] # "off"]
  /\ UNCHANGED <<faults, runnerVars, claim, status, snapshot, saved, registry, chan, resumes,
                 pc, call, attached, histVars, cancelled>>

(* The key the run saved last, if any; the request may fail. *)
CancelRunnerSession ==
  LET r == cancelling.run
  IN  /\ cancelling.at = "runner"
      /\ cancelling' = [cancelling EXCEPT !.at = "purge"]
      /\ IF saved[r] # 0 THEN HandleCancel(Plan[r][saved[r]], r) ELSE UNCHANGED runnerVars
      /\ UNCHANGED <<faults, claim, runVars, histVars, cancelled>>

CancelPurge ==
  /\ cancelling.at = "purge"
  /\ cancelling' = Idle
  /\ snapshot' = [snapshot EXCEPT ![cancelling.run] = 0]
  /\ UNCHANGED <<faults, runnerVars, claim, status, saved, registry, chan, resumes,
                 pc, call, attached, ctxDone, histVars, cancelled>>

CancelStep == CancelRun \/ CancelRunnerSession \/ CancelPurge

-----------------------------------------------------------------------------
(* A client leaves; the API process dies and the next one sweeps the runs. *)

Disconnect(r) ==
  /\ Fault
  /\ attached[r] /\ pc[r] # "off"
  /\ attached' = [attached EXCEPT ![r] = FALSE]
  /\ ctxDone' = [ctxDone EXCEPT ![r] = TRUE]
  /\ UNCHANGED <<runnerVars, claim, status, snapshot, saved, registry, chan, resumes,
                 pc, call, histVars, cancelling, cancelled>>

Orphaned(r) == status[r] = "running" \/ (status[r] = "session_wait" /\ snapshot[r] = 0)

Restart ==
  /\ Fault
  /\ status' = [r \in Runs |-> IF Orphaned(r) THEN "failed" ELSE status[r]]
  /\ registry' = {} /\ chan' = [r \in Runs |-> None] /\ resumes' = [r \in Runs |-> {}]
  /\ pc' = [r \in Runs |-> "off"]
  /\ ctxDone' = [r \in Runs |-> FALSE] /\ attached' = [r \in Runs |-> FALSE]
  /\ claim' = [d \in Callers |-> NoClaim]
  /\ cancelling' = Idle
  /\ UNCHANGED <<runnerVars, snapshot, saved, call, histVars, cancelled>>

-----------------------------------------------------------------------------
LoopStep(r) ==
  \/ Finish(r) \/ Launch(r) \/ SaveKey(r) \/ RegisterSessionWait(r)
  \/ SaveWaitState(r) \/ MarkWait(r) \/ Park(r) \/ GiveUp(r)
  \/ DropWaitState(r) \/ UnmarkWait(r) \/ Resume(r)

CallbackStep(d) == SendSessionResult(d) \/ ResumeByCallback(d) \/ IgnoreCallback(d)

RunnerStep ==
  \/ \E s \in Sessions : SessionStep(s)
  \/ RecoveryStep

RunnerFault == CrashRunner \/ \E d \in Senders : MissCallback(d)

ApiUnchanged == UNCHANGED <<claim, runVars, histVars, cancelVars>>

Work ==
  \/ \E r \in Runs : LoopStep(r)
  \/ \E d \in Senders : CallbackStep(d)
  \/ SweepStale
  \/ \E d \in Callers : Revive(d)
  \/ CancelStep
  \/ RunnerStep /\ ApiUnchanged

Trouble ==
  \/ \E r \in Runs : LaunchFails(r) \/ CancelStatus(r) \/ Disconnect(r)
  \/ Restart
  \/ RunnerFault /\ ApiUnchanged

Next == Work \/ Trouble

Spec == Init /\ [][Next]_vars

(* Goroutines and handlers are scheduled, statements return, a session     *)
(* ends (its context has a deadline), a sender posts, the watchdog looks   *)
(* every five minutes.  None of them can keep another from its turn for    *)
(* ever, so it is enough that work goes on while there is any.             *)
Fairness == WF_vars(Work)

FairSpec == Spec /\ Fairness

-----------------------------------------------------------------------------
(* Correctness *)

(* The shape of every variable. *)
TypeOK ==
  /\ RunnerTypeOK
  /\ claim \in [Callers -> [run : Runs \cup {None}, call : Nat, res : Results]]
  /\ status \in [Runs -> Status]
  /\ \A r \in Runs : {snapshot[r], saved[r]} \subseteq 0..Len(Plan[r])
  /\ \A r \in Runs : call[r] \in 1..(Len(Plan[r]) + 1)
  /\ registry \subseteq Runs /\ chan \in [Runs -> 0..MaxSessions]
  /\ \A r \in Runs : resumes[r] \subseteq [call : 1..Len(Plan[r]), res : Results]
  /\ pc \in [Runs -> RunPC] /\ attached \in [Runs -> BOOLEAN] /\ ctxDone \in [Runs -> BOOLEAN]
  /\ cancelling.run \in Runs \cup {None} /\ cancelling.at \in {"idle", "signal", "runner", "purge"}
  /\ cancelled \subseteq Runs
  /\ told \subseteq (Runs \X Results) /\ unsure \subseteq Runs

(* Through parks, resumes, retries, restarts of either process and shared  *)
(* sessions, the calls of a run are answered in order and once each, and a *)
(* run that succeeds has all its answers: as long as no answer got lost    *)
(* and no result came twice.                                              *)
AnsweredOnce ==
  \A r \in Runs \ unsure :
    /\ \A i \in DOMAIN answers[r] : answers[r][i].call = i
    /\ status[r] = "success" => Len(answers[r]) = Len(Plan[r])

(* Under the same proviso a call is answered with the result of the        *)
(* session that was started, or joined, for it, with the error of its      *)
(* launch or wait, or by the watchdog: callbacks name the run only.        *)
ResultBelongs ==
  \A r \in Runs \ unsure : \A i \in DOMAIN answers[r] :
    answers[r][i].res \in {Error, Watchdog, asked[r][answers[r][i].call]}

(* While a run is in session_wait a callback can still reach it, through   *)
(* its channel or its snapshot, or its result is there and its goroutine   *)
(* goes on.  (A cancelled run put back to session_wait may have neither.)  *)
WaitIsAnswerable ==
  \A r \in Runs \ cancelled : status[r] = "session_wait" =>
    \/ r \in registry \/ snapshot[r] # 0 \/ chan[r] # None
    \/ pc[r] \in {"unmark", "next"}
    \/ \E d \in Callers : claim[d].run = r

(* No run is left in session_wait, whatever is lost and whoever crashes:   *)
(* "no run can be stranded".                                               *)
WaitsEnd == []<>(\A r \in Runs \ cancelled : status[r] # "session_wait")

(* "Agent Nexus treats duplicate deliveries as no-ops, so retrying on      *)
(* ambiguous failures is safe."                                            *)
DuplicatesAreNoOps ==
  [][\A d \in Senders : SendSessionResult(d) \/ ResumeByCallback(d) =>
       <<Target(d), post[d].sid>> \notin told]_vars

=============================================================================
