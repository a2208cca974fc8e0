--------------------------- MODULE RunnerSessions ---------------------------
(***************************************************************************)
(* The runner service: it executes sessions (an autonomous coding or       *)
(* review session in a repository) for the runs of the API service, lets   *)
(* equal requests join one session, posts a session's result to each run   *)
(* that subscribed to it, and keeps a journal file per session key from    *)
(* which the next process tells the subscribers that their session died.   *)
(*                                                                         *)
(* A session is a number, in the order of the launches; a callback carries *)
(* the number of the session whose result (or whose death) it reports.     *)
(* Sender s posts the callbacks of session s, sender -n those of the       *)
(* recovery after crash n.  How the API handles a callback is in module    *)
(* SessionWait.                                                            *)
(***************************************************************************)
EXTENDS Integers, Sequences, FiniteSets

CONSTANTS
  Runs,              \* runs of the API service
  Keys,              \* session keys: owner/name, ticket and mode
  MaxSessions,       \* bound: sessions that are started
  MaxTries,          \* attempts to post a callback (6 in the code)
  MaxFaults          \* bound: crashes, lost requests and answers, clients that
                     \* leave and cancels, all together

ASSUME RunnerAssumption ==
  /\ MaxSessions \in Nat /\ MaxTries \in Nat \ {0} /\ MaxFaults \in Nat
  /\ 0 \notin Runs   \* None

VARIABLES
  sessions,  \* sequence of [key, subs, pc]: every session started
  current,   \* server.sessions: the newest session of each key, or None
  journal,   \* the journal file of each key, or NoJournal
  todo,      \* recoverJournals: the keys whose files are still to be read
  post,      \* what each sender has still to post
  stopped,   \* sessions stopped by a cancel, with the run that asked
  crashes,   \* crashes of the runner so far
  faults     \* faults so far, here and in the API service

runnerVars == <<sessions, current, journal, todo, post, stopped, crashes>>

None == 0
Sessions == 1..MaxSessions
Recovery == -crashes
Senders == (-MaxFaults)..MaxSessions

NoJournal == [sid |-> None, subs |-> <<>>]
NoPost == [sid |-> None, subs |-> <<>>, tries |-> 0]

Live(s) == s # None /\ sessions[s].pc = "work"
Subscribed(r, s) == \E i \in DOMAIN sessions[s].subs : sessions[s].subs[i] = r

RunnerInit ==
  /\ sessions = <<>>
  /\ current = [k \in Keys |-> None]
  /\ journal = [k \in Keys |-> NoJournal]
  /\ todo = {}
  /\ post = [d \in Senders |-> NoPost]
  /\ stopped = {}
  /\ crashes = 0
  /\ faults = 0

Fault == faults < MaxFaults /\ faults' = faults + 1

-----------------------------------------------------------------------------
(* POST /sessions.  The session a request starts or joins. *)

Joinable(k) == current[k] # None /\ Live(current[k])
Assigned(k) == IF Joinable(k) THEN current[k] ELSE Len(sessions) + 1

JoinSession(k, r) ==
  LET s == current[k]
      subs == IF Subscribed(r, s) THEN sessions[s].subs ELSE Append(sessions[s].subs, r)
  IN  /\ Joinable(k)
      /\ sessions' = [sessions EXCEPT ![s].subs = subs]
      /\ journal' = IF Subscribed(r, s) THEN journal
                    ELSE [journal EXCEPT ![k] = [sid |-> s, subs |-> subs]]
      /\ UNCHANGED <<current, todo, post, stopped, crashes>>

StartSession(k, r) ==
  LET s == Len(sessions) + 1
  IN  /\ ~Joinable(k)
      /\ s <= MaxSessions
      /\ sessions' = Append(sessions, [key |-> k, subs |-> <<r>>, pc |-> "work"])
      /\ current' = [current EXCEPT ![k] = s]
      /\ journal' = [journal EXCEPT ![k] = [sid |-> s, subs |-> <<r>>]]
      /\ UNCHANGED <<todo, post, stopped, crashes>>

HandleLaunch(k, r) == JoinSession(k, r) \/ StartSession(k, r)

(* POST /sessions/cancel stops the session that has the key now, unless    *)
(* its goroutine has yet to store its cancel func.                         *)
HandleCancel(k, r) ==
  /\ \/ Joinable(k) /\ stopped' = stopped \cup {<<current[k], r>>}
     \/ UNCHANGED stopped
  /\ UNCHANGED <<sessions, current, journal, todo, post, crashes>>

-----------------------------------------------------------------------------
(* runSession: what a session does takes its time, a stopped one less.     *)

(* done = true and the copy of the subscribers, under the lock. *)
FinishSession(s) ==
  /\ s \in DOMAIN sessions /\ sessions[s].pc = "work"
  /\ sessions' = [sessions EXCEPT ![s].pc = "post"]
  /\ post' = [post EXCEPT ![s] = [sid |-> s, subs |-> sessions[s].subs, tries |-> 0]]
  /\ UNCHANGED <<current, journal, todo, stopped, crashes, faults>>

(* Every callback was attempted: the journal file of the key goes. *)
CleanSession(s) ==
  /\ s \in DOMAIN sessions /\ sessions[s].pc = "post"
  /\ post[s].subs = <<>>
  /\ sessions' = [sessions EXCEPT ![s].pc = "off"]
  /\ journal' = [journal EXCEPT ![sessions[s].key] = NoJournal]
  /\ post' = [post EXCEPT ![s] = NoPost]
  /\ UNCHANGED <<current, todo, stopped, crashes, faults>>

-----------------------------------------------------------------------------
(* deliverCallback, to one subscriber after the other. *)

Posted(p) == [p EXCEPT !.subs = Tail(@), !.tries = 0]
Missed(p) == IF p.tries + 1 = MaxTries THEN Posted(p) ELSE [p EXCEPT !.tries = @ + 1]

(* Nobody answers, or the answer is a 5xx. *)
MissCallback(d) ==
  /\ Fault
  /\ post[d].subs # <<>>
  /\ post' = [post EXCEPT ![d] = Missed(@)]
  /\ UNCHANGED <<sessions, current, journal, todo, stopped, crashes>>

-----------------------------------------------------------------------------
(* A crash; the next process lists the journal files it finds and reports  *)
(* one after the other, while it serves requests already.                  *)

CrashRunner ==
  /\ Fault
  /\ crashes' = crashes + 1
  /\ sessions' = [s \in DOMAIN sessions |-> [sessions[s] EXCEPT !.pc = "off"]]
  /\ current' = [k \in Keys |-> None]
  /\ todo' = {k \in Keys : journal[k] # NoJournal}
  /\ post' = [d \in Senders |-> NoPost]
  /\ UNCHANGED <<journal, stopped>>

(* The file is read when its turn comes: it may be gone by then, or be the *)
(* journal of a session that was started meanwhile.                        *)
ReadJournal(k) ==
  /\ k \in todo /\ post[Recovery].sid = None
  /\ IF journal[k] = NoJournal
     THEN todo' = todo \ {k} /\ UNCHANGED post
     ELSE /\ post' = [post EXCEPT ![Recovery] =
                        [sid |-> journal[k].sid, subs |-> journal[k].subs, tries |-> 0]]
          /\ UNCHANGED todo
  /\ UNCHANGED <<sessions, current, journal, stopped, crashes, faults>>

RemoveJournal(k) ==
  /\ k \in todo /\ post[Recovery].sid # None
  /\ sessions[post[Recovery].sid].key = k
  /\ post[Recovery].subs = <<>>
  /\ post' = [post EXCEPT ![Recovery] = NoPost]
  /\ todo' = todo \ {k}
  /\ journal' = [journal EXCEPT ![k] = NoJournal]
  /\ UNCHANGED <<sessions, current, stopped, crashes, faults>>

-----------------------------------------------------------------------------
SessionStep(s) == FinishSession(s) \/ CleanSession(s)
RecoveryStep == \E k \in Keys : ReadJournal(k) \/ RemoveJournal(k)

(* The runner still has, or may still find, something to tell the run.     *)
Owes(r) ==
  \/ \E s \in DOMAIN sessions : Live(s) /\ Subscribed(r, s)
  \/ \E d \in Senders : \E i \in DOMAIN post[d].subs : post[d].subs[i] = r
  \/ \E k \in Keys : \E i \in DOMAIN journal[k].subs : journal[k].subs[i] = r

RunnerTypeOK ==
  /\ sessions \in Seq([key : Keys, subs : Seq(Runs), pc : {"work", "post", "off"}])
  /\ Len(sessions) <= MaxSessions
  /\ current \in [Keys -> 0..Len(sessions)]
  /\ journal \in [Keys -> [sid : 0..Len(sessions), subs : Seq(Runs)]]
  /\ todo \subseteq Keys
  /\ post \in [Senders -> [sid : 0..Len(sessions), subs : Seq(Runs), tries : 0..(MaxTries - 1)]]
  /\ stopped \subseteq (Sessions \X Runs)
  /\ crashes \in 0..faults /\ faults \in 0..MaxFaults
=============================================================================
