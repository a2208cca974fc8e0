--------------------------- MODULE SessionWaitProofs ---------------------------
(* What a run may expect of the sessions it waits for, for any number of runs,   *)
(* sessions and faults: its calls are answered in order and once each, with the  *)
(* result of their own session, and while it waits something can still answer.   *)
EXTENDS SessionWait, SequenceTheorems, TLAPS

(* ------------------------------- The invariant ---------------------------- *)

SessionRow == [key : Keys, subs : Seq(Runs), pc : {"work", "post", "off"}]
PostRow == [sid : 0..Len(sessions), subs : Seq(Runs), tries : 0..(MaxTries - 1)]
JournalRow == [sid : 0..Len(sessions), subs : Seq(Runs)]

Listed(r, subs) == \E i \in DOMAIN subs : subs[i] = r

\* The runner still has, or may still find, the result of session s for run r.
Owed(r, s) ==
  \/ s \in DOMAIN sessions /\ sessions[s].pc = "work" /\ Listed(r, sessions[s].subs)
  \/ \E d \in Senders : post[d].sid = s /\ Listed(r, post[d].subs)
  \/ \E k \in Keys : journal[k].sid = s /\ Listed(r, journal[k].subs)

\* The runner owes run r something.
Owing(r) == \E s \in Sessions : Owed(r, s)

\* Who has subscribers has a session.
RunnerInv ==
  /\ RunnerTypeOK
  /\ \A d \in Senders : post[d].subs # <<>> => post[d].sid # None
  /\ \A k \in Keys : journal[k].subs # <<>> => journal[k].sid # None

\* No step of the runner alone comes to owe a run more than it did.
OwesLess == \A q \in Runs, s \in Sessions : Owed(q, s)' => Owed(q, s)

Entry == [call : Nat, res : Results]
Busy == {"save_key", "register", "save", "mark", "wait", "unmark"}
InWait == {"save", "mark", "wait"}
Claimed(r) == \E d \in Callers : claim[d].run = r

\* The variables are functions and records, and a claim is of a run and one of its calls.
RunShapes ==
  /\ TypeOK
  /\ snapshot \in [Runs -> Nat] /\ saved \in [Runs -> Nat] /\ call \in [Runs -> Nat]
  /\ resumes \in [Runs -> SUBSET Entry]
  /\ cancelling \in [run : Runs \cup {None}, at : {"idle", "signal", "runner", "purge"}]
  /\ asked \in [Runs -> Seq(Results)] /\ answers \in [Runs -> Seq(Entry)]
  /\ \A d \in Callers : claim[d] # NoClaim =>
       claim[d].run \in Runs /\ claim[d].call \in 1..Len(Plan[claim[d].run])
  /\ cancelling = Idle \/ cancelling.run \in cancelled

\* Where a run is, and what then holds of its channel and its snapshot.  A child is never parked.
Placed(r) ==
  /\ status[r] = "success" => pc[r] = "off" /\ call[r] = Len(Plan[r]) + 1
  /\ pc[r] \in Busy => call[r] <= Len(Plan[r])
  /\ r \in registry => pc[r] \in InWait /\ chan[r] = None
  /\ pc[r] \in InWait => r \in registry \/ chan[r] # None
  /\ chan[r] # None => pc[r] \in InWait \cup {"unmark"}
  /\ r \in Child => snapshot[r] = 0 /\ resumes[r] = {} /\ ~Claimed(r) /\ pc[r] # "save"
  /\ pc[r] = "unmark" /\ chan[r] = None => r \in Child /\ (ctxDone[r] \/ ~Owing(r))

\* A run in session_wait has got somewhere from where it can be answered.
Answerable(r) ==
  r \notin cancelled =>
    /\ pc[r] \in {"mark", "wait"} /\ r \in registry /\ r \notin Child => snapshot[r] # 0
    /\ status[r] = "session_wait" =>
         /\ pc[r] \in {"wait", "unmark", "next", "off"}
         /\ pc[r] = "next" => ctxDone[r]
         /\ pc[r] = "off" => snapshot[r] # 0 \/ Claimed(r)

\* Caller d will resume run r, and not with a result that the run was given already.
Awaits(d, r) == claim[d].run = r /\ (claim[d].res = Watchdog \/ <<r, claim[d].res>> \notin told)

\* The calls that are answered are the calls before the current one.
Answered(r) ==
  /\ Len(answers[r]) = call[r] - 1
  /\ Len(asked[r]) \in {call[r] - 1, call[r]}
  /\ pc[r] \in Busy => Len(asked[r]) = call[r]
  /\ pc[r] = "next" => Len(asked[r]) = call[r] - 1
  /\ \A i \in DOMAIN answers[r] :
       answers[r][i].call = i /\ answers[r][i].res \in {Error, Watchdog, asked[r][i]}

\* The answer x to the current call: the watchdog's if the runner has nothing left to say, or
\* the result of the session that was asked for.
Fits(r, x) == IF x = Watchdog THEN ~Owing(r) ELSE x = asked[r][call[r]]

\* At most one of these will answer the current call: the goroutine in its wait or the snapshot
\* it has left, somebody who has claimed the snapshot, or a resume that waits.
OneAnswer(r) ==
  /\ snapshot[r] # 0 => /\ pc[r] \in {"mark", "wait", "off"} /\ snapshot[r] = call[r] /\ Len(asked[r]) = call[r]
                        /\ resumes[r] = {} /\ \A d \in Callers : ~Awaits(d, r)
  /\ \A d \in Callers : Awaits(d, r) =>
       /\ pc[r] = "off" /\ claim[d].call = call[r] /\ Len(asked[r]) = call[r] /\ resumes[r] = {}
       /\ \A e \in Callers : Awaits(e, r) => e = d
       /\ Fits(r, claim[d].res)
  /\ \A x \in resumes[r] :
       /\ pc[r] = "off" /\ x.call = call[r] /\ Len(asked[r]) = call[r] /\ resumes[r] = {x}
       /\ Fits(r, x.res) /\ (x.res # Watchdog => <<r, x.res>> \in told)
  /\ chan[r] # None => chan[r] = asked[r][call[r]] /\ <<r, chan[r]>> \in told

\* What the runner owes a run it was given before, or it is of the session asked for last; once
\* the run asks for the next one, it was given everything.
Told(r) ==
  /\ \A s \in Sessions : Owed(r, s) => <<r, s>> \in told \/ (asked[r] # <<>> /\ s = asked[r][Len(asked[r])])
  /\ pc[r] = "next" /\ ~ctxDone[r] => \A s \in Sessions : Owed(r, s) => <<r, s>> \in told

Sure(r) == Answered(r) /\ OneAnswer(r) /\ Told(r)

Good(r) == Placed(r) /\ Answerable(r) /\ (r \notin unsure => Sure(r))

WaitInv == RunnerInv /\ RunShapes /\ \A r \in Runs : Good(r)

\* What a step leaves alone of a run, as far as its answers are concerned, and altogether.
SureSame(q) ==
  /\ snapshot'[q] = snapshot[q] /\ chan'[q] = chan[q] /\ resumes'[q] = resumes[q]
  /\ pc'[q] = pc[q] /\ call'[q] = call[q] /\ (ctxDone[q] => ctxDone'[q])
  /\ asked'[q] = asked[q] /\ answers'[q] = answers[q]
  /\ \A d \in Callers : claim'[d] = claim[d] \/ (claim[d].run # q /\ claim'[d].run # q)
  /\ \A x \in Results : <<q, x>> \in told' <=> <<q, x>> \in told

Same(q) ==
  /\ SureSame(q)
  /\ status'[q] = status[q] /\ ctxDone'[q] = ctxDone[q]
  /\ (q \in registry' <=> q \in registry) /\ (q \in cancelled' <=> q \in cancelled)
  /\ q \in unsure => q \in unsure'

\* The runner owes run q nothing that it did not owe it before.
NoMore(q) == (\A s \in Sessions : Owed(q, s)' => Owed(q, s)) /\ (Owing(q)' => Owing(q))

(* -------------------------------- The runner ------------------------------ *)

\* A list with somebody on it is not empty.
LEMMA NotEmpty ==
  ASSUME NEW r, NEW subs \in Seq(Runs), Listed(r, subs)
  PROVE  subs # <<>>
BY DEF Listed

\* The types of the parts, as the steps need them.
LEMMA Shapes ==
  ASSUME RunnerInv
  PROVE  /\ sessions \in Seq(SessionRow) /\ Len(sessions) \in 0..MaxSessions
         /\ DOMAIN sessions = 1..Len(sessions) /\ DOMAIN sessions \subseteq Sessions
         /\ \A s \in DOMAIN sessions : sessions[s] \in SessionRow
         /\ post \in [Senders -> PostRow] /\ journal \in [Keys -> JournalRow]
         /\ Sessions \subseteq Senders /\ Recovery \in Senders /\ MaxSessions \in Nat
         /\ 0..Len(sessions) \subseteq Sessions \cup {None}
<1>1. sessions \in Seq(SessionRow)
  BY DEF RunnerInv, RunnerTypeOK, SessionRow
<1>2. Len(sessions) \in Nat /\ DOMAIN sessions = 1..Len(sessions)
  BY <1>1, LenProperties
<1>3. \A s \in DOMAIN sessions : sessions[s] \in SessionRow
  BY <1>1, <1>2, ElementOfSeq
<1>4. MaxSessions \in Nat /\ Len(sessions) <= MaxSessions /\ MaxFaults \in Nat
  BY RunnerAssumption DEF RunnerInv, RunnerTypeOK
<1>5. post \in [Senders -> PostRow] /\ journal \in [Keys -> JournalRow]
  BY DEF RunnerInv, RunnerTypeOK, PostRow, JournalRow
<1>6. crashes \in 0..MaxFaults
  BY <1>4 DEF RunnerInv, RunnerTypeOK
<1>7. Recovery \in Senders /\ Sessions \subseteq Senders
  BY <1>4, <1>6 DEF Recovery, Senders, Sessions
<1>8. Len(sessions) \in 0..MaxSessions /\ DOMAIN sessions \subseteq Sessions
      /\ 0..Len(sessions) \subseteq Sessions \cup {None}
  BY <1>2, <1>4 DEF Sessions, None
<1> QED BY <1>1, <1>2, <1>3, <1>4, <1>5, <1>7, <1>8

\* Who is owed something is owed the result of some session.
LEMMA OwesSession ==
  ASSUME RunnerInv, NEW r \in Runs
  PROVE  Owes(r) <=> Owing(r)
<1> USE Shapes
<1>1. ASSUME NEW s \in DOMAIN sessions PROVE (Live(s) /\ Subscribed(r, s)) <=> (sessions[s].pc = "work" /\ Listed(r, sessions[s].subs))
  BY DEF Live, Subscribed, Listed, None
<1>2. ASSUME NEW d \in Senders, Listed(r, post[d].subs) PROVE post[d].sid \in Sessions
  <2>1. post[d].subs \in Seq(Runs) /\ post[d].sid \in 0..Len(sessions)
    BY DEF PostRow
  <2>2. post[d].subs # <<>>
    BY <2>1, <1>2, NotEmpty
  <2> QED BY <2>1, <2>2 DEF RunnerInv
<1>3. ASSUME NEW k \in Keys, Listed(r, journal[k].subs) PROVE journal[k].sid \in Sessions
  <2>1. journal[k].subs \in Seq(Runs) /\ journal[k].sid \in 0..Len(sessions)
    BY DEF JournalRow
  <2>2. journal[k].subs # <<>>
    BY <2>1, <1>3, NotEmpty
  <2> QED BY <2>1, <2>2 DEF RunnerInv
<1>4. Owes(r) <=> \/ \E s \in DOMAIN sessions : sessions[s].pc = "work" /\ Listed(r, sessions[s].subs)
                  \/ \E d \in Senders : Listed(r, post[d].subs)
                  \/ \E k \in Keys : Listed(r, journal[k].subs)
  BY <1>1 DEF Owes, Listed
<1> QED BY <1>1, <1>2, <1>3, <1>4 DEF Owed, Owing

\* What a sender has still to post gets less with every attempt.
LEMMA PostLess ==
  ASSUME NEW p \in [sid : Nat, subs : Seq(Runs), tries : 0..(MaxTries - 1)], p.subs # <<>>,
         NEW p2 \in {Posted(p), Missed(p)}
  PROVE  /\ p2 \in [sid : Nat, subs : Seq(Runs), tries : 0..(MaxTries - 1)]
         /\ p2.sid = p.sid
         /\ \A r : Listed(r, p2.subs) => Listed(r, p.subs)
<1>1. MaxTries \in Nat \ {0}
  BY RunnerAssumption
<1>2. Tail(p.subs) \in Seq(Runs)
  BY HeadTailProperties
<1>3. \A r : Listed(r, Tail(p.subs)) => Listed(r, p.subs)
  <2>1. Len(Tail(p.subs)) = Len(p.subs) - 1 /\ \A i \in 1..Len(Tail(p.subs)) : Tail(p.subs)[i] = p.subs[i + 1]
    BY HeadTailProperties
  <2>2. DOMAIN Tail(p.subs) = 1..Len(Tail(p.subs)) /\ DOMAIN p.subs = 1..Len(p.subs) /\ Len(p.subs) \in Nat
    BY <1>2, LenProperties
  <2> QED BY <2>1, <2>2 DEF Listed
<1>4. Posted(p) = [sid |-> p.sid, subs |-> Tail(p.subs), tries |-> 0]
  <2> DEFINE t == Tail(p.subs)
  <2>1. Posted(p) = [p EXCEPT !.subs = t, !.tries = 0]
    BY DEF Posted
  <2> HIDE DEF t
  <2>2. Posted(p) = [sid |-> p.sid, subs |-> t, tries |-> 0]
    BY <2>1
  <2> QED BY <2>2 DEF t
<1>5. CASE p2 = Posted(p)
  BY <1>5, <1>1, <1>2, <1>3, <1>4
<1>6. CASE p2 = [p EXCEPT !.tries = @ + 1] /\ p.tries + 1 # MaxTries
  <2>1. p.tries + 1 \in 0..(MaxTries - 1)
    BY <1>6, <1>1
  <2>2. p2 = [sid |-> p.sid, subs |-> p.subs, tries |-> p.tries + 1]
    BY <1>6
  <2> QED BY <2>1, <2>2
<1> QED BY <1>5, <1>6 DEF Missed

\* One sender's list gets shorter, or stays as it is.
LEMMA PostKeeps ==
  ASSUME RunnerInv, faults' \in 0..MaxFaults, faults' >= faults,
         UNCHANGED <<sessions, current, journal, todo, stopped, crashes>>,
         NEW d \in Senders,
         \/ UNCHANGED post
         \/ /\ post[d].subs # <<>>
            /\ post' = [post EXCEPT ![d] = Posted(@)] \/ post' = [post EXCEPT ![d] = Missed(@)]
  PROVE  RunnerInv' /\ OwesLess /\ \A e \in Senders : post'[e].sid = post[e].sid
<1> USE Shapes
<1> DEFINE Less(p2, p) == /\ p2 \in PostRow /\ p2.sid = p.sid
                          /\ \A r : Listed(r, p2.subs) => Listed(r, p.subs)
                          /\ p2.subs # <<>> => p.subs # <<>>
<1>1. \A e \in Senders : Less(post'[e], post[e])
  <2>1. \A e \in Senders : Less(post[e], post[e])
    OBVIOUS
  <2>2. CASE UNCHANGED post
    BY <2>1, <2>2
  <2>3. ASSUME NEW p2 \in {Posted(post[d]), Missed(post[d])}, post' = [post EXCEPT ![d] = p2], post[d].subs # <<>>
        PROVE  \A e \in Senders : Less(post'[e], post[e])
    <3>1. post[d] \in [sid : Nat, subs : Seq(Runs), tries : 0..(MaxTries - 1)] /\ post[d].sid \in 0..Len(sessions)
      BY DEF PostRow
    <3>a. /\ p2 \in [sid : Nat, subs : Seq(Runs), tries : 0..(MaxTries - 1)]
          /\ p2.sid = post[d].sid
          /\ \A r : Listed(r, p2.subs) => Listed(r, post[d].subs)
      BY <2>3, <3>1, PostLess
    <3>2. Less(p2, post[d])
      BY <2>3, <3>1, <3>a DEF PostRow
    <3> HIDE DEF Less
    <3>3. post'[d] = p2 /\ \A e \in Senders \ {d} : post'[e] = post[e]
      BY <2>3
    <3> QED BY <2>1, <3>2, <3>3
  <2> QED BY <2>2, <2>3
<1>2. post' \in [Senders -> PostRow]
  <2>1. DOMAIN post' = Senders
    BY DEF PostRow
  <2>2. post' = [e \in Senders |-> post'[e]]
    BY <2>1
  <2> QED BY <1>1, <2>2
<1>3. RunnerTypeOK'
  <2>1. sessions' = sessions /\ current' = current /\ journal' = journal /\ todo' = todo /\ stopped' = stopped
        /\ crashes' = crashes
    OBVIOUS
  <2>2. crashes' \in 0..faults' /\ faults' \in 0..MaxFaults
    BY <2>1, RunnerAssumption DEF RunnerInv, RunnerTypeOK
  <2>3. post' \in [Senders -> [sid : 0..Len(sessions'), subs : Seq(Runs), tries : 0..(MaxTries - 1)]]
    BY <2>1, <1>2 DEF PostRow
  <2> QED BY <2>1, <2>2, <2>3 DEF RunnerInv, RunnerTypeOK
<1>a. RunnerInv'
  BY <1>1, <1>3 DEF RunnerInv
<1>4. OwesLess
  BY <1>1 DEF OwesLess, Owed
<1> QED BY <1>1, <1>a, <1>4

\* The parts that a step of the runner leaves alone keep their types.
LEMMA RunnerTyped ==
  ASSUME RunnerInv, faults' \in 0..MaxFaults, crashes' \in 0..faults',
         sessions' \in Seq(SessionRow), Len(sessions') \in Len(sessions)..MaxSessions,
         current' \in [Keys -> 0..Len(sessions')], journal' \in [Keys -> JournalRow'], post' \in [Senders -> PostRow'],
         todo' \subseteq Keys, stopped' \subseteq Sessions \X Runs,
         \A d \in Senders : post'[d].subs # <<>> => post'[d].sid # None,
         \A k \in Keys : journal'[k].subs # <<>> => journal'[k].sid # None
  PROVE  RunnerInv'
<1>1. MaxSessions \in Nat
  BY RunnerAssumption
<1>2. Len(sessions') <= MaxSessions
  BY <1>1, Shapes
<1> QED BY <1>2 DEF RunnerInv, RunnerTypeOK, SessionRow, JournalRow, PostRow

\* A session that nobody waited for yet has a number, and a request is owed its result.
LEMMA LaunchKeeps ==
  ASSUME RunnerInv, NEW k \in Keys, NEW r \in Runs, HandleLaunch(k, r), faults' \in 0..MaxFaults, faults' >= faults
  PROVE  /\ RunnerInv' /\ Assigned(k) \in Sessions
         /\ \A q \in Runs, s \in Sessions : Owed(q, s)' => Owed(q, s) \/ (q = r /\ s = Assigned(k))
<1> USE Shapes
<1>0. current \in [Keys -> 0..Len(sessions)] /\ crashes \in 0..faults' /\ todo \subseteq Keys
      /\ stopped \subseteq Sessions \X Runs
  BY RunnerAssumption DEF RunnerInv, RunnerTypeOK
<1>1. CASE JoinSession(k, r)
  <2> DEFINE s == current[k]
             subs == IF Subscribed(r, s) THEN sessions[s].subs ELSE Append(sessions[s].subs, r)
             row == [sessions[s] EXCEPT !.subs = subs]
  <2>1. s \in DOMAIN sessions /\ s \in Sessions /\ sessions[s].pc = "work" /\ Assigned(k) = s
    BY <1>0, <1>1 DEF JoinSession, Joinable, Live, Assigned, None
  <2>2. sessions[s].subs \in Seq(Runs)
    BY <2>1 DEF SessionRow
  <2>3. subs \in Seq(Runs) /\ \A q : Listed(q, subs) => Listed(q, sessions[s].subs) \/ q = r
    <3>1. CASE Subscribed(r, s)
      BY <2>2, <3>1
    <3>2. CASE ~Subscribed(r, s)
      <4> DEFINE more == Append(sessions[s].subs, r)
      <4>1. more \in Seq(Runs) /\ Len(more) = Len(sessions[s].subs) + 1
            /\ (\A i \in 1..Len(sessions[s].subs) : more[i] = sessions[s].subs[i])
            /\ more[Len(sessions[s].subs) + 1] = r
        BY <2>2, AppendProperties
      <4>2. DOMAIN more = 1..Len(more) /\ DOMAIN sessions[s].subs = 1..Len(sessions[s].subs)
            /\ Len(sessions[s].subs) \in Nat
        BY <4>1, <2>2, LenProperties
      <4>3. subs = more
        BY <3>2
      <4> HIDE DEF more, subs
      <4>4. ASSUME NEW q, Listed(q, more), q # r PROVE Listed(q, sessions[s].subs)
        <5>1. PICK i \in DOMAIN more : more[i] = q
          BY <4>4 DEF Listed
        <5>2. i \in 1..Len(sessions[s].subs)
          BY <5>1, <4>1, <4>2, <4>4
        <5> QED BY <5>1, <5>2, <4>1, <4>2 DEF Listed
      <4> QED BY <4>1, <4>3, <4>4
    <3> QED BY <3>1, <3>2
  <2> HIDE DEF subs
  <2>4. row \in SessionRow /\ row.pc = "work" /\ row.subs = subs
    BY <2>1, <2>3 DEF SessionRow
  <2>5. sessions' = [sessions EXCEPT ![s] = row] /\ UNCHANGED <<current, todo, post, stopped, crashes>>
        /\ journal' \in {journal, [journal EXCEPT ![k] = [sid |-> s, subs |-> subs]]}
    BY <1>1 DEF JoinSession, subs
  <2> HIDE DEF row, s
  <2>6. sessions' \in Seq(SessionRow) /\ Len(sessions') = Len(sessions)
        /\ \A j \in 1..Len(sessions) : sessions'[j] = IF j = s THEN row ELSE sessions[j]
    BY <2>1, <2>4, <2>5, ExceptSeq
  <2>7. DOMAIN sessions' = DOMAIN sessions
    BY <2>6, LenProperties
  <2>8. JournalRow' = JournalRow /\ PostRow' = PostRow
    BY <2>6 DEF JournalRow, PostRow
  <2>9. [sid |-> s, subs |-> subs] \in JournalRow
    BY <2>1, <2>3 DEF JournalRow
  <2>10. journal' \in [Keys -> JournalRow]
         /\ \A x \in Keys : journal'[x] = journal[x] \/ journal'[x] = [sid |-> s, subs |-> subs]
    BY <2>5, <2>9
  <2>11. s # None
    BY <2>1 DEF Sessions, None
  <2>12. RunnerInv'
    <3>1. \A x \in Keys : journal'[x].subs # <<>> => journal'[x].sid # None
      BY <2>10, <2>11 DEF RunnerInv
    <3> QED BY <2>5, <2>6, <2>8, <2>10, <3>1, <1>0, RunnerTyped DEF RunnerInv
  <2>13. ASSUME NEW q \in Runs, NEW t \in Sessions, Owed(q, t)' PROVE Owed(q, t) \/ (q = r /\ t = s)
    <3>1. CASE t \in DOMAIN sessions' /\ sessions'[t].pc = "work" /\ Listed(q, sessions'[t].subs)
      BY <3>1, <2>1, <2>3, <2>4, <2>6, <2>7 DEF Owed
    <3>2. CASE \E d \in Senders : post'[d].sid = t /\ Listed(q, post'[d].subs)
      BY <3>2, <2>5 DEF Owed
    <3>3. CASE \E x \in Keys : journal'[x].sid = t /\ Listed(q, journal'[x].subs)
      BY <3>3, <2>1, <2>3, <2>10 DEF Owed
    <3> QED BY <2>13, <3>1, <3>2, <3>3 DEF Owed
  <2> QED BY <2>1, <2>12, <2>13
<1>2. CASE StartSession(k, r)
  <2> DEFINE s == Len(sessions) + 1
             row == [key |-> k, subs |-> <<r>>, pc |-> "work"]
             file == [sid |-> s, subs |-> <<r>>]
  <2>1. s \in Sessions /\ Assigned(k) = s /\ s # None
    BY <1>2 DEF StartSession, Assigned, Sessions, None
  <2>2. <<r>> \in Seq(Runs) /\ \A q : Listed(q, <<r>>) => q = r
    BY DEF Listed
  <2>3. row \in SessionRow
    BY <2>2 DEF SessionRow
  <2>4. sessions' = Append(sessions, row) /\ current' = [current EXCEPT ![k] = s]
        /\ journal' = [journal EXCEPT ![k] = file] /\ UNCHANGED <<todo, post, stopped, crashes>>
    BY <1>2 DEF StartSession
  <2> HIDE DEF row
  <2>5. sessions' \in Seq(SessionRow) /\ Len(sessions') = s
        /\ (\A j \in 1..Len(sessions) : sessions'[j] = sessions[j]) /\ sessions'[s] = row
    BY <2>3, <2>4, AppendProperties
  <2>6. DOMAIN sessions' = DOMAIN sessions \cup {s}
    <3>1. DOMAIN sessions' = 1..Len(sessions')
      BY <2>5, LenProperties
    <3> QED BY <3>1, <2>5
  <2>7. PostRow \subseteq PostRow' /\ JournalRow \subseteq JournalRow' /\ file \in JournalRow'
        /\ 0..Len(sessions) \subseteq 0..Len(sessions') /\ s \in 0..Len(sessions')
    BY <2>5, <2>2 DEF PostRow, JournalRow
  <2> HIDE DEF file, s
  <2>8. journal' \in [Keys -> JournalRow'] /\ \A x \in Keys : journal'[x] = journal[x] \/ journal'[x] = file
    BY <2>4, <2>7
  <2>9. post' \in [Senders -> PostRow'] /\ current' \in [Keys -> 0..Len(sessions')]
    BY <2>4, <2>7, <1>0
  <2>10. file.sid = s /\ file.subs = <<r>>
    BY DEF file
  <2>11. RunnerInv'
    <3>1. \A x \in Keys : journal'[x].subs # <<>> => journal'[x].sid # None
      BY <2>1, <2>8, <2>10 DEF RunnerInv
    <3>2. Len(sessions') \in Len(sessions)..MaxSessions
      BY <2>1, <2>5 DEF s, Sessions
    <3> QED BY <2>4, <2>5, <2>8, <2>9, <3>1, <3>2, <1>0, RunnerTyped DEF RunnerInv
  <2>12. ASSUME NEW q \in Runs, NEW t \in Sessions, Owed(q, t)' PROVE Owed(q, t) \/ (q = r /\ t = s)
    <3>1. CASE t \in DOMAIN sessions' /\ sessions'[t].pc = "work" /\ Listed(q, sessions'[t].subs)
      BY <3>1, <2>2, <2>5, <2>6 DEF Owed, row
    <3>2. CASE \E d \in Senders : post'[d].sid = t /\ Listed(q, post'[d].subs)
      BY <3>2, <2>4 DEF Owed
    <3>3. CASE \E x \in Keys : journal'[x].sid = t /\ Listed(q, journal'[x].subs)
      BY <3>3, <2>2, <2>8, <2>10 DEF Owed
    <3> QED BY <2>12, <3>1, <3>2, <3>3 DEF Owed
  <2> QED BY <2>1, <2>11, <2>12
<1> QED BY <1>1, <1>2 DEF HandleLaunch

\* The steps of a session and of the recovery owe a run nothing new.
LEMMA SessionKeeps ==
  ASSUME RunnerInv, NEW s \in Sessions, SessionStep(s)
  PROVE  RunnerInv' /\ OwesLess
<1> USE Shapes
<1>0. current \in [Keys -> 0..Len(sessions)] /\ crashes \in 0..faults /\ todo \subseteq Keys
      /\ stopped \subseteq Sessions \X Runs /\ faults \in 0..MaxFaults /\ s \in Senders /\ s # None
  <2>1. s # None
    BY RunnerAssumption DEF Sessions, None
  <2> QED BY <2>1 DEF RunnerInv, RunnerTypeOK
<1>1. s \in DOMAIN sessions /\ sessions[s].subs \in Seq(Runs) /\ sessions[s].key \in Keys /\ s \in 0..Len(sessions)
  BY DEF SessionStep, FinishSession, CleanSession, SessionRow
<1>2. ASSUME NEW p \in {"post", "off"}, sessions' = [sessions EXCEPT ![s].pc = p]
      PROVE  /\ sessions' \in Seq(SessionRow) /\ Len(sessions') = Len(sessions)
             /\ PostRow' = PostRow /\ JournalRow' = JournalRow
             /\ \A t : t \in DOMAIN sessions' /\ sessions'[t].pc = "work" =>
                         t \in DOMAIN sessions /\ sessions'[t] = sessions[t]
  <2> DEFINE row == [sessions[s] EXCEPT !.pc = p]
  <2>1. row \in SessionRow /\ row.pc = p
    BY <1>1 DEF SessionRow
  <2> HIDE DEF row
  <2>2. sessions' = [sessions EXCEPT ![s] = row]
    BY <1>2 DEF row
  <2>3. sessions' \in Seq(SessionRow) /\ Len(sessions') = Len(sessions)
        /\ \A j \in 1..Len(sessions) : sessions'[j] = IF j = s THEN row ELSE sessions[j]
    BY <1>1, <2>1, <2>2, ExceptSeq
  <2>4. DOMAIN sessions' = 1..Len(sessions)
    BY <2>3, LenProperties
  <2>5. PostRow' = PostRow /\ JournalRow' = JournalRow
    BY <2>3 DEF PostRow, JournalRow
  <2> QED BY <2>1, <2>3, <2>4, <2>5
<1>3. CASE FinishSession(s)
  <2> DEFINE row == [sid |-> s, subs |-> sessions[s].subs, tries |-> 0]
  <2>1. row \in PostRow /\ row.sid = s /\ row.subs = sessions[s].subs
    BY <1>1, RunnerAssumption DEF PostRow
  <2> HIDE DEF row
  <2>2. sessions' = [sessions EXCEPT ![s].pc = "post"] /\ post' = [post EXCEPT ![s] = row]
        /\ UNCHANGED <<current, journal, todo, stopped, crashes, faults>>
    BY <1>3 DEF FinishSession, row
  <2>3. post' \in [Senders -> PostRow'] /\ post'[s] = row /\ \A d \in Senders \ {s} : post'[d] = post[d]
    BY <2>1, <2>2, <1>0, <1>2
  <2>4. \A d \in Senders : post'[d].subs # <<>> => post'[d].sid # None
    BY <2>1, <2>3, <1>0 DEF RunnerInv
  <2>5. RunnerInv'
    BY <2>2, <2>3, <2>4, <1>0, <1>2, RunnerTyped DEF RunnerInv
  <2>6. ASSUME NEW q \in Runs, NEW t \in Sessions, Owed(q, t)' PROVE Owed(q, t)
    <3>1. sessions[s].pc = "work"
      BY <1>3 DEF FinishSession
    <3> QED BY <2>1, <2>2, <2>3, <2>6, <3>1, <1>1, <1>2 DEF Owed
  <2> QED BY <2>5, <2>6 DEF OwesLess
<1>4. CASE CleanSession(s)
  <2> DEFINE k == sessions[s].key
  <2>1. NoPost \in PostRow /\ NoPost.subs = <<>> /\ NoJournal \in JournalRow /\ NoJournal.subs = <<>>
    BY RunnerAssumption DEF PostRow, JournalRow, NoPost, NoJournal, None
  <2>2. sessions' = [sessions EXCEPT ![s].pc = "off"] /\ post' = [post EXCEPT ![s] = NoPost]
        /\ journal' = [journal EXCEPT ![k] = NoJournal]
        /\ UNCHANGED <<current, todo, stopped, crashes, faults>>
    BY <1>4 DEF CleanSession
  <2>3. post' \in [Senders -> PostRow'] /\ post'[s] = NoPost /\ \A d \in Senders \ {s} : post'[d] = post[d]
    BY <2>1, <2>2, <1>0, <1>2
  <2>4. journal' \in [Keys -> JournalRow'] /\ journal'[k] = NoJournal /\ \A x \in Keys \ {k} : journal'[x] = journal[x]
    BY <2>1, <2>2, <1>1, <1>2
  <2>5. /\ \A d \in Senders : post'[d].subs # <<>> => post'[d].sid # None
        /\ \A x \in Keys : journal'[x].subs # <<>> => journal'[x].sid # None
    BY <2>1, <2>3, <2>4 DEF RunnerInv
  <2>6. RunnerInv'
    BY <2>2, <2>3, <2>4, <2>5, <1>0, <1>2, RunnerTyped DEF RunnerInv
  <2>7. \A q : ~Listed(q, <<>>)
    BY DEF Listed
  <2>8. ASSUME NEW q \in Runs, NEW t \in Sessions, Owed(q, t)' PROVE Owed(q, t)
    BY <2>1, <2>2, <2>3, <2>4, <2>7, <2>8, <1>1, <1>2 DEF Owed
  <2> QED BY <2>6, <2>8 DEF OwesLess
<1> QED BY <1>3, <1>4 DEF SessionStep

\* What changes besides the sessions: one sender's list and one file of the journal.
LEMMA RecoveryKeeps ==
  ASSUME RunnerInv, RecoveryStep
  PROVE  RunnerInv' /\ OwesLess
<1> USE Shapes
<1>0. current \in [Keys -> 0..Len(sessions)] /\ crashes \in 0..faults /\ todo \subseteq Keys
      /\ stopped \subseteq Sessions \X Runs /\ faults \in 0..MaxFaults
  BY RunnerAssumption DEF RunnerInv, RunnerTypeOK
<1>1. NoPost \in PostRow /\ NoPost.subs = <<>> /\ NoJournal \in JournalRow /\ NoJournal.subs = <<>>
      /\ \A q : ~Listed(q, <<>>)
  BY RunnerAssumption DEF PostRow, JournalRow, NoPost, NoJournal, None, Listed
<1>2. PICK k \in Keys : ReadJournal(k) \/ RemoveJournal(k)
  BY DEF RecoveryStep
<1>3. UNCHANGED <<sessions, current, stopped, crashes, faults>> /\ PostRow' = PostRow /\ JournalRow' = JournalRow
      /\ todo' \subseteq Keys
  BY <1>0, <1>2 DEF ReadJournal, RemoveJournal, PostRow, JournalRow
<1>4. CASE ReadJournal(k)
  <2> DEFINE row == [sid |-> journal[k].sid, subs |-> journal[k].subs, tries |-> 0]
  <2>1. journal[k] \in JournalRow
    OBVIOUS
  <2>2. row \in PostRow /\ row.sid = journal[k].sid /\ row.subs = journal[k].subs
    BY <2>1, RunnerAssumption DEF PostRow, JournalRow
  <2> HIDE DEF row
  <2>3. (post' = post \/ post' = [post EXCEPT ![Recovery] = row]) /\ journal' = journal
    BY <1>4 DEF ReadJournal, row
  <2>4. post' \in [Senders -> PostRow'] /\ \A d \in Senders : post'[d] = post[d] \/ post'[d] = row
    BY <2>2, <2>3, <1>3
  <2>5. \A d \in Senders : post'[d].subs # <<>> => post'[d].sid # None
    BY <2>2, <2>4 DEF RunnerInv
  <2>6. RunnerInv'
    BY <2>3, <2>4, <2>5, <1>0, <1>3, RunnerTyped DEF RunnerInv
  <2>7. ASSUME NEW q \in Runs, NEW t \in Sessions, Owed(q, t)' PROVE Owed(q, t)
    BY <2>2, <2>3, <2>4, <2>7, <1>3 DEF Owed
  <2> QED BY <2>6, <2>7 DEF OwesLess
<1>5. CASE RemoveJournal(k)
  <2>1. post' = [post EXCEPT ![Recovery] = NoPost] /\ journal' = [journal EXCEPT ![k] = NoJournal]
    BY <1>5 DEF RemoveJournal
  <2>2. post' \in [Senders -> PostRow'] /\ \A d \in Senders : post'[d] = post[d] \/ post'[d] = NoPost
    BY <2>1, <1>1, <1>3
  <2>3. journal' \in [Keys -> JournalRow'] /\ \A x \in Keys : journal'[x] = journal[x] \/ journal'[x] = NoJournal
    BY <2>1, <1>1, <1>3
  <2>4. /\ \A d \in Senders : post'[d].subs # <<>> => post'[d].sid # None
        /\ \A x \in Keys : journal'[x].subs # <<>> => journal'[x].sid # None
    BY <2>2, <2>3, <1>1 DEF RunnerInv
  <2>5. RunnerInv'
    BY <2>2, <2>3, <2>4, <1>0, <1>3, RunnerTyped DEF RunnerInv
  <2>6. ASSUME NEW q \in Runs, NEW t \in Sessions, Owed(q, t)' PROVE Owed(q, t)
    BY <2>2, <2>3, <2>6, <1>1, <1>3 DEF Owed
  <2> QED BY <2>5, <2>6 DEF OwesLess
<1> QED BY <1>2, <1>4, <1>5

\* A crash drops what was still to be posted, and the sessions that ran; the journal stays.
LEMMA CrashKeeps ==
  ASSUME RunnerInv, CrashRunner
  PROVE  RunnerInv' /\ OwesLess
<1> USE Shapes
<1>0. stopped \subseteq Sessions \X Runs /\ faults' \in 0..MaxFaults /\ crashes' \in 0..faults'
  <2>1. crashes \in 0..faults /\ faults \in 0..MaxFaults /\ MaxFaults \in Nat
    BY RunnerAssumption DEF RunnerInv, RunnerTypeOK
  <2>2. faults' = faults + 1 /\ faults < MaxFaults /\ crashes' = crashes + 1
    BY DEF CrashRunner, Fault
  <2>3. faults' \in 0..MaxFaults /\ crashes' \in 0..faults'
    BY <2>1, <2>2
  <2> QED BY <2>3 DEF RunnerInv, RunnerTypeOK
<1>1. NoPost.subs = <<>> /\ NoPost \in PostRow /\ \A q : ~Listed(q, <<>>)
  BY RunnerAssumption DEF PostRow, NoPost, None, Listed
<1>2. sessions' = [s \in DOMAIN sessions |-> [sessions[s] EXCEPT !.pc = "off"]]
  BY DEF CrashRunner
<1>3. \A s \in DOMAIN sessions : sessions'[s] \in SessionRow /\ sessions'[s].pc = "off"
  BY <1>2 DEF SessionRow
<1>4. DOMAIN sessions' = 1..Len(sessions) /\ Len(sessions) \in Nat
  BY <1>2
<1>5. sessions' \in [1..Len(sessions) -> SessionRow]
  BY <1>2, <1>3, <1>4
<1>6. sessions' \in Seq(SessionRow)
  BY <1>4, <1>5, SeqDef
<1>7. Len(sessions') = Len(sessions)
  BY <1>4, <1>6, LenProperties
<1>8. PostRow' = PostRow /\ JournalRow' = JournalRow
  BY <1>7 DEF PostRow, JournalRow
<1>9. post' \in [Senders -> PostRow'] /\ \A d \in Senders : post'[d] = NoPost
  BY <1>1, <1>8 DEF CrashRunner
<1>10. current' \in [Keys -> 0..Len(sessions')] /\ todo' \subseteq Keys /\ UNCHANGED <<journal, stopped>>
  BY <1>4, <1>7 DEF CrashRunner, None
<1>11. RunnerInv'
  BY <1>0, <1>1, <1>6, <1>7, <1>8, <1>9, <1>10, RunnerTyped DEF RunnerInv
<1>12. OwesLess
  BY <1>1, <1>3, <1>4, <1>9, <1>10 DEF OwesLess, Owed
<1> QED BY <1>11, <1>12

(* --------------------------------- One run -------------------------------- *)

\* The bounds of the two indexes, with one run's written.
LEMMA CallsTyped ==
  ASSUME RunShapes, NEW r \in Runs, snapshot'[r] \in 0..Len(Plan[r]), saved'[r] \in 0..Len(Plan[r]),
         \A q \in Runs \ {r} : snapshot'[q] = snapshot[q] /\ saved'[q] = saved[q]
  PROVE  \A q \in Runs : {snapshot'[q], saved'[q]} \subseteq 0..Len(Plan[q])
<1>1. \A q \in Runs : {snapshot[q], saved[q]} \subseteq 0..Len(Plan[q])
  BY DEF RunShapes, TypeOK
<1>2. \A q \in Runs \ {r} : {snapshot'[q], saved'[q]} = {snapshot[q], saved[q]}
  OBVIOUS
<1>3. \A q \in Runs \ {r} : {snapshot'[q], saved'[q]} \subseteq 0..Len(Plan[q])
  BY <1>1, <1>2
<1>4. {snapshot'[r], saved'[r]} \subseteq 0..Len(Plan[r])
  OBVIOUS
<1> QED BY <1>3, <1>4

\* Some facts about the sets of results and of callers.
LEMMA ResultSets == Sessions \subseteq Results /\ {Watchdog, Error} \subseteq Results /\ 0..MaxSessions \subseteq Results
  /\ Watchdog \in Callers /\ Senders \subseteq Callers /\ Watchdog \notin Senders /\ Watchdog \notin 0..MaxSessions
  /\ Error # Watchdog /\ Error \notin 0..MaxSessions
BY RunnerAssumption DEF Sessions, Results, Watchdog, Error, Callers, Senders

\* The facts about a run's answers hold on while what they are about stays as it is.
LEMMA SureKept ==
  ASSUME RunShapes, RunShapes', NEW q \in Runs, Sure(q), SureSame(q), NoMore(q)
  PROVE  Sure(q)'
<1>0. Sessions \subseteq Results
  BY ResultSets
<1>1. \A d \in Callers : claim[d].res \in Results /\ claim'[d].res \in Results
  BY DEF RunShapes, TypeOK
<1>2. \A d \in Callers : Awaits(d, q)' <=> Awaits(d, q)
  BY <1>1 DEF SureSame, Awaits
<1>3. \A d \in Callers : Awaits(d, q) => claim'[d] = claim[d]
  BY DEF SureSame, Awaits
<1>4. \A x : Fits(q, x) => Fits(q, x)'
  BY DEF SureSame, NoMore, Fits
<1>5. Answered(q)'
  BY DEF SureSame, Sure, Answered
<1>6. (\A x \in resumes[q] : x.res \in Results) /\ chan[q] \in Results
  BY ResultSets DEF RunShapes, TypeOK, Entry
<1>7. OneAnswer(q)'
  <2>1. snapshot'[q] # 0 =>
          /\ pc'[q] \in {"mark", "wait", "off"} /\ snapshot'[q] = call'[q] /\ Len(asked'[q]) = call'[q]
          /\ resumes'[q] = {} /\ \A d \in Callers : ~Awaits(d, q)'
    BY <1>2 DEF SureSame, Sure, OneAnswer
  <2>2. \A d \in Callers : Awaits(d, q)' =>
          /\ pc'[q] = "off" /\ claim'[d].call = call'[q] /\ Len(asked'[q]) = call'[q] /\ resumes'[q] = {}
          /\ \A e \in Callers : Awaits(e, q)' => e = d
          /\ Fits(q, claim[d].res)'
    BY <1>2, <1>3, <1>4 DEF SureSame, Sure, OneAnswer
  <2>3. \A x \in resumes[q] :
          /\ pc'[q] = "off" /\ x.call = call'[q] /\ Len(asked'[q]) = call'[q] /\ resumes'[q] = {x}
          /\ Fits(q, x.res)' /\ (x.res # Watchdog => <<q, x.res>> \in told')
    BY <1>4, <1>6 DEF SureSame, Sure, OneAnswer
  <2>4. chan'[q] # None => chan'[q] = asked'[q][call'[q]] /\ <<q, chan'[q]>> \in told'
    BY <1>6 DEF SureSame, Sure, OneAnswer
  <2>5. resumes'[q] = resumes[q]
    BY DEF SureSame
  <2> QED BY <1>2, <1>3, <2>1, <2>2, <2>3, <2>4, <2>5 DEF OneAnswer
<1>8. Told(q)'
  BY <1>0 DEF SureSame, NoMore, Sure, Told
<1> QED BY <1>5, <1>7, <1>8 DEF Sure

\* A run that a step leaves alone.
LEMMA SameKeeps ==
  ASSUME RunShapes, RunShapes', NEW q \in Runs, Same(q), NoMore(q), Good(q)
  PROVE  Good(q)'
<1>1. Claimed(q)' <=> Claimed(q)
  BY DEF Same, SureSame, Claimed
<1>2. Placed(q)'
  BY <1>1 DEF Same, SureSame, NoMore, Good, Placed
<1>3. Answerable(q)'
  BY <1>1 DEF Same, SureSame, Good, Answerable
<1>4. ASSUME q \notin unsure' PROVE Sure(q)'
  BY <1>4, SureKept DEF Same, Good
<1> QED BY <1>2, <1>3, <1>4 DEF Good

\* A step of one run: the others are left alone.
LEMMA OneRun ==
  ASSUME WaitInv, RunnerInv', RunShapes', NEW r \in Runs, Good(r)',
         \A q \in Runs \ {r} : Same(q) /\ NoMore(q)
  PROVE  WaitInv'
<1>1. ASSUME NEW q \in Runs \ {r} PROVE Good(q)'
  BY SameKeeps DEF WaitInv
<1> QED BY <1>1 DEF WaitInv

\* What the steps of the runner do not add.
LEMMA LessOwed == OwesLess => \A q \in Runs : NoMore(q)
BY DEF OwesLess, NoMore, Owing

\* A fault is counted.
LEMMA FaultCounted ==
  ASSUME WaitInv, Fault
  PROVE  faults' = faults + 1 /\ faults' \in 0..MaxFaults
BY RunnerAssumption DEF Fault, WaitInv, RunnerInv, RunnerTypeOK

\* While the runner does nothing, it owes what it did.
LEMMA RunnerIdle ==
  ASSUME WaitInv, UNCHANGED runnerVars, UNCHANGED faults \/ Fault
  PROVE  RunnerInv' /\ \A q : NoMore(q) /\ (Owing(q)' <=> Owing(q))
<1>1. UNCHANGED <<sessions, current, journal, todo, post, stopped, crashes>>
  BY DEF runnerVars
<1>2. crashes \in 0..faults' /\ faults' \in 0..MaxFaults
  BY FaultCounted DEF WaitInv, RunnerInv, RunnerTypeOK
<1>3. RunnerInv'
  BY <1>1, <1>2 DEF WaitInv, RunnerInv, RunnerTypeOK
<1>4. \A q : (\A s \in Sessions : Owed(q, s)' <=> Owed(q, s)) /\ (Owing(q)' <=> Owing(q))
  BY <1>1 DEF Owed, Owing
<1> QED BY <1>3, <1>4 DEF NoMore

\* What a run was told it was told: until it asks again, nothing is added.
LEMMA ToldKept ==
  ASSUME NEW r \in Runs, Told(r), NoMore(r), asked'[r] = asked[r], told \subseteq told',
         pc'[r] = "next" /\ ~ctxDone'[r] => pc[r] = "next" /\ ~ctxDone[r]
  PROVE  Told(r)'
BY DEF Told, NoMore

\* A call that is not answered is a call of the plan.
LEMMA CallBounds ==
  ASSUME WaitInv, NEW r \in Runs
  PROVE  /\ Len(Plan[r]) \in Nat /\ call[r] \in 1..(Len(Plan[r]) + 1)
         /\ pc[r] \in Busy => call[r] \in 1..Len(Plan[r])
<1>1. Plan[r] \in Seq(Keys)
  BY PlanAssumption
<1>2. Len(Plan[r]) \in Nat
  BY <1>1, LenProperties
<1>3. call[r] \in 1..(Len(Plan[r]) + 1)
  BY DEF WaitInv, RunShapes, TypeOK
<1>4. pc[r] \in Busy => call[r] <= Len(Plan[r])
  BY DEF WaitInv, Good, Placed
<1> QED BY <1>2, <1>3, <1>4

\* The loop is over.
LEMMA FinishKeeps ==
  ASSUME WaitInv, NEW r \in Runs, Finish(r)
  PROVE  WaitInv'
<1>2. RunnerInv' /\ \A q : NoMore(q) /\ (Owing(q)' <=> Owing(q))
  BY RunnerIdle DEF Finish
<1>3. RunShapes'
  BY <1>2 DEF WaitInv, RunShapes, TypeOK, Finish, Goto, histVars, cancelVars, Status, RunPC, RunnerInv
<1>4. \A q \in Runs \ {r} : Same(q)
  BY DEF Finish, Goto, Same, SureSame, histVars, cancelVars, WaitInv, RunShapes, TypeOK
<1>5. Good(r)
  BY DEF WaitInv
<1>6. pc[r] = "next" /\ pc'[r] = "off"
  BY DEF Finish, Goto, WaitInv, RunShapes, TypeOK
<1>7. Placed(r)'
  BY <1>5, <1>2, <1>6 DEF Finish, Good, Placed, Claimed, Busy, InWait, WaitInv, RunShapes, TypeOK, histVars, cancelVars
<1>8. Answerable(r)'
  BY <1>5, <1>6 DEF Finish, Good, Answerable, Claimed, WaitInv, RunShapes, TypeOK, histVars, cancelVars
<1>9. ASSUME r \notin unsure' PROVE Sure(r)'
  BY <1>5, <1>6, <1>2, <1>9 DEF Finish, Good, NoMore, Sure, Answered, OneAnswer, Told, Fits, Awaits, WaitInv, RunShapes, TypeOK, histVars, cancelVars, Busy
<1> QED BY <1>2, <1>3, <1>4, <1>7, <1>8, <1>9, OneRun DEF Good

\* The key is saved, or not.
LEMMA SaveKeyKeeps ==
  ASSUME WaitInv, NEW r \in Runs, SaveKey(r)
  PROVE  WaitInv'
<1>1. RunnerInv' /\ \A q : NoMore(q) /\ (Owing(q)' <=> Owing(q))
  BY RunnerIdle DEF SaveKey
<1>0. Len(Plan[r]) \in Nat /\ call[r] \in 1..(Len(Plan[r]) + 1) /\ (pc[r] \in Busy => call[r] \in 1..Len(Plan[r]))
  BY CallBounds
<1>2. RunShapes'
  <2>0. snapshot'[r] \in 0..Len(Plan[r]) /\ saved'[r] \in 0..Len(Plan[r]) /\ chan' \in [Runs -> 0..MaxSessions]
    BY <1>0, RunnerAssumption DEF WaitInv, RunShapes, TypeOK, SaveKey, Goto, histVars, cancelVars, None, Busy
  <2>a. \A q \in Runs \ {r} : snapshot'[q] = snapshot[q] /\ saved'[q] = saved[q]
    BY DEF WaitInv, RunShapes, SaveKey, Goto, histVars, cancelVars
  <2>b. \A q \in Runs : {snapshot'[q], saved'[q]} \subseteq 0..Len(Plan[q])
    BY <2>0, <2>a, CallsTyped DEF WaitInv
  <2>1. TypeOK'
    BY <1>1, <1>0, <2>0, <2>b DEF WaitInv, RunShapes, TypeOK, RunnerInv, SaveKey, Goto, histVars, cancelVars, Status, RunPC, Busy
  <2>2. snapshot' \in [Runs -> Nat] /\ saved' \in [Runs -> Nat] /\ call' \in [Runs -> Nat] /\ resumes' \in [Runs -> SUBSET Entry]
    BY <1>0 DEF WaitInv, RunShapes, SaveKey, Goto, histVars, cancelVars
  <2> QED BY <2>1, <2>2 DEF WaitInv, RunShapes, SaveKey, Goto, histVars, cancelVars
<1>3. \A q \in Runs \ {r} : Same(q)
  BY DEF SaveKey, Goto, histVars, cancelVars, Same, SureSame, WaitInv, RunShapes, TypeOK
<1>4. Good(r)
  BY DEF WaitInv
<1>5. Placed(r)'
  BY <1>1, <1>4, RunnerAssumption, OwesSession DEF SaveKey, Goto, histVars, cancelVars, Good, Placed, Claimed, Busy, InWait, WaitInv, RunShapes, TypeOK
<1>6. Answerable(r)'
  BY <1>1, <1>4 DEF SaveKey, Goto, histVars, cancelVars, Good, Placed, Answerable, Claimed, Busy, InWait, WaitInv, RunShapes, TypeOK
<1>7. ASSUME r \notin unsure' PROVE Sure(r)'
  <2>1. Answered(r)'
    BY <1>4, <1>7 DEF SaveKey, Goto, histVars, cancelVars, Good, Placed, Sure, Answered, Busy, WaitInv, RunShapes, TypeOK
  <2>2. OneAnswer(r)'
    BY <1>1, <1>4, <1>7, RunnerAssumption DEF SaveKey, Goto, histVars, cancelVars, Good, Placed, Sure, Answered, OneAnswer, Fits, Awaits, Busy, InWait, WaitInv,
      RunShapes, TypeOK
  <2>3. Told(r)'
    <3>1. Told(r)
      BY <1>4, <1>7 DEF SaveKey, Goto, histVars, cancelVars, Good, Sure
    <3>2. asked'[r] = asked[r] /\ told' = told /\ (pc'[r] = "next" => pc[r] = "next" /\ (~ctxDone'[r] => ~ctxDone[r]))
      BY DEF SaveKey, Goto, histVars, cancelVars, WaitInv, RunShapes, TypeOK
    <3> QED BY <1>1, <3>1, <3>2, ToldKept
  <2> QED BY <2>1, <2>2, <2>3 DEF Sure
<1> QED BY <1>1, <1>2, <1>3, <1>5, <1>6, <1>7, OneRun DEF Good

\* A new channel.
LEMMA RegisterSessionWaitKeeps ==
  ASSUME WaitInv, NEW r \in Runs, RegisterSessionWait(r)
  PROVE  WaitInv'
<1>1. RunnerInv' /\ \A q : NoMore(q) /\ (Owing(q)' <=> Owing(q))
  BY RunnerIdle DEF RegisterSessionWait
<1>0. Len(Plan[r]) \in Nat /\ call[r] \in 1..(Len(Plan[r]) + 1) /\ (pc[r] \in Busy => call[r] \in 1..Len(Plan[r]))
  BY CallBounds
<1>2. RunShapes'
  <2>0. snapshot'[r] \in 0..Len(Plan[r]) /\ saved'[r] \in 0..Len(Plan[r]) /\ chan' \in [Runs -> 0..MaxSessions]
    BY <1>0, RunnerAssumption DEF WaitInv, RunShapes, TypeOK, RegisterSessionWait, Goto, histVars, cancelVars, None, Busy
  <2>a. \A q \in Runs \ {r} : snapshot'[q] = snapshot[q] /\ saved'[q] = saved[q]
    BY DEF WaitInv, RunShapes, RegisterSessionWait, Goto, histVars, cancelVars
  <2>b. \A q \in Runs : {snapshot'[q], saved'[q]} \subseteq 0..Len(Plan[q])
    BY <2>0, <2>a, CallsTyped DEF WaitInv
  <2>1. TypeOK'
    BY <1>1, <1>0, <2>0, <2>b DEF WaitInv, RunShapes, TypeOK, RunnerInv, RegisterSessionWait, Goto, histVars, cancelVars, Status, RunPC, Busy
  <2>2. snapshot' \in [Runs -> Nat] /\ saved' \in [Runs -> Nat] /\ call' \in [Runs -> Nat] /\ resumes' \in [Runs -> SUBSET Entry]
    BY <1>0 DEF WaitInv, RunShapes, RegisterSessionWait, Goto, histVars, cancelVars
  <2> QED BY <2>1, <2>2 DEF WaitInv, RunShapes, RegisterSessionWait, Goto, histVars, cancelVars
<1>3. \A q \in Runs \ {r} : Same(q)
  BY DEF RegisterSessionWait, Goto, histVars, cancelVars, Same, SureSame, WaitInv, RunShapes, TypeOK
<1>4. Good(r)
  BY DEF WaitInv
<1>5. Placed(r)'
  BY <1>1, <1>4, RunnerAssumption, OwesSession DEF RegisterSessionWait, Goto, histVars, cancelVars, Good, Placed, Claimed, Busy, InWait, WaitInv, RunShapes, TypeOK
<1>6. Answerable(r)'
  BY <1>1, <1>4 DEF RegisterSessionWait, Goto, histVars, cancelVars, Good, Placed, Answerable, Claimed, Busy, InWait, WaitInv, RunShapes, TypeOK
<1>7. ASSUME r \notin unsure' PROVE Sure(r)'
  <2>1. Answered(r)'
    BY <1>4, <1>7 DEF RegisterSessionWait, Goto, histVars, cancelVars, Good, Placed, Sure, Answered, Busy, WaitInv, RunShapes, TypeOK
  <2>2. OneAnswer(r)'
    BY <1>1, <1>4, <1>7, RunnerAssumption DEF RegisterSessionWait, Goto, histVars, cancelVars, Good, Placed, Sure, Answered, OneAnswer, Fits, Awaits, Busy, InWait, WaitInv,
      RunShapes, TypeOK
  <2>3. Told(r)'
    <3>1. Told(r)
      BY <1>4, <1>7 DEF RegisterSessionWait, Goto, histVars, cancelVars, Good, Sure
    <3>2. asked'[r] = asked[r] /\ told' = told /\ (pc'[r] = "next" => pc[r] = "next" /\ (~ctxDone'[r] => ~ctxDone[r]))
      BY DEF RegisterSessionWait, Goto, histVars, cancelVars, WaitInv, RunShapes, TypeOK
    <3> QED BY <1>1, <3>1, <3>2, ToldKept
  <2> QED BY <2>1, <2>2, <2>3 DEF Sure
<1> QED BY <1>1, <1>2, <1>3, <1>5, <1>6, <1>7, OneRun DEF Good

\* The snapshot of the current call.
LEMMA SaveWaitStateKeeps ==
  ASSUME WaitInv, NEW r \in Runs, SaveWaitState(r)
  PROVE  WaitInv'
<1>1. RunnerInv' /\ \A q : NoMore(q) /\ (Owing(q)' <=> Owing(q))
  BY RunnerIdle DEF SaveWaitState
<1>0. Len(Plan[r]) \in Nat /\ call[r] \in 1..(Len(Plan[r]) + 1) /\ (pc[r] \in Busy => call[r] \in 1..Len(Plan[r]))
  BY CallBounds
<1>2. RunShapes'
  <2>0. snapshot'[r] \in 0..Len(Plan[r]) /\ saved'[r] \in 0..Len(Plan[r]) /\ chan' \in [Runs -> 0..MaxSessions]
    BY <1>0, RunnerAssumption DEF WaitInv, RunShapes, TypeOK, SaveWaitState, Goto, histVars, cancelVars, None, Busy
  <2>a. \A q \in Runs \ {r} : snapshot'[q] = snapshot[q] /\ saved'[q] = saved[q]
    BY DEF WaitInv, RunShapes, SaveWaitState, Goto, histVars, cancelVars
  <2>b. \A q \in Runs : {snapshot'[q], saved'[q]} \subseteq 0..Len(Plan[q])
    BY <2>0, <2>a, CallsTyped DEF WaitInv
  <2>1. TypeOK'
    BY <1>1, <1>0, <2>0, <2>b DEF WaitInv, RunShapes, TypeOK, RunnerInv, SaveWaitState, Goto, histVars, cancelVars, Status, RunPC, Busy
  <2>2. snapshot' \in [Runs -> Nat] /\ saved' \in [Runs -> Nat] /\ call' \in [Runs -> Nat] /\ resumes' \in [Runs -> SUBSET Entry]
    BY <1>0 DEF WaitInv, RunShapes, SaveWaitState, Goto, histVars, cancelVars
  <2> QED BY <2>1, <2>2 DEF WaitInv, RunShapes, SaveWaitState, Goto, histVars, cancelVars
<1>3. \A q \in Runs \ {r} : Same(q)
  BY DEF SaveWaitState, Goto, histVars, cancelVars, Same, SureSame, WaitInv, RunShapes, TypeOK
<1>4. Good(r)
  BY DEF WaitInv
<1>5. Placed(r)'
  BY <1>1, <1>4, RunnerAssumption, OwesSession DEF SaveWaitState, Goto, histVars, cancelVars, Good, Placed, Claimed, Busy, InWait, WaitInv, RunShapes, TypeOK
<1>6. Answerable(r)'
  BY <1>1, <1>4 DEF SaveWaitState, Goto, histVars, cancelVars, Good, Placed, Answerable, Claimed, Busy, InWait, WaitInv, RunShapes, TypeOK
<1>7. ASSUME r \notin unsure' PROVE Sure(r)'
  <2>1. Answered(r)'
    BY <1>4, <1>7 DEF SaveWaitState, Goto, histVars, cancelVars, Good, Placed, Sure, Answered, Busy, WaitInv, RunShapes, TypeOK
  <2>2. OneAnswer(r)'
    BY <1>1, <1>4, <1>7, RunnerAssumption DEF SaveWaitState, Goto, histVars, cancelVars, Good, Placed, Sure, Answered, OneAnswer, Fits, Awaits, Busy, InWait, WaitInv,
      RunShapes, TypeOK
  <2>3. Told(r)'
    <3>1. Told(r)
      BY <1>4, <1>7 DEF SaveWaitState, Goto, histVars, cancelVars, Good, Sure
    <3>2. asked'[r] = asked[r] /\ told' = told /\ (pc'[r] = "next" => pc[r] = "next" /\ (~ctxDone'[r] => ~ctxDone[r]))
      BY DEF SaveWaitState, Goto, histVars, cancelVars, WaitInv, RunShapes, TypeOK
    <3> QED BY <1>1, <3>1, <3>2, ToldKept
  <2> QED BY <2>1, <2>2, <2>3 DEF Sure
<1> QED BY <1>1, <1>2, <1>3, <1>5, <1>6, <1>7, OneRun DEF Good

\* The run is shown as waiting.
LEMMA MarkWaitKeeps ==
  ASSUME WaitInv, NEW r \in Runs, MarkWait(r)
  PROVE  WaitInv'
<1>1. RunnerInv' /\ \A q : NoMore(q) /\ (Owing(q)' <=> Owing(q))
  BY RunnerIdle DEF MarkWait
<1>0. Len(Plan[r]) \in Nat /\ call[r] \in 1..(Len(Plan[r]) + 1) /\ (pc[r] \in Busy => call[r] \in 1..Len(Plan[r]))
  BY CallBounds
<1>2. RunShapes'
  <2>0. snapshot'[r] \in 0..Len(Plan[r]) /\ saved'[r] \in 0..Len(Plan[r]) /\ chan' \in [Runs -> 0..MaxSessions]
    BY <1>0, RunnerAssumption DEF WaitInv, RunShapes, TypeOK, MarkWait, Goto, histVars, cancelVars, None, Busy
  <2>a. \A q \in Runs \ {r} : snapshot'[q] = snapshot[q] /\ saved'[q] = saved[q]
    BY DEF WaitInv, RunShapes, MarkWait, Goto, histVars, cancelVars
  <2>b. \A q \in Runs : {snapshot'[q], saved'[q]} \subseteq 0..Len(Plan[q])
    BY <2>0, <2>a, CallsTyped DEF WaitInv
  <2>1. TypeOK'
    BY <1>1, <1>0, <2>0, <2>b DEF WaitInv, RunShapes, TypeOK, RunnerInv, MarkWait, Goto, histVars, cancelVars, Status, RunPC, Busy
  <2>2. snapshot' \in [Runs -> Nat] /\ saved' \in [Runs -> Nat] /\ call' \in [Runs -> Nat] /\ resumes' \in [Runs -> SUBSET Entry]
    BY <1>0 DEF WaitInv, RunShapes, MarkWait, Goto, histVars, cancelVars
  <2> QED BY <2>1, <2>2 DEF WaitInv, RunShapes, MarkWait, Goto, histVars, cancelVars
<1>3. \A q \in Runs \ {r} : Same(q)
  BY DEF MarkWait, Goto, histVars, cancelVars, Same, SureSame, WaitInv, RunShapes, TypeOK
<1>4. Good(r)
  BY DEF WaitInv
<1>5. Placed(r)'
  BY <1>1, <1>4, RunnerAssumption, OwesSession DEF MarkWait, Goto, histVars, cancelVars, Good, Placed, Claimed, Busy, InWait, WaitInv, RunShapes, TypeOK
<1>6. Answerable(r)'
  BY <1>1, <1>4 DEF MarkWait, Goto, histVars, cancelVars, Good, Placed, Answerable, Claimed, Busy, InWait, WaitInv, RunShapes, TypeOK
<1>7. ASSUME r \notin unsure' PROVE Sure(r)'
  <2>1. Answered(r)'
    BY <1>4, <1>7 DEF MarkWait, Goto, histVars, cancelVars, Good, Placed, Sure, Answered, Busy, WaitInv, RunShapes, TypeOK
  <2>2. OneAnswer(r)'
    BY <1>1, <1>4, <1>7, RunnerAssumption DEF MarkWait, Goto, histVars, cancelVars, Good, Placed, Sure, Answered, OneAnswer, Fits, Awaits, Busy, InWait, WaitInv,
      RunShapes, TypeOK
  <2>3. Told(r)'
    <3>1. Told(r)
      BY <1>4, <1>7 DEF MarkWait, Goto, histVars, cancelVars, Good, Sure
    <3>2. asked'[r] = asked[r] /\ told' = told /\ (pc'[r] = "next" => pc[r] = "next" /\ (~ctxDone'[r] => ~ctxDone[r]))
      BY DEF MarkWait, Goto, histVars, cancelVars, WaitInv, RunShapes, TypeOK
    <3> QED BY <1>1, <3>1, <3>2, ToldKept
  <2> QED BY <2>1, <2>2, <2>3 DEF Sure
<1> QED BY <1>1, <1>2, <1>3, <1>5, <1>6, <1>7, OneRun DEF Good

\* The goroutine leaves its snapshot behind.
LEMMA ParkKeeps ==
  ASSUME WaitInv, NEW r \in Runs, Park(r)
  PROVE  WaitInv'
<1>1. RunnerInv' /\ \A q : NoMore(q) /\ (Owing(q)' <=> Owing(q))
  BY RunnerIdle DEF Park
<1>0. Len(Plan[r]) \in Nat /\ call[r] \in 1..(Len(Plan[r]) + 1) /\ (pc[r] \in Busy => call[r] \in 1..Len(Plan[r]))
  BY CallBounds
<1>2. RunShapes'
  <2>0. snapshot'[r] \in 0..Len(Plan[r]) /\ saved'[r] \in 0..Len(Plan[r]) /\ chan' \in [Runs -> 0..MaxSessions]
    BY <1>0, RunnerAssumption DEF WaitInv, RunShapes, TypeOK, Park, Goto, histVars, cancelVars, None, Busy
  <2>a. \A q \in Runs \ {r} : snapshot'[q] = snapshot[q] /\ saved'[q] = saved[q]
    BY DEF WaitInv, RunShapes, Park, Goto, histVars, cancelVars
  <2>b. \A q \in Runs : {snapshot'[q], saved'[q]} \subseteq 0..Len(Plan[q])
    BY <2>0, <2>a, CallsTyped DEF WaitInv
  <2>1. TypeOK'
    BY <1>1, <1>0, <2>0, <2>b DEF WaitInv, RunShapes, TypeOK, RunnerInv, Park, Goto, histVars, cancelVars, Status, RunPC, Busy
  <2>2. snapshot' \in [Runs -> Nat] /\ saved' \in [Runs -> Nat] /\ call' \in [Runs -> Nat] /\ resumes' \in [Runs -> SUBSET Entry]
    BY <1>0 DEF WaitInv, RunShapes, Park, Goto, histVars, cancelVars
  <2> QED BY <2>1, <2>2 DEF WaitInv, RunShapes, Park, Goto, histVars, cancelVars
<1>3. \A q \in Runs \ {r} : Same(q)
  BY DEF Park, Goto, histVars, cancelVars, Same, SureSame, WaitInv, RunShapes, TypeOK
<1>4. Good(r)
  BY DEF WaitInv
<1>5. Placed(r)'
  BY <1>1, <1>4, RunnerAssumption, OwesSession DEF Park, Goto, histVars, cancelVars, Good, Placed, Claimed, Busy, InWait, WaitInv, RunShapes, TypeOK
<1>6. Answerable(r)'
  BY <1>1, <1>4 DEF Park, Goto, histVars, cancelVars, Good, Placed, Answerable, Claimed, Busy, InWait, WaitInv, RunShapes, TypeOK
<1>7. ASSUME r \notin unsure' PROVE Sure(r)'
  <2>1. Answered(r)'
    BY <1>4, <1>7 DEF Park, Goto, histVars, cancelVars, Good, Placed, Sure, Answered, Busy, WaitInv, RunShapes, TypeOK
  <2>2. OneAnswer(r)'
    BY <1>1, <1>4, <1>7, RunnerAssumption DEF Park, Goto, histVars, cancelVars, Good, Placed, Sure, Answered, OneAnswer, Fits, Awaits, Busy, InWait, WaitInv,
      RunShapes, TypeOK
  <2>3. Told(r)'
    <3>1. Told(r)
      BY <1>4, <1>7 DEF Park, Goto, histVars, cancelVars, Good, Sure
    <3>2. asked'[r] = asked[r] /\ told' = told /\ (pc'[r] = "next" => pc[r] = "next" /\ (~ctxDone'[r] => ~ctxDone[r]))
      BY DEF Park, Goto, histVars, cancelVars, WaitInv, RunShapes, TypeOK
    <3> QED BY <1>1, <3>1, <3>2, ToldKept
  <2> QED BY <2>1, <2>2, <2>3 DEF Sure
<1> QED BY <1>1, <1>2, <1>3, <1>5, <1>6, <1>7, OneRun DEF Good

\* A child goes on without a result only if the runner has nothing left to say, or it ends.
LEMMA GiveUpKeeps ==
  ASSUME WaitInv, NEW r \in Runs, GiveUp(r)
  PROVE  WaitInv'
<1>1. RunnerInv' /\ \A q : NoMore(q) /\ (Owing(q)' <=> Owing(q))
  BY RunnerIdle DEF GiveUp
<1>0. Len(Plan[r]) \in Nat /\ call[r] \in 1..(Len(Plan[r]) + 1) /\ (pc[r] \in Busy => call[r] \in 1..Len(Plan[r]))
  BY CallBounds
<1>2. RunShapes'
  <2>0. snapshot'[r] \in 0..Len(Plan[r]) /\ saved'[r] \in 0..Len(Plan[r]) /\ chan' \in [Runs -> 0..MaxSessions]
    BY <1>0, RunnerAssumption DEF WaitInv, RunShapes, TypeOK, GiveUp, Goto, histVars, cancelVars, None, Busy
  <2>a. \A q \in Runs \ {r} : snapshot'[q] = snapshot[q] /\ saved'[q] = saved[q]
    BY DEF WaitInv, RunShapes, GiveUp, Goto, histVars, cancelVars
  <2>b. \A q \in Runs : {snapshot'[q], saved'[q]} \subseteq 0..Len(Plan[q])
    BY <2>0, <2>a, CallsTyped DEF WaitInv
  <2>1. TypeOK'
    BY <1>1, <1>0, <2>0, <2>b DEF WaitInv, RunShapes, TypeOK, RunnerInv, GiveUp, Goto, histVars, cancelVars, Status, RunPC, Busy
  <2>2. snapshot' \in [Runs -> Nat] /\ saved' \in [Runs -> Nat] /\ call' \in [Runs -> Nat] /\ resumes' \in [Runs -> SUBSET Entry]
    BY <1>0 DEF WaitInv, RunShapes, GiveUp, Goto, histVars, cancelVars
  <2> QED BY <2>1, <2>2 DEF WaitInv, RunShapes, GiveUp, Goto, histVars, cancelVars
<1>3. \A q \in Runs \ {r} : Same(q)
  BY DEF GiveUp, Goto, histVars, cancelVars, Same, SureSame, WaitInv, RunShapes, TypeOK
<1>4. Good(r)
  BY DEF WaitInv
<1>5. Placed(r)'
  BY <1>1, <1>4, RunnerAssumption, OwesSession DEF GiveUp, Goto, histVars, cancelVars, Good, Placed, Claimed, Busy, InWait, WaitInv, RunShapes, TypeOK
<1>6. Answerable(r)'
  BY <1>1, <1>4 DEF GiveUp, Goto, histVars, cancelVars, Good, Placed, Answerable, Claimed, Busy, InWait, WaitInv, RunShapes, TypeOK
<1>7. ASSUME r \notin unsure' PROVE Sure(r)'
  <2>1. Answered(r)'
    BY <1>4, <1>7 DEF GiveUp, Goto, histVars, cancelVars, Good, Placed, Sure, Answered, Busy, WaitInv, RunShapes, TypeOK
  <2>2. OneAnswer(r)'
    BY <1>1, <1>4, <1>7, RunnerAssumption DEF GiveUp, Goto, histVars, cancelVars, Good, Placed, Sure, Answered, OneAnswer, Fits, Awaits, Busy, InWait, WaitInv,
      RunShapes, TypeOK
  <2>3. Told(r)'
    <3>1. Told(r)
      BY <1>4, <1>7 DEF GiveUp, Goto, histVars, cancelVars, Good, Sure
    <3>2. asked'[r] = asked[r] /\ told' = told /\ (pc'[r] = "next" => pc[r] = "next" /\ (~ctxDone'[r] => ~ctxDone[r]))
      BY DEF GiveUp, Goto, histVars, cancelVars, WaitInv, RunShapes, TypeOK
    <3> QED BY <1>1, <3>1, <3>2, ToldKept
  <2> QED BY <2>1, <2>2, <2>3 DEF Sure
<1> QED BY <1>1, <1>2, <1>3, <1>5, <1>6, <1>7, OneRun DEF Good

\* The result is there, and the snapshot is not needed.
LEMMA DropWaitStateKeeps ==
  ASSUME WaitInv, NEW r \in Runs, DropWaitState(r)
  PROVE  WaitInv'
<1>1. RunnerInv' /\ \A q : NoMore(q) /\ (Owing(q)' <=> Owing(q))
  BY RunnerIdle DEF DropWaitState
<1>0. Len(Plan[r]) \in Nat /\ call[r] \in 1..(Len(Plan[r]) + 1) /\ (pc[r] \in Busy => call[r] \in 1..Len(Plan[r]))
  BY CallBounds
<1>2. RunShapes'
  <2>0. snapshot'[r] \in 0..Len(Plan[r]) /\ saved'[r] \in 0..Len(Plan[r]) /\ chan' \in [Runs -> 0..MaxSessions]
    BY <1>0, RunnerAssumption DEF WaitInv, RunShapes, TypeOK, DropWaitState, Goto, histVars, cancelVars, None, Busy
  <2>a. \A q \in Runs \ {r} : snapshot'[q] = snapshot[q] /\ saved'[q] = saved[q]
    BY DEF WaitInv, RunShapes, DropWaitState, Goto, histVars, cancelVars
  <2>b. \A q \in Runs : {snapshot'[q], saved'[q]} \subseteq 0..Len(Plan[q])
    BY <2>0, <2>a, CallsTyped DEF WaitInv
  <2>1. TypeOK'
    BY <1>1, <1>0, <2>0, <2>b DEF WaitInv, RunShapes, TypeOK, RunnerInv, DropWaitState, Goto, histVars, cancelVars, Status, RunPC, Busy
  <2>2. snapshot' \in [Runs -> Nat] /\ saved' \in [Runs -> Nat] /\ call' \in [Runs -> Nat] /\ resumes' \in [Runs -> SUBSET Entry]
    BY <1>0 DEF WaitInv, RunShapes, DropWaitState, Goto, histVars, cancelVars
  <2> QED BY <2>1, <2>2 DEF WaitInv, RunShapes, DropWaitState, Goto, histVars, cancelVars
<1>3. \A q \in Runs \ {r} : Same(q)
  BY DEF DropWaitState, Goto, histVars, cancelVars, Same, SureSame, WaitInv, RunShapes, TypeOK
<1>4. Good(r)
  BY DEF WaitInv
<1>5. Placed(r)'
  BY <1>1, <1>4, RunnerAssumption, OwesSession DEF DropWaitState, Goto, histVars, cancelVars, Good, Placed, Claimed, Busy, InWait, WaitInv, RunShapes, TypeOK
<1>6. Answerable(r)'
  BY <1>1, <1>4 DEF DropWaitState, Goto, histVars, cancelVars, Good, Placed, Answerable, Claimed, Busy, InWait, WaitInv, RunShapes, TypeOK
<1>7. ASSUME r \notin unsure' PROVE Sure(r)'
  <2>1. Answered(r)'
    BY <1>4, <1>7 DEF DropWaitState, Goto, histVars, cancelVars, Good, Placed, Sure, Answered, Busy, WaitInv, RunShapes, TypeOK
  <2>2. OneAnswer(r)'
    BY <1>1, <1>4, <1>7, RunnerAssumption DEF DropWaitState, Goto, histVars, cancelVars, Good, Placed, Sure, Answered, OneAnswer, Fits, Awaits, Busy, InWait, WaitInv,
      RunShapes, TypeOK
  <2>3. Told(r)'
    <3>1. Told(r)
      BY <1>4, <1>7 DEF DropWaitState, Goto, histVars, cancelVars, Good, Sure
    <3>2. asked'[r] = asked[r] /\ told' = told /\ (pc'[r] = "next" => pc[r] = "next" /\ (~ctxDone'[r] => ~ctxDone[r]))
      BY DEF DropWaitState, Goto, histVars, cancelVars, WaitInv, RunShapes, TypeOK
    <3> QED BY <1>1, <3>1, <3>2, ToldKept
  <2> QED BY <2>1, <2>2, <2>3 DEF Sure
<1> QED BY <1>1, <1>2, <1>3, <1>5, <1>6, <1>7, OneRun DEF Good

\* A client leaves: the context ends.
LEMMA DisconnectKeeps ==
  ASSUME WaitInv, NEW r \in Runs, Disconnect(r)
  PROVE  WaitInv'
<1>1. RunnerInv' /\ \A q : NoMore(q) /\ (Owing(q)' <=> Owing(q))
  BY RunnerIdle DEF Disconnect
<1>0. Len(Plan[r]) \in Nat /\ call[r] \in 1..(Len(Plan[r]) + 1) /\ (pc[r] \in Busy => call[r] \in 1..Len(Plan[r]))
  BY CallBounds
<1>2. RunShapes'
  <2>0. snapshot'[r] \in 0..Len(Plan[r]) /\ saved'[r] \in 0..Len(Plan[r]) /\ chan' \in [Runs -> 0..MaxSessions]
    BY <1>0, RunnerAssumption DEF WaitInv, RunShapes, TypeOK, Disconnect, Fault, histVars, cancelVars, None, Busy
  <2>a. \A q \in Runs \ {r} : snapshot'[q] = snapshot[q] /\ saved'[q] = saved[q]
    BY DEF WaitInv, RunShapes, Disconnect, Fault, histVars, cancelVars
  <2>b. \A q \in Runs : {snapshot'[q], saved'[q]} \subseteq 0..Len(Plan[q])
    BY <2>0, <2>a, CallsTyped DEF WaitInv
  <2>1. TypeOK'
    BY <1>1, <1>0, <2>0, <2>b DEF WaitInv, RunShapes, TypeOK, RunnerInv, Disconnect, Fault, histVars, cancelVars, Status, RunPC, Busy
  <2>2. snapshot' \in [Runs -> Nat] /\ saved' \in [Runs -> Nat] /\ call' \in [Runs -> Nat] /\ resumes' \in [Runs -> SUBSET Entry]
    BY <1>0 DEF WaitInv, RunShapes, Disconnect, Fault, histVars, cancelVars
  <2> QED BY <2>1, <2>2 DEF WaitInv, RunShapes, Disconnect, Fault, histVars, cancelVars
<1>3. \A q \in Runs \ {r} : Same(q)
  BY DEF Disconnect, Fault, histVars, cancelVars, Same, SureSame, WaitInv, RunShapes, TypeOK
<1>4. Good(r)
  BY DEF WaitInv
<1>5. Placed(r)'
  BY <1>1, <1>4, RunnerAssumption, OwesSession DEF Disconnect, Fault, histVars, cancelVars, Good, Placed, Claimed, Busy, InWait, WaitInv, RunShapes, TypeOK
<1>6. Answerable(r)'
  BY <1>1, <1>4 DEF Disconnect, Fault, histVars, cancelVars, Good, Placed, Answerable, Claimed, Busy, InWait, WaitInv, RunShapes, TypeOK
<1>7. ASSUME r \notin unsure' PROVE Sure(r)'
  <2>1. Sure(r)
    BY <1>4, <1>7 DEF Disconnect, Fault, histVars, cancelVars, Good
  <2>2. SureSame(r)
    BY DEF SureSame, Disconnect, Fault, histVars, cancelVars, WaitInv, RunShapes, TypeOK
  <2> QED BY <1>1, <1>2, <2>1, <2>2, SureKept DEF WaitInv
<1> QED BY <1>1, <1>2, <1>3, <1>5, <1>6, <1>7, OneRun DEF Good

\* The status of a run that is waiting or running is overwritten.
LEMMA CancelStatusKeeps ==
  ASSUME WaitInv, NEW r \in Runs, CancelStatus(r)
  PROVE  WaitInv'
<1>1. RunnerInv' /\ \A q : NoMore(q) /\ (Owing(q)' <=> Owing(q))
  BY RunnerIdle DEF CancelStatus
<1>0. Len(Plan[r]) \in Nat /\ call[r] \in 1..(Len(Plan[r]) + 1) /\ (pc[r] \in Busy => call[r] \in 1..Len(Plan[r]))
  BY CallBounds
<1>2. RunShapes'
  <2>0. snapshot'[r] \in 0..Len(Plan[r]) /\ saved'[r] \in 0..Len(Plan[r]) /\ chan' \in [Runs -> 0..MaxSessions]
    BY <1>0, RunnerAssumption DEF WaitInv, RunShapes, TypeOK, CancelStatus, Fault, histVars, cancelVars, None, Busy
  <2>a. \A q \in Runs \ {r} : snapshot'[q] = snapshot[q] /\ saved'[q] = saved[q]
    BY DEF WaitInv, RunShapes, CancelStatus, Fault, histVars, cancelVars
  <2>b. \A q \in Runs : {snapshot'[q], saved'[q]} \subseteq 0..Len(Plan[q])
    BY <2>0, <2>a, CallsTyped DEF WaitInv
  <2>1. TypeOK'
    BY <1>1, <1>0, <2>0, <2>b DEF WaitInv, RunShapes, TypeOK, RunnerInv, CancelStatus, Fault, histVars, cancelVars, Status, RunPC, Busy
  <2>2. snapshot' \in [Runs -> Nat] /\ saved' \in [Runs -> Nat] /\ call' \in [Runs -> Nat] /\ resumes' \in [Runs -> SUBSET Entry]
    BY <1>0 DEF WaitInv, RunShapes, CancelStatus, Fault, histVars, cancelVars
  <2> QED BY <2>1, <2>2 DEF WaitInv, RunShapes, CancelStatus, Fault, histVars, cancelVars
<1>3. \A q \in Runs \ {r} : Same(q)
  BY DEF CancelStatus, Fault, histVars, cancelVars, Same, SureSame, WaitInv, RunShapes, TypeOK
<1>4. Good(r)
  BY DEF WaitInv
<1>5. Placed(r)'
  BY <1>1, <1>4, RunnerAssumption, OwesSession DEF CancelStatus, Fault, histVars, cancelVars, Good, Placed, Claimed, Busy, InWait, WaitInv, RunShapes, TypeOK
<1>6. Answerable(r)'
  BY <1>1, <1>4 DEF CancelStatus, Fault, histVars, cancelVars, Good, Placed, Answerable, Claimed, Busy, InWait, WaitInv, RunShapes, TypeOK
<1>7. ASSUME r \notin unsure' PROVE Sure(r)'
  <2>1. Sure(r)
    BY <1>4, <1>7 DEF CancelStatus, Fault, histVars, cancelVars, Good
  <2>2. SureSame(r)
    BY DEF SureSame, CancelStatus, Fault, histVars, cancelVars, WaitInv, RunShapes, TypeOK
  <2> QED BY <1>1, <1>2, <2>1, <2>2, SureKept DEF WaitInv
<1> QED BY <1>1, <1>2, <1>3, <1>5, <1>6, <1>7, OneRun DEF Good

\* An answer is added behind the others.
LEMMA AnswerAdded ==
  ASSUME WaitInv, NEW r \in Runs, NEW x \in Entry, answers' = [answers EXCEPT ![r] = Append(@, x)]
  PROVE  /\ answers' \in [Runs -> Seq(Entry)] /\ \A q \in Runs \ {r} : answers'[q] = answers[q]
         /\ Len(answers'[r]) = Len(answers[r]) + 1 /\ DOMAIN answers'[r] = 1..Len(answers'[r])
         /\ DOMAIN answers[r] = 1..Len(answers[r]) /\ Len(answers[r]) \in Nat
         /\ \A i \in DOMAIN answers'[r] : answers'[r][i] = IF i = Len(answers'[r]) THEN x ELSE answers[r][i]
<1>1. answers \in [Runs -> Seq(Entry)]
  BY DEF WaitInv, RunShapes
<1> DEFINE more == Append(answers[r], x)
<1>2. more \in Seq(Entry) /\ Len(more) = Len(answers[r]) + 1 /\ more[Len(answers[r]) + 1] = x
      /\ \A i \in 1..Len(answers[r]) : more[i] = answers[r][i]
  BY <1>1, AppendProperties
<1>3. DOMAIN more = 1..Len(more) /\ DOMAIN answers[r] = 1..Len(answers[r]) /\ Len(answers[r]) \in Nat
  BY <1>1, <1>2, LenProperties
<1> HIDE DEF more
<1>4. answers' = [answers EXCEPT ![r] = more]
  BY DEF more
<1>5. answers'[r] = more /\ answers' \in [Runs -> Seq(Entry)] /\ \A q \in Runs \ {r} : answers'[q] = answers[q]
  BY <1>1, <1>2, <1>4
<1>6. \A i \in DOMAIN more : more[i] = IF i = Len(more) THEN x ELSE answers[r][i]
  BY <1>2, <1>3
<1> QED BY <1>2, <1>3, <1>5, <1>6

\* The answer to the current call keeps the answers in order.
LEMMA AnsweredNext ==
  ASSUME WaitInv, NEW r \in Runs, Answered(r), NEW x \in Entry, answers' = [answers EXCEPT ![r] = Append(@, x)],
         x.call = call[r], call'[r] = call[r] + 1, Len(asked'[r]) = call[r], pc'[r] \notin Busy,
         \A i \in 1..(call[r] - 1) : asked'[r][i] = asked[r][i],
         x.res \in {Error, Watchdog, asked'[r][call[r]]}
  PROVE  Answered(r)'
<1>1. call[r] \in Nat
  BY DEF WaitInv, RunShapes
<1>2. Len(answers'[r]) = call[r] /\ DOMAIN answers'[r] = 1..call[r] /\ DOMAIN answers[r] = 1..(call[r] - 1)
      /\ \A i \in DOMAIN answers'[r] : answers'[r][i] = IF i = call[r] THEN x ELSE answers[r][i]
  <2>1. /\ Len(answers'[r]) = Len(answers[r]) + 1 /\ DOMAIN answers'[r] = 1..Len(answers'[r])
        /\ DOMAIN answers[r] = 1..Len(answers[r]) /\ Len(answers[r]) \in Nat
        /\ \A i \in DOMAIN answers'[r] : answers'[r][i] = IF i = Len(answers'[r]) THEN x ELSE answers[r][i]
    BY AnswerAdded
  <2>2. Len(answers[r]) = call[r] - 1
    BY DEF Answered
  <2>3. Len(answers'[r]) = call[r]
    BY <1>1, <2>1, <2>2
  <2> QED BY <2>1, <2>2, <2>3
<1>3. ASSUME NEW i \in DOMAIN answers'[r]
      PROVE  answers'[r][i].call = i /\ answers'[r][i].res \in {Error, Watchdog, asked'[r][i]}
  <2>1. CASE i = call[r]
    BY <1>2, <2>1
  <2>2. CASE i # call[r]
    <3>1. i \in 1..(call[r] - 1)
      BY <1>1, <1>2, <2>2
    <3> QED BY <1>2, <2>2, <3>1 DEF Answered
  <2> QED BY <2>1, <2>2
<1> QED BY <1>1, <1>2, <1>3 DEF Answered

\* The call is answered from the channel.
LEMMA UnmarkWaitKeeps ==
  ASSUME WaitInv, NEW r \in Runs, UnmarkWait(r)
  PROVE  WaitInv'
<1> DEFINE x == [call |-> call[r], res |-> IF chan[r] = None THEN Error ELSE chan[r]]
<1>1. RunnerInv' /\ \A q : NoMore(q) /\ (Owing(q)' <=> Owing(q))
  BY RunnerIdle DEF UnmarkWait
<1>2. call[r] \in Nat /\ call[r] \in 1..Len(Plan[r]) /\ Len(Plan[r]) \in Nat /\ pc[r] = "unmark" /\ pc'[r] = "next"
      /\ call'[r] = call[r] + 1 /\ chan'[r] = None /\ chan[r] \in 0..MaxSessions
  BY CallBounds DEF UnmarkWait, Goto, Busy, WaitInv, RunShapes, TypeOK
<1>3. x \in Entry /\ x.res \in {Error, chan[r]} /\ x.call = call[r]
  BY <1>2, ResultSets DEF Entry
<1>4. answers' = [answers EXCEPT ![r] = Append(@, x)]
  BY DEF UnmarkWait, Answer
<1>x. (chan[r] = None => x.res = Error) /\ (chan[r] # None => x.res = chan[r])
  OBVIOUS
<1> HIDE DEF x
<1>5. answers' \in [Runs -> Seq(Entry)] /\ \A q \in Runs \ {r} : answers'[q] = answers[q]
  BY <1>3, <1>4, AnswerAdded
<1>6. status' \in [Runs -> Status] /\ \A q \in Runs \ {r} : status'[q] = status[q]
  BY DEF UnmarkWait, WaitInv, RunShapes, TypeOK, Status
<1>7. chan' \in [Runs -> 0..MaxSessions] /\ pc' \in [Runs -> RunPC] /\ call' \in [Runs -> Nat]
      /\ \A q \in Runs : call'[q] \in 1..(Len(Plan[q]) + 1)
  <2>1. chan' \in [Runs -> 0..MaxSessions] /\ pc' \in [Runs -> RunPC]
    BY RunnerAssumption DEF UnmarkWait, Goto, None, RunPC, WaitInv, RunShapes, TypeOK
  <2>2. call' \in [Runs -> Nat] /\ \A q \in Runs \ {r} : call'[q] = call[q]
    BY <1>2 DEF UnmarkWait, WaitInv, RunShapes
  <2>3. call'[r] \in 1..(Len(Plan[r]) + 1)
    BY <1>2
  <2>4. \A q \in Runs : call'[q] \in 1..(Len(Plan[q]) + 1)
    BY <2>2, <2>3 DEF WaitInv, RunShapes, TypeOK
  <2> QED BY <2>1, <2>2, <2>4
<1>8. UNCHANGED <<claim, snapshot, saved, registry, resumes, attached, ctxDone, asked, told, unsure, cancelling, cancelled>>
  BY DEF UnmarkWait, cancelVars
<1>9. RunShapes'
  <2>1. TypeOK'
    BY <1>1, <1>6, <1>7, <1>8 DEF WaitInv, RunShapes, TypeOK, RunnerInv
  <2> QED BY <2>1, <1>5, <1>7, <1>8 DEF WaitInv, RunShapes
<1>10. \A q \in Runs \ {r} : Same(q)
  BY <1>5, <1>6, <1>8 DEF UnmarkWait, Goto, Same, SureSame, WaitInv, RunShapes, TypeOK
<1>11. Good(r)
  BY DEF WaitInv
<1>12. Placed(r)'
  BY <1>1, <1>2, <1>8, <1>11 DEF UnmarkWait, Good, Placed, Claimed, Busy, InWait, WaitInv, RunShapes, TypeOK
<1>13. Answerable(r)'
  BY <1>2, <1>8, <1>11 DEF UnmarkWait, Good, Placed, Answerable, Claimed, WaitInv, RunShapes, TypeOK
<1>14. ASSUME r \notin unsure' PROVE Sure(r)'
  <2>1. Sure(r) /\ Len(asked[r]) = call[r]
    BY <1>2, <1>8, <1>11, <1>14 DEF Good, Sure, Answered, Busy
  <2>2. chan[r] # None => chan[r] = asked[r][call[r]] /\ <<r, chan[r]>> \in told
    BY <2>1 DEF Sure, OneAnswer
  <2>3. Answered(r)'
    <3>1. Answered(r) /\ x.res \in {Error, Watchdog, asked'[r][call[r]]}
      BY <1>3, <1>x, <1>8, <2>1, <2>2 DEF Sure
    <3> QED BY <1>2, <1>3, <1>4, <1>8, <2>1, <3>1, AnsweredNext DEF Busy
  <2>4. OneAnswer(r)'
    BY <1>2, <1>8, <2>1 DEF Sure, OneAnswer, Awaits
  <2>5. ~ctxDone[r] => \A s \in Sessions : Owed(r, s) => <<r, s>> \in told
    <3>1. CASE chan[r] = None
      BY <3>1, <1>2, <1>11 DEF Good, Placed, Owing
    <3>2. CASE chan[r] # None
      BY <3>2, <2>1, <2>2 DEF Sure, Told
    <3> QED BY <3>1, <3>2
  <2>6. Told(r)'
    BY <1>1, <1>8, <2>1, <2>5 DEF Sure, Told, NoMore
  <2> QED BY <2>3, <2>4, <2>6 DEF Sure
<1> QED BY <1>1, <1>9, <1>10, <1>12, <1>13, <1>14, OneRun DEF Good

\* The resumed goroutine answers the call it was parked at.
LEMMA ResumeKeeps ==
  ASSUME WaitInv, NEW r \in Runs, Resume(r)
  PROVE  WaitInv'
<1>1. RunnerInv' /\ \A q : NoMore(q) /\ (Owing(q)' <=> Owing(q))
  BY RunnerIdle DEF Resume
<1>2. PICK x \in resumes[r] :
        /\ resumes' = [resumes EXCEPT ![r] = @ \ {x}]
        /\ IF status[r] = "cancelled"
           THEN UNCHANGED <<status, pc, call, attached, ctxDone, answers>>
           ELSE /\ status' = [status EXCEPT ![r] = "running"]
                /\ pc' = [pc EXCEPT ![r] = "next"]
                /\ call' = [call EXCEPT ![r] = x.call + 1]
                /\ attached' = [attached EXCEPT ![r] = FALSE]
                /\ ctxDone' = [ctxDone EXCEPT ![r] = FALSE]
                /\ answers' = [answers EXCEPT ![r] = Append(@, x)]
  BY DEF Resume
<1>3. Len(Plan[r]) \in Nat /\ x \in Entry /\ x.call \in 1..Len(Plan[r]) /\ pc[r] = "off"
  BY CallBounds DEF Resume, WaitInv, RunShapes, TypeOK
<1>4. resumes' \in [Runs -> SUBSET Entry] /\ resumes'[r] = resumes[r] \ {x}
      /\ (\A q \in Runs \ {r} : resumes'[q] = resumes[q])
      /\ \A q \in Runs : resumes'[q] \subseteq [call : 1..Len(Plan[q]), res : Results]
  BY <1>2 DEF WaitInv, RunShapes, TypeOK
<1>5. UNCHANGED <<claim, snapshot, saved, registry, chan, asked, told, unsure, cancelling, cancelled>>
  BY DEF Resume, cancelVars
<1>6. Good(r)
  BY DEF WaitInv
<1>7. chan[r] = None /\ r \notin Child /\ r \notin registry
  BY <1>2, <1>3, <1>6 DEF Good, Placed, InWait
<1>8. CASE status[r] = "cancelled"
  <2>1. UNCHANGED <<status, pc, call, attached, ctxDone, answers>>
    BY <1>2, <1>8
  <2>2. TypeOK'
    BY <1>1, <1>4, <1>5, <2>1 DEF WaitInv, RunShapes, TypeOK, RunnerInv
  <2>3. RunShapes'
    BY <1>4, <1>5, <2>1, <2>2 DEF WaitInv, RunShapes
  <2>4. \A q \in Runs \ {r} : Same(q)
    BY <1>4, <1>5, <2>1 DEF Same, SureSame
  <2>5. Placed(r)' /\ Answerable(r)'
    BY <1>1, <1>4, <1>5, <1>6, <2>1 DEF Good, Placed, Answerable, Claimed
  <2>6. ASSUME r \notin unsure' PROVE Sure(r)'
    <3>1. Sure(r)
      BY <1>5, <1>6, <2>6 DEF Good
    <3>2. Answered(r)' /\ Told(r)'
      BY <1>1, <1>5, <2>1, <3>1 DEF Sure, Answered, Told, NoMore
    <3>3. resumes'[r] = {}
      BY <1>2, <1>4, <3>1 DEF Sure, OneAnswer
    <3>4. OneAnswer(r)'
      BY <1>1, <1>5, <2>1, <3>1, <3>3 DEF Sure, OneAnswer, Awaits, Fits
    <3> QED BY <3>2, <3>4 DEF Sure
  <2> QED BY <1>1, <2>3, <2>4, <2>5, <2>6, OneRun DEF Good
<1>9. CASE status[r] # "cancelled"
  <2>1. /\ status' = [status EXCEPT ![r] = "running"] /\ pc' = [pc EXCEPT ![r] = "next"]
        /\ call' = [call EXCEPT ![r] = x.call + 1] /\ attached' = [attached EXCEPT ![r] = FALSE]
        /\ ctxDone' = [ctxDone EXCEPT ![r] = FALSE] /\ answers' = [answers EXCEPT ![r] = Append(@, x)]
    BY <1>2, <1>9
  <2>2. answers' \in [Runs -> Seq(Entry)] /\ \A q \in Runs \ {r} : answers'[q] = answers[q]
    BY <1>3, <2>1, AnswerAdded
  <2>3. /\ status' \in [Runs -> Status] /\ pc' \in [Runs -> RunPC] /\ call' \in [Runs -> Nat]
        /\ attached' \in [Runs -> BOOLEAN] /\ ctxDone' \in [Runs -> BOOLEAN]
        /\ \A q \in Runs : call'[q] \in 1..(Len(Plan[q]) + 1)
        /\ status'[r] = "running" /\ pc'[r] = "next" /\ call'[r] = x.call + 1 /\ ~ctxDone'[r]
        /\ \A q \in Runs \ {r} : status'[q] = status[q] /\ pc'[q] = pc[q] /\ call'[q] = call[q] /\ ctxDone'[q] = ctxDone[q]
    <3>1. x.call + 1 \in Nat /\ x.call + 1 \in 1..(Len(Plan[r]) + 1)
      BY <1>3
    <3>2. \A q \in Runs : call[q] \in 1..(Len(Plan[q]) + 1)
      BY DEF WaitInv, RunShapes, TypeOK
    <3>3. /\ call' \in [Runs -> Nat] /\ call'[r] = x.call + 1 /\ \A q \in Runs \ {r} : call'[q] = call[q]
      BY <2>1, <3>1 DEF WaitInv, RunShapes
    <3>4. \A q \in Runs : call'[q] \in 1..(Len(Plan[q]) + 1)
      BY <3>1, <3>2, <3>3
    <3> QED BY <2>1, <3>3, <3>4 DEF Status, RunPC, WaitInv, RunShapes, TypeOK
  <2>4. TypeOK'
    BY <1>1, <1>4, <1>5, <2>3 DEF WaitInv, RunShapes, TypeOK, RunnerInv
  <2>5. RunShapes'
    BY <1>4, <1>5, <2>2, <2>3, <2>4 DEF WaitInv, RunShapes
  <2>6. \A q \in Runs \ {r} : Same(q)
    BY <1>4, <1>5, <2>2, <2>3 DEF Same, SureSame
  <2>7. Placed(r)' /\ Answerable(r)'
    BY <1>5, <1>7, <2>3 DEF Placed, Answerable, Busy, InWait
  <2>8. ASSUME r \notin unsure' PROVE Sure(r)'
    <3>1. Sure(r)
      BY <1>5, <1>6, <2>8 DEF Good
    <3>2. /\ x.call = call[r] /\ Len(asked[r]) = call[r] /\ resumes[r] = {x} /\ Fits(r, x.res)
          /\ (x.res # Watchdog => <<r, x.res>> \in told)
          /\ snapshot[r] = 0 /\ \A d \in Callers : ~Awaits(d, r)
      BY <1>2, <3>1 DEF Sure, OneAnswer
    <3>3. Answered(r)'
      <4>1. Answered(r) /\ x.res \in {Error, Watchdog, asked'[r][call[r]]}
        BY <1>5, <3>1, <3>2 DEF Sure, Fits
      <4> QED BY <1>3, <1>5, <2>1, <2>3, <3>2, <4>1, AnsweredNext DEF Busy
    <3>4. OneAnswer(r)'
      BY <1>4, <1>5, <1>7, <3>2 DEF OneAnswer, Awaits
    <3>5. \A s \in Sessions : Owed(r, s) => <<r, s>> \in told
      <4>1. CASE x.res = Watchdog
        BY <3>2, <4>1 DEF Fits, Owing
      <4>2. CASE x.res # Watchdog
        BY <3>1, <3>2, <4>2 DEF Fits, Sure, Told
      <4> QED BY <4>1, <4>2
    <3>6. Told(r)'
      BY <1>1, <1>5, <3>1, <3>5 DEF Told, NoMore
    <3> QED BY <3>3, <3>4, <3>6 DEF Sure
  <2> QED BY <1>1, <2>5, <2>6, <2>7, <2>8, OneRun DEF Good
<1> QED BY <1>8, <1>9

\* A request is added behind the others.
LEMMA AskAdded ==
  ASSUME WaitInv, NEW r \in Runs, NEW s \in Results, Ask(r, s)
  PROVE  /\ asked' \in [Runs -> Seq(Results)] /\ \A q \in Runs \ {r} : asked'[q] = asked[q]
         /\ Len(asked'[r]) = Len(asked[r]) + 1 /\ Len(asked[r]) \in Nat /\ asked'[r] # <<>>
         /\ asked'[r][Len(asked'[r])] = s /\ \A i \in 1..Len(asked[r]) : asked'[r][i] = asked[r][i]
<1>1. asked \in [Runs -> Seq(Results)]
  BY DEF WaitInv, RunShapes
<1> DEFINE more == Append(asked[r], s)
<1>2. more \in Seq(Results) /\ Len(more) = Len(asked[r]) + 1 /\ more[Len(asked[r]) + 1] = s /\ more # <<>>
      /\ (\A i \in 1..Len(asked[r]) : more[i] = asked[r][i]) /\ Len(asked[r]) \in Nat
  BY <1>1, AppendProperties, LenProperties
<1> HIDE DEF more
<1>3. asked' = [asked EXCEPT ![r] = more]
  BY DEF Ask, more
<1> QED BY <1>1, <1>2, <1>3

\* A run asks for a session only after it was given everything that it is owed.
LEMMA LaunchStep ==
  ASSUME WaitInv, NEW r \in Runs, Launch(r)
  PROVE  WaitInv'
<1> DEFINE k == Plan[r][call[r]]
           a == Assigned(k)
<1>1. pc[r] = "next" /\ pc' = [pc EXCEPT ![r] = "save_key"] /\ ~ctxDone[r] /\ HandleLaunch(k, r) /\ Ask(r, a)
      /\ call[r] <= Len(Plan[r])
  BY DEF Launch, Goto
<1>2. UNCHANGED <<faults, claim, status, snapshot, saved, registry, chan, resumes, call, attached, ctxDone, answers, told, unsure,
                  cancelling, cancelled>>
  BY DEF Launch, cancelVars
<1>3. k \in Keys /\ Len(Plan[r]) \in Nat /\ call[r] \in 1..Len(Plan[r])
  BY <1>1, CallBounds, PlanAssumption
<1> HIDE DEF k
<1>4. faults \in 0..MaxFaults
  BY DEF WaitInv, RunnerInv, RunnerTypeOK
<1>5. RunnerInv' /\ a \in Sessions /\ \A q \in Runs, s \in Sessions : Owed(q, s)' => Owed(q, s) \/ (q = r /\ s = a)
  <2>1. faults' \in 0..MaxFaults /\ faults' >= faults
    BY <1>2, <1>4, RunnerAssumption
  <2> QED BY <1>1, <1>3, <2>1, LaunchKeeps DEF WaitInv
<1>6. a \in Results
  BY <1>5, ResultSets
<1> HIDE DEF a
<1>7. /\ asked' \in [Runs -> Seq(Results)] /\ \A q \in Runs \ {r} : asked'[q] = asked[q]
      /\ Len(asked'[r]) = Len(asked[r]) + 1 /\ Len(asked[r]) \in Nat /\ asked'[r] # <<>>
      /\ asked'[r][Len(asked'[r])] = a /\ \A i \in 1..Len(asked[r]) : asked'[r][i] = asked[r][i]
  BY <1>1, <1>6, AskAdded
<1>8. pc' \in [Runs -> RunPC] /\ pc'[r] = "save_key" /\ \A q \in Runs \ {r} : pc'[q] = pc[q]
  BY <1>1 DEF RunPC, WaitInv, RunShapes, TypeOK
<1>9. RunShapes'
  <2>1. TypeOK'
    BY <1>2, <1>5, <1>8 DEF WaitInv, RunShapes, TypeOK, RunnerInv
  <2> QED BY <2>1, <1>2, <1>7 DEF WaitInv, RunShapes
<1>10. \A q \in Runs \ {r} : Same(q) /\ NoMore(q)
  <2>1. \A q \in Runs \ {r} : Same(q)
    BY <1>2, <1>7, <1>8 DEF Same, SureSame
  <2>2. \A q \in Runs \ {r} : NoMore(q)
    BY <1>5 DEF NoMore, Owing
  <2> QED BY <2>1, <2>2
<1>11. Good(r)
  BY DEF WaitInv
<1>12. Placed(r)' /\ Answerable(r)'
  BY <1>1, <1>2, <1>8, <1>11 DEF Good, Placed, Answerable, Claimed, Busy, InWait
<1>13. ASSUME r \notin unsure' PROVE Sure(r)'
  <2>1. Sure(r)
    BY <1>2, <1>11, <1>13 DEF Good
  <2>2. Len(asked[r]) = call[r] - 1 /\ DOMAIN answers[r] = 1..(call[r] - 1) /\ Len(answers[r]) = call[r] - 1
    <3>1. DOMAIN answers[r] = 1..Len(answers[r])
      BY DEF WaitInv, RunShapes
    <3> QED BY <1>1, <2>1, <3>1 DEF Sure, Answered
  <2>3. Answered(r)'
    BY <1>2, <1>3, <1>7, <1>8, <2>1, <2>2 DEF Sure, Answered, Busy
  <2>4. OneAnswer(r)'
    BY <1>1, <1>2, <1>8, <1>11, <2>1 DEF Good, Placed, InWait, Sure, OneAnswer, Awaits
  <2>5. \A s \in Sessions : Owed(r, s)' => <<r, s>> \in told \/ s = a
    BY <1>1, <1>5, <2>1 DEF Sure, Told
  <2>6. Told(r)'
    BY <1>2, <1>7, <1>8, <2>5 DEF Told
  <2> QED BY <2>3, <2>4, <2>6 DEF Sure
<1> QED BY <1>5, <1>9, <1>10, <1>12, <1>13, OneRun DEF Good

\* A call is answered with the error of its launch; if the session runs after all, the run is unsure.
LEMMA LaunchFailsStep ==
  ASSUME WaitInv, NEW r \in Runs, LaunchFails(r)
  PROVE  WaitInv'
<1> DEFINE k == Plan[r][call[r]]
           x == [call |-> call[r], res |-> Error]
<1>1. pc[r] = "next" /\ pc' = [pc EXCEPT ![r] = "next"] /\ ~ctxDone[r] /\ call[r] <= Len(Plan[r]) /\ Fault
      /\ answers' = [answers EXCEPT ![r] = Append(@, x)] /\ call' = [call EXCEPT ![r] = @ + 1]
  BY DEF LaunchFails, Goto, Answer
<1>2. \/ UNCHANGED <<runnerVars, unsure>> /\ Ask(r, Error)
      \/ HandleLaunch(k, r) /\ Ask(r, Assigned(k)) /\ unsure' = unsure \cup {r}
  BY DEF LaunchFails
<1>3. UNCHANGED <<claim, status, snapshot, saved, registry, chan, resumes, attached, ctxDone, told, cancelling, cancelled>>
  BY DEF LaunchFails, cancelVars
<1>4. k \in Keys /\ Len(Plan[r]) \in Nat /\ call[r] \in 1..Len(Plan[r])
  BY <1>1, CallBounds, PlanAssumption
<1> HIDE DEF k
<1>5. x \in Entry /\ x.call = call[r] /\ x.res = Error /\ Error \in Results
  BY <1>4, ResultSets DEF Entry
<1> HIDE DEF x
<1>6. PICK a \in Results : Ask(r, a) /\ RunnerInv' /\ (\A q \in Runs \ {r} : NoMore(q))
        /\ (r \notin unsure' => a = Error /\ NoMore(r)) /\ unsure \subseteq unsure'
        /\ unsure' \subseteq Runs
  <2>1. faults' = faults + 1 /\ faults' \in 0..MaxFaults /\ faults \in 0..MaxFaults /\ unsure \subseteq Runs
    BY <1>1, FaultCounted DEF WaitInv, RunnerInv, RunnerTypeOK, RunShapes, TypeOK
  <2>2. CASE UNCHANGED <<runnerVars, unsure>> /\ Ask(r, Error)
    BY <1>1, <1>5, <2>1, <2>2, RunnerIdle
  <2>3. CASE HandleLaunch(k, r) /\ Ask(r, Assigned(k)) /\ unsure' = unsure \cup {r}
    <3>1. faults' >= faults
      BY <2>1
    <3>2. RunnerInv' /\ Assigned(k) \in Sessions
          /\ \A q \in Runs, s \in Sessions : Owed(q, s)' => Owed(q, s) \/ (q = r /\ s = Assigned(k))
      BY <1>4, <2>1, <2>3, <3>1, LaunchKeeps DEF WaitInv
    <3>3. \A q \in Runs \ {r} : NoMore(q)
      BY <3>2 DEF NoMore, Owing
    <3> QED BY <2>1, <2>3, <3>2, <3>3, ResultSets
  <2> QED BY <1>2, <2>2, <2>3
<1>7. /\ asked' \in [Runs -> Seq(Results)] /\ \A q \in Runs \ {r} : asked'[q] = asked[q]
      /\ Len(asked'[r]) = Len(asked[r]) + 1 /\ Len(asked[r]) \in Nat /\ asked'[r] # <<>>
      /\ asked'[r][Len(asked'[r])] = a /\ \A i \in 1..Len(asked[r]) : asked'[r][i] = asked[r][i]
  BY <1>6, AskAdded
<1>8. pc' \in [Runs -> RunPC] /\ pc' = pc
  BY <1>1 DEF RunPC, WaitInv, RunShapes, TypeOK
<1>9. call' \in [Runs -> Nat] /\ call'[r] = call[r] + 1 /\ \A q \in Runs \ {r} : call'[q] = call[q]
  BY <1>1 DEF WaitInv, RunShapes
<1>10. \A q \in Runs : call'[q] \in 1..(Len(Plan[q]) + 1)
  <2>1. call'[r] \in 1..(Len(Plan[r]) + 1)
    BY <1>4, <1>9
  <2> QED BY <1>9, <2>1 DEF WaitInv, RunShapes, TypeOK
<1>11. answers' \in [Runs -> Seq(Entry)] /\ \A q \in Runs \ {r} : answers'[q] = answers[q]
  BY <1>1, <1>5, AnswerAdded
<1>12. RunShapes'
  <2>1. TypeOK'
    BY <1>3, <1>6, <1>8, <1>10 DEF WaitInv, RunShapes, TypeOK, RunnerInv
  <2> QED BY <2>1, <1>3, <1>7, <1>9, <1>11 DEF WaitInv, RunShapes
<1>13. \A q \in Runs \ {r} : Same(q)
  BY <1>3, <1>6, <1>7, <1>8, <1>9, <1>11 DEF Same, SureSame
<1>14. Good(r)
  BY DEF WaitInv
<1>15. Placed(r)' /\ Answerable(r)'
  BY <1>1, <1>3, <1>8, <1>14 DEF Good, Placed, Answerable, Claimed, Busy, InWait
<1>16. ASSUME r \notin unsure' PROVE Sure(r)'
  <2>1. Sure(r) /\ a = Error /\ NoMore(r)
    BY <1>6, <1>14, <1>16 DEF Good
  <2>2. Len(asked[r]) = call[r] - 1
    BY <1>1, <2>1 DEF Sure, Answered
  <2>3. Answered(r)'
    <3>1. Answered(r) /\ Len(asked'[r]) = call[r] /\ (\A i \in 1..(call[r] - 1) : asked'[r][i] = asked[r][i]) /\ pc'[r] \notin Busy
      BY <1>1, <1>4, <1>7, <1>8, <2>1, <2>2 DEF Sure, Busy
    <3> QED BY <1>1, <1>5, <1>9, <3>1, AnsweredNext
  <2>4. OneAnswer(r)'
    BY <1>1, <1>3, <1>8, <1>14, <2>1 DEF Good, Placed, InWait, Sure, OneAnswer, Awaits
  <2>5. Told(r)'
    BY <1>1, <1>3, <1>8, <2>1 DEF Sure, Told, NoMore
  <2> QED BY <2>3, <2>4, <2>5 DEF Sure
<1> QED BY <1>6, <1>12, <1>13, <1>15, <1>16, OneRun DEF Good

(* ------------------- Callbacks, the watchdog and the resume --------------- *)

\* A step that leaves every run alone.
LEMMA NoRun ==
  ASSUME WaitInv, RunnerInv', RunShapes', \A q \in Runs : Same(q) /\ NoMore(q)
  PROVE  WaitInv'
BY SameKeeps DEF WaitInv

\* The reply to a callback.
LEMMA ReplyKeeps ==
  ASSUME WaitInv, NEW d \in Senders, Reply(d)
  PROVE  RunnerInv' /\ \A q \in Runs : NoMore(q)
<1>0. UNCHANGED <<sessions, current, journal, todo, stopped, crashes>> /\ faults \in 0..MaxFaults /\ RunnerInv
  BY DEF Reply, WaitInv, RunnerInv, RunnerTypeOK
<1>1. CASE post' = [post EXCEPT ![d] = IF @.subs = <<>> THEN @ ELSE Posted(@)] /\ UNCHANGED faults
  <2>0. faults' \in 0..MaxFaults /\ faults' >= faults
    BY <1>0, <1>1, RunnerAssumption
  <2>1. post \in [Senders -> PostRow]
    BY <1>0, Shapes
  <2>2. CASE post[d].subs = <<>>
    <3>1. UNCHANGED post
      BY <1>1, <2>1, <2>2
    <3> QED BY <1>0, <2>0, <3>1, PostKeeps, LessOwed
  <2>3. CASE post[d].subs # <<>>
    <3>1. post' = [post EXCEPT ![d] = Posted(@)]
      BY <1>1, <2>1, <2>3
    <3> QED BY <1>0, <2>0, <2>3, <3>1, PostKeeps, LessOwed
  <2> QED BY <2>2, <2>3
<1>2. CASE post[d].subs # <<>> /\ post' = [post EXCEPT ![d] = Missed(@)] /\ Fault
  <2>1. faults' \in 0..MaxFaults /\ faults' >= faults
    BY <1>0, <1>2, FaultCounted
  <2> QED BY <1>0, <1>2, <2>1, PostKeeps, LessOwed
<1> QED BY <1>1, <1>2 DEF Reply

\* Whom a callback names, and what it carries.
LEMMA PostingTarget ==
  ASSUME WaitInv, NEW d \in Senders, Posting(d)
  PROVE  Target(d) \in Runs /\ post[d].sid \in Sessions /\ Owed(Target(d), post[d].sid)
<1>1. post[d].subs \in Seq(Runs) /\ post[d].subs # <<>> /\ post[d].sid \in 0..Len(sessions)
  BY Shapes DEF WaitInv, Posting, PostRow
<1>2. post[d].sid \in Sessions
  BY <1>1, Shapes DEF WaitInv, RunnerInv
<1>3. Head(post[d].subs) \in Runs /\ Head(post[d].subs) = post[d].subs[1] /\ 1 \in DOMAIN post[d].subs
  BY <1>1, HeadTailProperties, LenProperties
<1>4. Listed(Head(post[d].subs), post[d].subs)
  BY <1>3 DEF Listed
<1> QED BY <1>2, <1>3, <1>4 DEF Target, Owed

\* The waiting goroutine is given a result: it is the one that was asked for, or it came before.
LEMMA SendSessionResultKeeps ==
  ASSUME WaitInv, NEW d \in Senders, SendSessionResult(d)
  PROVE  WaitInv'
<1>0. PICK r \in Runs, s \in Sessions : r = Target(d) /\ s = post[d].sid
  BY PostingTarget DEF SendSessionResult
<1>1. Owed(r, s) /\ r \in registry
  BY <1>0, PostingTarget DEF SendSessionResult
<1>2. RunnerInv' /\ \A q \in Runs : NoMore(q)
  BY ReplyKeeps DEF SendSessionResult
<1>3. registry' = registry \ {r} /\ chan' = [chan EXCEPT ![r] = s] /\ told' = told \cup {<<r, s>>}
      /\ unsure' = IF s # Watchdog /\ <<r, s>> \in told THEN unsure \cup {r} ELSE unsure
  BY <1>0 DEF SendSessionResult, Handled
<1>4. UNCHANGED <<claim, status, snapshot, saved, resumes, pc, call, attached, ctxDone, asked, answers, cancelling, cancelled>>
  BY DEF SendSessionResult, cancelVars
<1>5. s \in Results /\ s # Watchdog /\ s # None /\ s \in 0..MaxSessions
  BY <1>1, RunnerAssumption DEF Sessions, Results, Watchdog, None
<1>6. chan' \in [Runs -> 0..MaxSessions] /\ chan'[r] = s /\ \A q \in Runs \ {r} : chan'[q] = chan[q]
  BY <1>1, <1>3, <1>5 DEF WaitInv, RunShapes, TypeOK
<1>7. RunShapes'
  <2>1. told' \subseteq Runs \X Results /\ unsure' \subseteq Runs /\ registry' \subseteq Runs
    BY <1>1, <1>3, <1>5 DEF WaitInv, RunShapes, TypeOK
  <2>2. TypeOK'
    BY <1>2, <1>4, <1>6, <2>1 DEF WaitInv, RunShapes, TypeOK, RunnerInv
  <2> QED BY <1>4, <2>2 DEF WaitInv, RunShapes
<1>8. \A q \in Runs \ {r} : Same(q)
  BY <1>3, <1>4, <1>6 DEF Same, SureSame
<1>9. Good(r)
  BY <1>1 DEF WaitInv
<1>10. pc[r] \in InWait
  BY <1>1, <1>9 DEF Good, Placed
<1>11. Placed(r)' /\ Answerable(r)'
  BY <1>2, <1>3, <1>4, <1>5, <1>6, <1>9, <1>10 DEF Good, Placed, Answerable, Claimed, Busy, InWait
<1>12. ASSUME r \notin unsure' PROVE Sure(r)'
  <2>1. Sure(r) /\ <<r, s>> \notin told
    BY <1>3, <1>5, <1>9, <1>12 DEF Good
  <2>2. Len(asked[r]) = call[r]
    BY <1>10, <2>1 DEF Sure, Answered, InWait, Busy
  <2>3. s = asked[r][call[r]]
    BY <1>1, <2>1, <2>2 DEF Sure, Told
  <2>4. Answered(r)'
    BY <1>4, <2>1 DEF Sure, Answered
  <2>5. (\A e \in Callers : ~Awaits(e, r)) /\ resumes[r] = {}
    BY <1>10, <2>1 DEF Sure, OneAnswer, InWait
  <2>6. \A e \in Callers : ~Awaits(e, r)'
    BY <1>3, <1>4, <2>5 DEF Awaits
  <2>7. OneAnswer(r)'
    BY <1>1, <1>3, <1>4, <1>6, <2>1, <2>3, <2>5, <2>6 DEF Sure, OneAnswer
  <2>8. Told(r)'
    BY <1>1, <1>2, <1>3, <1>4, <2>1 DEF Sure, Told, NoMore
  <2> QED BY <2>4, <2>7, <2>8 DEF Sure
<1> QED BY <1>1, <1>2, <1>7, <1>8, <1>11, <1>12, OneRun DEF Good

\* The snapshot is claimed with a result that fits the call, or with one that came before.
LEMMA ClaimKeeps ==
  ASSUME WaitInv, NEW r \in Runs, NEW d \in Callers, ClaimWaitState(d, r), Carried(d) \in Results, r \notin registry,
         UNCHANGED <<faults, runnerVars, status, saved, registry, chan, resumes,
                     pc, call, attached, ctxDone, histVars, cancelVars>>,
         r \notin unsure => \/ Carried(d) # Watchdog /\ <<r, Carried(d)>> \in told
                            \/ pc[r] = "off" /\ Fits(r, Carried(d))
  PROVE  WaitInv'
<1>0. PICK x \in Results : x = Carried(d)
  OBVIOUS
<1> DEFINE c == [run |-> r, call |-> snapshot[r], res |-> x]
<1>1. claim[d] = NoClaim /\ snapshot[r] # 0 /\ claim' = [claim EXCEPT ![d] = c] /\ snapshot' = [snapshot EXCEPT ![r] = 0]
  BY <1>0 DEF ClaimWaitState
<1>2. UNCHANGED <<status, saved, registry, chan, resumes, pc, call, attached, ctxDone, asked, answers, told, unsure,
                  cancelling, cancelled>>
  BY DEF histVars, cancelVars
<1>3. RunnerInv' /\ \A q : NoMore(q) /\ (Owing(q)' <=> Owing(q))
  BY RunnerIdle
<1>5. snapshot[r] \in 1..Len(Plan[r]) /\ Len(Plan[r]) \in Nat
  <2>1. snapshot[r] \in 0..Len(Plan[r])
    BY DEF WaitInv, RunShapes, TypeOK
  <2> QED BY <1>1, <2>1, CallBounds
<1>6. c \in [run : Runs \cup {None}, call : Nat, res : Results] /\ c.run = r /\ c.call = snapshot[r] /\ c.res = x
  BY <1>5
<1> HIDE DEF c
<1>7. claim' \in [Callers -> [run : Runs \cup {None}, call : Nat, res : Results]] /\ claim'[d] = c
      /\ \A e \in Callers \ {d} : claim'[e] = claim[e]
  BY <1>1, <1>6 DEF WaitInv, RunShapes, TypeOK
<1>8. snapshot' \in [Runs -> Nat] /\ snapshot'[r] = 0 /\ \A q \in Runs \ {r} : snapshot'[q] = snapshot[q]
  BY <1>1 DEF WaitInv, RunShapes
<1>9. RunShapes'
  <2>1. snapshot'[r] \in 0..Len(Plan[r]) /\ saved'[r] \in 0..Len(Plan[r])
    BY <1>2, <1>5, <1>8 DEF WaitInv, RunShapes, TypeOK
  <2>2. \A q \in Runs : {snapshot'[q], saved'[q]} \subseteq 0..Len(Plan[q])
    BY <1>2, <1>8, <2>1, CallsTyped DEF WaitInv
  <2>3. TypeOK'
    BY <1>2, <1>3, <1>7, <2>2 DEF WaitInv, RunShapes, TypeOK, RunnerInv
  <2>4. \A e \in Callers : claim'[e] # NoClaim => claim'[e].run \in Runs /\ claim'[e].call \in 1..Len(Plan[claim'[e].run])
    BY <1>5, <1>6, <1>7 DEF WaitInv, RunShapes
  <2> QED BY <1>2, <1>8, <2>3, <2>4 DEF WaitInv, RunShapes
<1>10. claim[d].run # r /\ \A q \in Runs : claim[d].run # q
  BY <1>1, RunnerAssumption DEF NoClaim, None
<1>11. \A q \in Runs \ {r} : Same(q)
  BY <1>2, <1>6, <1>7, <1>8, <1>10 DEF Same, SureSame
<1>12. Good(r)
  BY DEF WaitInv
<1>13. Claimed(r)'
  BY <1>6, <1>7 DEF Claimed
<1>14. Placed(r)' /\ Answerable(r)'
  BY <1>1, <1>2, <1>3, <1>8, <1>12, <1>13 DEF Good, Placed, Answerable
<1>15. ASSUME r \notin unsure' PROVE Sure(r)'
  <2>1. Sure(r)
    BY <1>2, <1>12, <1>15 DEF Good
  <2>2. /\ snapshot[r] = call[r] /\ Len(asked[r]) = call[r] /\ resumes[r] = {} /\ \A e \in Callers : ~Awaits(e, r)
    BY <1>1, <2>1 DEF Sure, OneAnswer
  <2>3. \A e \in Callers \ {d} : ~Awaits(e, r)'
    BY <1>2, <1>7, <2>2 DEF Awaits
  <2>4. Awaits(d, r)' => pc[r] = "off" /\ Fits(r, x)
    BY <1>0, <1>2, <1>6, <1>7, <1>15 DEF Awaits
  <2>5. Fits(r, x) => Fits(r, x)'
    BY <1>2, <1>3 DEF Fits
  <2>6. OneAnswer(r)'
    BY <1>2, <1>6, <1>7, <1>8, <2>1, <2>2, <2>3, <2>4, <2>5 DEF Sure, OneAnswer
  <2>7. Answered(r)' /\ Told(r)'
    BY <1>2, <1>3, <2>1 DEF Sure, Answered, Told, NoMore
  <2> QED BY <2>6, <2>7 DEF Sure
<1> QED BY <1>3, <1>9, <1>11, <1>14, <1>15, OneRun DEF Good

\* By a callback, when no goroutine waits.
LEMMA ResumeByCallbackKeeps ==
  ASSUME WaitInv, NEW d \in Senders, ResumeByCallback(d)
  PROVE  WaitInv'
<1> DEFINE r == Target(d)
           s == post[d].sid
<1>1. r \in Runs /\ s \in Sessions /\ Owed(r, s) /\ r \notin registry /\ ClaimWaitState(d, r) /\ snapshot[r] # 0
  BY PostingTarget DEF ResumeByCallback, ClaimWaitState
<1>2. d \in Callers /\ Carried(d) = s /\ s \in Results /\ s # Watchdog
  BY <1>1, ResultSets, RunnerAssumption DEF Carried, Sessions
<1> HIDE DEF r, s
<1>3. ASSUME r \notin unsure, <<r, s>> \notin told PROVE pc[r] = "off" /\ Fits(r, s)
  <2>1. Good(r) /\ Sure(r)
    BY <1>1, <1>3 DEF WaitInv, Good
  <2>2. pc[r] \in {"mark", "wait", "off"} /\ Len(asked[r]) = call[r]
    BY <1>1, <2>1 DEF Sure, OneAnswer
  <2>3. s = asked[r][call[r]]
    BY <1>1, <1>3, <2>1, <2>2 DEF Sure, Told
  <2>4. pc[r] \notin {"mark", "wait"}
    <3>1. pc[r] \in {"mark", "wait"} => chan[r] # None
      BY <1>1, <2>1 DEF Good, Placed, InWait
    <3>2. chan[r] # None => <<r, s>> \in told
      BY <2>1, <2>3 DEF Sure, OneAnswer
    <3> QED BY <1>3, <3>1, <3>2
  <2> QED BY <1>2, <2>2, <2>3, <2>4 DEF Fits
<1> QED BY <1>1, <1>2, <1>3, ClaimKeeps DEF ResumeByCallback

\* By the watchdog, when the runner has nothing left to say.
LEMMA SweepStaleKeeps ==
  ASSUME WaitInv, SweepStale
  PROVE  WaitInv'
<1>1. PICK r \in Runs : Stale(r) /\ ClaimWaitState(Watchdog, r)
  BY DEF SweepStale
<1>2. pc[r] = "off" /\ ~Owing(r)
  BY <1>1, OwesSession DEF Stale, WaitInv
<1>3. Carried(Watchdog) = Watchdog /\ Watchdog \in Results /\ Watchdog \in Callers
  BY ResultSets DEF Carried
<1>4. r \notin registry
  BY <1>2 DEF WaitInv, Good, Placed, InWait
<1>5. Fits(r, Carried(Watchdog))
  BY <1>2, <1>3 DEF Fits
<1> QED BY <1>1, <1>2, <1>3, <1>4, <1>5, ClaimKeeps DEF SweepStale

\* Nobody waits: accepted and forgotten.
LEMMA IgnoreCallbackKeeps ==
  ASSUME WaitInv, NEW d \in Senders, IgnoreCallback(d)
  PROVE  WaitInv'
<1>1. RunnerInv' /\ \A q \in Runs : NoMore(q)
  BY ReplyKeeps DEF IgnoreCallback
<1>2. UNCHANGED <<claim, status, snapshot, saved, registry, chan, resumes, pc, call, attached, ctxDone, asked, answers,
                  told, unsure, cancelling, cancelled>>
  BY DEF IgnoreCallback, runVars, histVars, cancelVars
<1>3. RunShapes'
  <2>1. TypeOK'
    BY <1>1, <1>2 DEF WaitInv, RunShapes, TypeOK, RunnerInv
  <2> QED BY <2>1, <1>2 DEF WaitInv, RunShapes
<1>4. \A q \in Runs : Same(q)
  BY <1>2 DEF Same, SureSame
<1> QED BY <1>1, <1>3, <1>4, NoRun

\* The claimed run is given the result, unless it was cancelled; given twice, it is unsure.
LEMMA ReviveKeeps ==
  ASSUME WaitInv, NEW d \in Callers, Revive(d)
  PROVE  WaitInv'
<1>1. PICK r \in Runs : r = claim[d].run /\ claim[d].call \in 1..Len(Plan[r]) /\ claim[d].res \in Results
  BY DEF Revive, WaitInv, RunShapes, TypeOK
<1>2. PICK x \in [call : 1..Len(Plan[r]), res : Results] : x.call = claim[d].call /\ x.res = claim[d].res
        /\ x = [call |-> claim[d].call, res |-> claim[d].res]
  BY <1>1
<1>3. RunnerInv' /\ \A q \in Runs : NoMore(q)
  <2>1. CASE d = Watchdog
    BY <2>1, RunnerIdle DEF Revive
  <2>2. CASE d # Watchdog
    BY <2>2, ReplyKeeps DEF Revive, Callers
  <2> QED BY <2>1, <2>2
<1>4. claim' = [claim EXCEPT ![d] = NoClaim]
      /\ UNCHANGED <<snapshot, saved, registry, chan, pc, call, attached, ctxDone, asked, answers, cancelling, cancelled>>
  BY DEF Revive, cancelVars
<1>5. claim' \in [Callers -> [run : Runs \cup {None}, call : Nat, res : Results]] /\ claim'[d] = NoClaim
      /\ \A e \in Callers \ {d} : claim'[e] = claim[e]
  <2>1. NoClaim \in [run : Runs \cup {None}, call : Nat, res : Results]
    BY RunnerAssumption DEF NoClaim, None, Results, Watchdog
  <2> QED BY <1>4, <2>1 DEF WaitInv, RunShapes, TypeOK
<1>6. \A e \in Callers : claim'[e] # NoClaim => claim'[e].run \in Runs /\ claim'[e].call \in 1..Len(Plan[claim'[e].run])
  BY <1>5 DEF WaitInv, RunShapes
<1>7. NoClaim.run = None /\ \A q \in Runs : q # None
  BY RunnerAssumption DEF NoClaim, None
<1>8. Good(r)
  BY DEF WaitInv
<1>9. \A q \in Runs : Awaits(d, q)' = FALSE
  BY <1>5, <1>7 DEF Awaits
<1>10. CASE status[r] = "cancelled"
  <2>1. UNCHANGED <<status, resumes, told, unsure>>
    BY <1>1, <1>10 DEF Revive
  <2>2. TypeOK'
    BY <1>3, <1>4, <1>5, <2>1 DEF WaitInv, RunShapes, TypeOK, RunnerInv
  <2>3. RunShapes'
    BY <1>4, <1>6, <2>1, <2>2 DEF WaitInv, RunShapes
  <2>4. \A q \in Runs \ {r} : Same(q)
    BY <1>1, <1>4, <1>5, <1>7, <2>1 DEF Same, SureSame
  <2>5. Placed(r)' /\ Answerable(r)'
    BY <1>1, <1>3, <1>4, <1>5, <1>7, <1>8, <1>10, <2>1 DEF Good, Placed, Answerable, Claimed, NoMore
  <2>6. ASSUME r \notin unsure' PROVE Sure(r)'
    <3>1. Sure(r)
      BY <1>8, <2>1, <2>6 DEF Good
    <3>2. Answered(r)' /\ Told(r)'
      BY <1>3, <1>4, <2>1, <3>1 DEF Sure, Answered, Told, NoMore
    <3>3. \A e \in Callers : Awaits(e, r)' => Awaits(e, r) /\ claim'[e] = claim[e]
      BY <1>5, <1>9, <2>1 DEF Awaits
    <3>4. \A y : Fits(r, y) => Fits(r, y)'
      BY <1>3, <1>4 DEF Fits, NoMore
    <3>5. OneAnswer(r)'
      BY <1>4, <2>1, <3>1, <3>3, <3>4 DEF Sure, OneAnswer
    <3> QED BY <3>2, <3>5 DEF Sure
  <2> QED BY <1>3, <2>3, <2>4, <2>5, <2>6, OneRun DEF Good
<1>11. CASE status[r] # "cancelled"
  <2>1. status' = [status EXCEPT ![r] = "running"] /\ resumes' = [resumes EXCEPT ![r] = @ \cup {x}]
        /\ told' = told \cup {<<r, x.res>>}
        /\ unsure' = IF x.res # Watchdog /\ <<r, x.res>> \in told THEN unsure \cup {r} ELSE unsure
    BY <1>1, <1>2, <1>11 DEF Revive, Handled
  <2>2. x \in Entry /\ x.res \in Results
    BY <1>2, CallBounds DEF Entry
  <2>3. /\ status' \in [Runs -> Status] /\ status'[r] = "running" /\ \A q \in Runs \ {r} : status'[q] = status[q]
        /\ resumes' \in [Runs -> SUBSET Entry] /\ resumes'[r] = resumes[r] \cup {x}
        /\ \A q \in Runs \ {r} : resumes'[q] = resumes[q]
    BY <2>1, <2>2 DEF Status, WaitInv, RunShapes, TypeOK
  <2>4. \A q \in Runs : resumes'[q] \subseteq [call : 1..Len(Plan[q]), res : Results]
    BY <1>2, <2>3 DEF WaitInv, RunShapes, TypeOK
  <2>5. told' \subseteq Runs \X Results /\ unsure' \subseteq Runs
    BY <2>1, <2>2 DEF WaitInv, RunShapes, TypeOK
  <2>6. TypeOK'
    BY <1>3, <1>4, <1>5, <2>3, <2>4, <2>5 DEF WaitInv, RunShapes, TypeOK, RunnerInv
  <2>7. RunShapes'
    BY <1>4, <1>6, <2>3, <2>6 DEF WaitInv, RunShapes
  <2>8. \A q \in Runs \ {r} : Same(q)
    BY <1>1, <1>4, <1>5, <1>7, <2>1, <2>3 DEF Same, SureSame
  <2>9. Claimed(r)
    BY <1>1 DEF Claimed
  <2>10. Placed(r)' /\ Answerable(r)'
    <3>1. Placed(r)'
      BY <1>3, <1>4, <1>8, <2>3, <2>9 DEF Good, Placed, NoMore
    <3>2. Answerable(r)'
      BY <1>4, <1>8, <2>3 DEF Good, Answerable
    <3> QED BY <3>1, <3>2
  <2>11. ASSUME r \notin unsure' PROVE Sure(r)'
    <3>1. Sure(r) /\ (x.res = Watchdog \/ <<r, x.res>> \notin told)
      BY <1>8, <2>1, <2>11 DEF Good
    <3>2. Awaits(d, r)
      BY <1>1, <1>2, <3>1 DEF Awaits
    <3>3. /\ pc[r] = "off" /\ x.call = call[r] /\ Len(asked[r]) = call[r] /\ resumes[r] = {} /\ Fits(r, x.res)
          /\ \A e \in Callers : Awaits(e, r) => e = d
      BY <1>2, <3>1, <3>2 DEF Sure, OneAnswer
    <3>4. snapshot[r] = 0 /\ chan[r] = None
      BY <1>8, <3>1, <3>2, <3>3 DEF Sure, OneAnswer, Good, Placed, InWait
    <3>5. \A e \in Callers : Awaits(e, r)' = FALSE
      <4>1. \A e \in Callers \ {d} : Awaits(e, r)' => Awaits(e, r)
        BY <1>5, <2>1 DEF Awaits
      <4>2. \A e \in Callers \ {d} : ~Awaits(e, r)'
        BY <3>3, <4>1
      <4> QED BY <1>9, <4>2 DEF Awaits
    <3>6. Fits(r, x.res)'
      BY <1>3, <1>4, <3>3 DEF Fits, NoMore
    <3>7. <<r, x.res>> \in told' /\ resumes'[r] = {x}
      BY <2>1, <2>3, <3>3
    <3>8. OneAnswer(r)'
      BY <1>4, <3>3, <3>4, <3>5, <3>6, <3>7 DEF OneAnswer
    <3>9. Answered(r)' /\ Told(r)'
      BY <1>3, <1>4, <2>1, <3>1 DEF Sure, Answered, Told, NoMore
    <3> QED BY <3>8, <3>9 DEF Sure
  <2> QED BY <1>3, <2>7, <2>8, <2>10, <2>11, OneRun DEF Good
<1> QED BY <1>10, <1>11

(* ------------------- Cancel, a restart, and the runner alone -------------- *)

\* The three steps of Cancel after the status are about a run that is marked as cancelled.
LEMMA CancelStepKeeps ==
  ASSUME WaitInv, CancelStep
  PROVE  WaitInv'
<1> DEFINE c == cancelling.run
<1>1. PICK r \in Runs : r = c /\ r \in cancelled
  <2>1. cancelling # Idle
    BY DEF CancelStep, CancelRun, CancelRunnerSession, CancelPurge, Idle
  <2> QED BY <2>1 DEF WaitInv, RunShapes, TypeOK
<1>2. UNCHANGED <<claim, status, saved, registry, chan, resumes, pc, call, attached, asked, answers, told, unsure, cancelled>>
  BY DEF CancelStep, CancelRun, CancelRunnerSession, CancelPurge, histVars, runVars
<1>3. RunnerInv' /\ \A q \in Runs : NoMore(q)
  <2>1. CASE UNCHANGED <<runnerVars, faults>>
    BY <2>1, RunnerIdle
  <2>2. CASE CancelRunnerSession /\ saved[r] # 0 /\ HandleCancel(Plan[r][saved[r]], r)
    <3>1. faults' = faults /\ UNCHANGED <<sessions, current, journal, todo, post, crashes>>
      BY <2>2 DEF CancelRunnerSession, HandleCancel
    <3>2. stopped' \subseteq Sessions \X Runs
      <4>1. RunnerInv /\ stopped \subseteq Sessions \X Runs
        BY DEF WaitInv, RunnerInv, RunnerTypeOK
      <4>2. CASE UNCHANGED stopped
        BY <4>1, <4>2
      <4>3. CASE Joinable(Plan[r][saved[r]]) /\ stopped' = stopped \cup {<<current[Plan[r][saved[r]]], r>>}
        <5>1. saved[r] \in 1..Len(Plan[r])
          <6>1. saved[r] \in 0..Len(Plan[r]) /\ Len(Plan[r]) \in Nat
            BY CallBounds DEF WaitInv, RunShapes, TypeOK
          <6> QED BY <2>2, <6>1
        <5>2. Plan[r][saved[r]] \in Keys
          BY <5>1, PlanAssumption
        <5>3. current[Plan[r][saved[r]]] \in Sessions
          BY <4>1, <4>3, <5>2, Shapes DEF Joinable, RunnerInv, RunnerTypeOK
        <5> QED BY <4>1, <4>3, <5>3
      <4> QED BY <2>2, <4>2, <4>3 DEF HandleCancel
    <3>3. RunnerInv'
      BY <3>1, <3>2 DEF WaitInv, RunnerInv, RunnerTypeOK
    <3> QED BY <3>1, <3>3 DEF NoMore, Owed, Owing
  <2> QED BY <1>1, <2>1, <2>2 DEF CancelStep, CancelRun, CancelRunnerSession, CancelPurge
<1>4. cancelling' \in [run : Runs \cup {None}, at : {"idle", "signal", "runner", "purge"}]
      /\ (cancelling' = Idle \/ cancelling'.run \in cancelled)
  <2>1. cancelling \in [run : Runs \cup {None}, at : {"idle", "signal", "runner", "purge"}]
    BY DEF WaitInv, RunShapes
  <2>2. \/ cancelling' = [cancelling EXCEPT !.at = "runner"] \/ cancelling' = [cancelling EXCEPT !.at = "purge"]
        \/ cancelling' = Idle
    BY DEF CancelStep, CancelRun, CancelRunnerSession, CancelPurge
  <2> QED BY <1>1, <2>1, <2>2 DEF Idle
<1>5. ctxDone' \in [Runs -> BOOLEAN] /\ (ctxDone[r] => ctxDone'[r]) /\ \A q \in Runs \ {r} : ctxDone'[q] = ctxDone[q]
  <2>1. CASE CancelRun
    <3> DEFINE b == ctxDone[r] \/ pc[r] # "off"
    <3>1. ctxDone' = [ctxDone EXCEPT ![r] = b] /\ b \in BOOLEAN /\ (ctxDone[r] => b)
      BY <1>1, <2>1 DEF CancelRun
    <3> HIDE DEF b
    <3> QED BY <3>1 DEF WaitInv, RunShapes, TypeOK
  <2>2. CASE UNCHANGED ctxDone
    BY <2>2 DEF WaitInv, RunShapes, TypeOK
  <2> QED BY <2>1, <2>2 DEF CancelStep, CancelRunnerSession, CancelPurge, runVars
<1>6. snapshot' \in [Runs -> Nat] /\ snapshot'[r] \in {0, snapshot[r]} /\ \A q \in Runs \ {r} : snapshot'[q] = snapshot[q]
  <2>1. snapshot' = snapshot \/ snapshot' = [snapshot EXCEPT ![r] = 0]
    BY <1>1 DEF CancelStep, CancelRun, CancelRunnerSession, CancelPurge, runVars
  <2> QED BY <2>1 DEF WaitInv, RunShapes
<1>7. RunShapes'
  <2>1. snapshot'[r] \in 0..Len(Plan[r]) /\ saved'[r] \in 0..Len(Plan[r])
    BY <1>2, <1>6, CallBounds DEF WaitInv, RunShapes, TypeOK
  <2>2. \A q \in Runs : {snapshot'[q], saved'[q]} \subseteq 0..Len(Plan[q])
    BY <1>2, <1>6, <2>1, CallsTyped DEF WaitInv
  <2>3. TypeOK'
    BY <1>2, <1>3, <1>4, <1>5, <2>2 DEF WaitInv, RunShapes, TypeOK, RunnerInv
  <2> QED BY <1>2, <1>4, <1>6, <2>3 DEF WaitInv, RunShapes
<1>8. \A q \in Runs \ {r} : Same(q)
  BY <1>2, <1>5, <1>6 DEF Same, SureSame
<1>9. Good(r)
  BY DEF WaitInv
<1>10. Placed(r)' /\ Answerable(r)'
  BY <1>1, <1>2, <1>3, <1>5, <1>6, <1>9 DEF Good, Placed, Answerable, Claimed, NoMore
<1>11. ASSUME r \notin unsure' PROVE Sure(r)'
  <2>1. Sure(r)
    BY <1>2, <1>9, <1>11 DEF Good
  <2>2. Answered(r)' /\ Told(r)'
    BY <1>2, <1>3, <1>5, <2>1 DEF Sure, Answered, Told, NoMore
  <2>3. \A y : Fits(r, y) => Fits(r, y)'
    BY <1>2, <1>3 DEF Fits, NoMore
  <2>4. \A e \in Callers : Awaits(e, r)' <=> Awaits(e, r)
    BY <1>2 DEF Awaits
  <2>5. OneAnswer(r)'
    BY <1>2, <1>6, <2>1, <2>3, <2>4 DEF Sure, OneAnswer
  <2> QED BY <2>2, <2>5 DEF Sure
<1> QED BY <1>3, <1>7, <1>8, <1>10, <1>11, OneRun DEF Good

\* The process dies: nobody waits and nobody has claimed anything; the snapshots are there.
LEMMA RestartKeeps ==
  ASSUME WaitInv, Restart
  PROVE  WaitInv'
<1>1. RunnerInv' /\ \A q \in Runs : NoMore(q)
  BY RunnerIdle DEF Restart
<1>2. UNCHANGED <<snapshot, saved, call, asked, answers, told, unsure, cancelled>>
  BY DEF Restart, histVars
<1>3. /\ status' = [r \in Runs |-> IF Orphaned(r) THEN "failed" ELSE status[r]]
      /\ registry' = {} /\ chan' = [r \in Runs |-> None] /\ resumes' = [r \in Runs |-> {}]
      /\ pc' = [r \in Runs |-> "off"]
      /\ ctxDone' = [r \in Runs |-> FALSE] /\ attached' = [r \in Runs |-> FALSE]
      /\ claim' = [d \in Callers |-> NoClaim] /\ cancelling' = Idle
  BY DEF Restart
<1>4. NoClaim \in [run : Runs \cup {None}, call : Nat, res : Results] /\ NoClaim.run = None /\ None \notin Runs
      /\ None \in 0..MaxSessions /\ Idle \in [run : Runs \cup {None}, at : {"idle", "signal", "runner", "purge"}]
  BY RunnerAssumption DEF NoClaim, None, Results, Watchdog, Idle
<1>5. status' \in [Runs -> Status]
  BY <1>3 DEF WaitInv, RunShapes, TypeOK, Status
<1>6. RunShapes'
  <2>1. TypeOK'
    BY <1>1, <1>2, <1>3, <1>4, <1>5 DEF WaitInv, RunShapes, TypeOK, RunnerInv, RunPC
  <2> QED BY <1>2, <1>3, <1>4, <2>1 DEF WaitInv, RunShapes
<1>7. ASSUME NEW r \in Runs PROVE Good(r)'
  <2>1. Good(r)
    BY DEF WaitInv
  <2>2. ~Claimed(r)' /\ \A d \in Callers : Awaits(d, r)' = FALSE
    BY <1>3, <1>4 DEF Claimed, Awaits
  <2>3. Placed(r)'
    BY <1>2, <1>3, <2>1, <2>2 DEF Good, Placed, InWait, Busy
  <2>4. Answerable(r)'
    BY <1>2, <1>3, <2>1 DEF Good, Answerable, Orphaned
  <2>5. ASSUME r \notin unsure' PROVE Sure(r)'
    <3>1. Sure(r)
      BY <1>2, <2>1, <2>5 DEF Good
    <3>2. Answered(r)' /\ Told(r)'
      BY <1>1, <1>2, <1>3, <3>1 DEF Sure, Answered, Told, NoMore, Busy
    <3>3. OneAnswer(r)'
      BY <1>2, <1>3, <2>2, <3>1 DEF Sure, OneAnswer
    <3> QED BY <3>2, <3>3 DEF Sure
  <2> QED BY <2>3, <2>4, <2>5 DEF Good
<1> QED BY <1>1, <1>6, <1>7 DEF WaitInv

\* A step of the runner alone.
LEMMA RunnerKeeps ==
  ASSUME WaitInv, RunnerStep \/ RunnerFault, ApiUnchanged
  PROVE  WaitInv'
<1>1. UNCHANGED <<claim, status, snapshot, saved, registry, chan, resumes, pc, call, attached, ctxDone, asked, answers,
                  told, unsure, cancelling, cancelled>>
  BY DEF ApiUnchanged, runVars, histVars, cancelVars
<1>2. RunnerInv
  BY DEF WaitInv
<1>3. RunnerInv' /\ OwesLess
  <2>1. ASSUME NEW s \in Sessions, SessionStep(s) PROVE RunnerInv' /\ OwesLess
    BY <1>2, <2>1, SessionKeeps
  <2>2. CASE RecoveryStep
    BY <1>2, <2>2, RecoveryKeeps
  <2>3. CASE CrashRunner
    BY <1>2, <2>3, CrashKeeps
  <2>4. ASSUME NEW d \in Senders, MissCallback(d) PROVE RunnerInv' /\ OwesLess
    <3>1. Fault /\ post[d].subs # <<>> /\ post' = [post EXCEPT ![d] = Missed(@)]
          /\ UNCHANGED <<sessions, current, journal, todo, stopped, crashes>>
      BY <2>4 DEF MissCallback
    <3>2. faults' \in 0..MaxFaults /\ faults' >= faults
      BY <3>1, FaultCounted, RunnerAssumption DEF RunnerInv, WaitInv, RunnerTypeOK
    <3> QED BY <1>2, <3>1, <3>2, PostKeeps
  <2> QED BY <2>1, <2>2, <2>3, <2>4 DEF RunnerStep, RunnerFault
<1>4. RunShapes'
  <2>1. TypeOK'
    BY <1>1, <1>3 DEF WaitInv, RunShapes, TypeOK, RunnerInv
  <2> QED BY <1>1, <2>1 DEF WaitInv, RunShapes
<1>5. \A q \in Runs : Same(q)
  BY <1>1 DEF Same, SureSame
<1> QED BY <1>3, <1>4, <1>5, LessOwed, NoRun

(* ------------------------------- The theorems ----------------------------- *)

\* No run has done anything: nothing is owed and nothing waits.
LEMMA WaitInit == Init => WaitInv
<1> SUFFICES ASSUME Init PROVE WaitInv
  OBVIOUS
<1>0. MaxSessions \in Nat /\ MaxTries \in Nat \ {0} /\ MaxFaults \in Nat /\ 0 \notin Runs
  BY RunnerAssumption
<1>1. RunnerInv
  <2>1. NoPost \in [sid : 0..0, subs : Seq(Runs), tries : 0..(MaxTries - 1)] /\ NoPost.subs = <<>>
    BY <1>0 DEF NoPost, None
  <2>2. NoJournal \in [sid : 0..0, subs : Seq(Runs)] /\ NoJournal.subs = <<>>
    BY DEF NoJournal, None
  <2>3. sessions = <<>> /\ Len(sessions) = 0 /\ sessions \in Seq(SessionRow)
    BY DEF Init, RunnerInit
  <2>4. post = [d \in Senders |-> NoPost] /\ journal = [k \in Keys |-> NoJournal]
        /\ current = [k \in Keys |-> None] /\ todo = {} /\ stopped = {} /\ crashes = 0 /\ faults = 0
    BY DEF Init, RunnerInit
  <2>5. RunnerTypeOK
    BY <1>0, <2>1, <2>2, <2>3, <2>4 DEF RunnerTypeOK, SessionRow, None
  <2> QED BY <2>1, <2>2, <2>4, <2>5 DEF RunnerInv
<1>2. NoClaim \in [run : Runs \cup {None}, call : Nat, res : Results] /\ NoClaim.run = None /\ None \notin Runs
      /\ None \in 0..MaxSessions /\ Idle \in [run : Runs \cup {None}, at : {"idle", "signal", "runner", "purge"}]
  BY <1>0 DEF NoClaim, None, Results, Watchdog, Idle
<1>3. \A r \in Runs : Len(Plan[r]) \in Nat
  BY PlanAssumption, LenProperties
<1>4. RunShapes
  <2>1. \A r \in Runs : snapshot[r] = 0 /\ saved[r] = 0 /\ call[r] = 1 /\ resumes[r] = {}
    BY DEF Init
  <2>2. (\A r \in Runs : {snapshot[r], saved[r]} \subseteq 0..Len(Plan[r])) /\ \A r \in Runs : call[r] \in 1..(Len(Plan[r]) + 1)
    BY <1>3, <2>1
  <2>3. TypeOK
    BY <1>1, <1>2, <2>1, <2>2 DEF Init, TypeOK, RunnerInv, Status, RunPC
  <2> QED BY <1>2, <2>3 DEF Init, RunShapes
<1>5. ASSUME NEW r \in Runs PROVE Good(r)
  <2>1. ~Claimed(r) /\ \A d \in Callers : ~Awaits(d, r)
    BY <1>2 DEF Init, Claimed, Awaits
  <2>2. \A s \in Sessions : ~Owed(r, s)
    BY DEF Init, RunnerInit, Owed, Listed, NoPost, NoJournal
  <2>3. Placed(r) /\ Answerable(r)
    BY <1>2, <2>1 DEF Init, Placed, Answerable, Busy, InWait
  <2>4. asked[r] = <<>> /\ answers[r] = <<>> /\ call[r] = 1 /\ pc[r] = "next"
    BY DEF Init
  <2>5. Sure(r)
    <3>1. Answered(r)
      BY <2>4 DEF Answered, Busy
    <3>2. OneAnswer(r)
      BY <2>1 DEF Init, OneAnswer
    <3> QED BY <2>2, <3>1, <3>2 DEF Sure, Told
  <2> QED BY <2>3, <2>5 DEF Good
<1> QED BY <1>1, <1>4, <1>5 DEF WaitInv

\* Every step keeps the invariant.
LEMMA WaitNext == WaitInv /\ [Next]_vars => WaitInv'
<1> SUFFICES ASSUME WaitInv, [Next]_vars PROVE WaitInv'
  OBVIOUS
<1>1. ASSUME NEW r \in Runs, LoopStep(r) PROVE WaitInv'
  BY <1>1, FinishKeeps, LaunchStep, SaveKeyKeeps, RegisterSessionWaitKeeps, SaveWaitStateKeeps, MarkWaitKeeps, ParkKeeps,
     GiveUpKeeps, DropWaitStateKeeps, UnmarkWaitKeeps, ResumeKeeps DEF LoopStep
<1>2. ASSUME NEW d \in Senders, CallbackStep(d) PROVE WaitInv'
  BY <1>2, SendSessionResultKeeps, ResumeByCallbackKeeps, IgnoreCallbackKeeps DEF CallbackStep
<1>3. ASSUME NEW r \in Runs, LaunchFails(r) \/ CancelStatus(r) \/ Disconnect(r) PROVE WaitInv'
  BY <1>3, LaunchFailsStep, CancelStatusKeeps, DisconnectKeeps
<1>4. ASSUME NEW d \in Callers, Revive(d) PROVE WaitInv'
  BY <1>4, ReviveKeeps
<1>5. CASE UNCHANGED vars
  <2>1. UNCHANGED <<runnerVars, faults, claim, status, snapshot, saved, registry, chan, resumes, pc, call, attached, ctxDone,
                    asked, answers, told, unsure, cancelling, cancelled>>
    BY <1>5 DEF vars, runVars, histVars, cancelVars
  <2>2. RunnerInv' /\ \A q \in Runs : NoMore(q)
    BY <2>1, RunnerIdle
  <2>3. RunShapes'
    <3>1. TypeOK'
      BY <2>1, <2>2 DEF WaitInv, RunShapes, TypeOK, RunnerInv
    <3> QED BY <2>1, <3>1 DEF WaitInv, RunShapes
  <2>4. \A q \in Runs : Same(q)
    BY <2>1 DEF Same, SureSame
  <2> QED BY <2>2, <2>3, <2>4, NoRun
<1> QED BY <1>1, <1>2, <1>3, <1>4, <1>5, SweepStaleKeeps, CancelStepKeeps, RestartKeeps, RunnerKeeps DEF Next, Work, Trouble

\* The inductive invariant: where every run is, what can still answer its call, and what the
\* runner still has to say to it.
THEOREM WaitInvariant == Spec => []WaitInv
<1> QED BY WaitInit, WaitNext, PTL DEF Spec

\* Every variable keeps its shape.
THEOREM WaitTypeCorrect == Spec => []TypeOK
<1>1. WaitInv => TypeOK
  BY DEF WaitInv, RunShapes
<1> QED BY <1>1, WaitInvariant, PTL

\* Through parks, resumes, retries, restarts of either process and shared sessions, the calls of
\* a run are answered in order and once each, and a run that succeeds has all its answers; as
\* long as no answer got lost and no result came twice.
THEOREM CallsAnsweredOnce == Spec => []AnsweredOnce
<1>1. WaitInv => AnsweredOnce
  <2> SUFFICES ASSUME WaitInv, NEW r \in Runs \ unsure
               PROVE  /\ \A i \in DOMAIN answers[r] : answers[r][i].call = i
                      /\ status[r] = "success" => Len(answers[r]) = Len(Plan[r])
    BY DEF AnsweredOnce
  <2>1. Placed(r) /\ Answered(r)
    BY DEF WaitInv, Good, Sure
  <2>2. Len(Plan[r]) \in Nat
    BY CallBounds
  <2> QED BY <2>1, <2>2 DEF Placed, Answered
<1> QED BY <1>1, WaitInvariant, PTL

\* Under the same proviso a call is answered with the result of the session that was started, or
\* joined, for it, with the error of its launch or wait, or by the watchdog.
THEOREM ResultsBelong == Spec => []ResultBelongs
<1>1. WaitInv => ResultBelongs
  BY DEF WaitInv, Good, Sure, Answered, ResultBelongs
<1> QED BY <1>1, WaitInvariant, PTL

\* While a run is shown as waiting, its channel, its snapshot or somebody who has claimed it can
\* still answer it, or its result is there.
THEOREM WaitsAnswerable == Spec => []WaitIsAnswerable
<1>1. WaitInv => WaitIsAnswerable
  BY DEF WaitInv, Good, Placed, Answerable, WaitIsAnswerable, Claimed, InWait
<1> QED BY <1>1, WaitInvariant, PTL
=============================================================================
