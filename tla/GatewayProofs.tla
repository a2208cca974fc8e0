----------------------------- MODULE GatewayProofs -----------------------------
(* The WhatsApp channel's inbox: a message is used once, the channel's own texts   *)
(* start nothing, and the runs of a chat take turns.  Its contacts: a pairing      *)
(* decision gives its sender its role, an escalation is decided once, and no       *)
(* blocked sender is written to.  And its schedule: a slot is sent once, a series  *)
(* does not catch up, and what is cancelled stops.  For any number of messages,    *)
(* chats, contacts, overlapping tasks, reminders, series, edits, faults, restarts. *)
EXTENDS MCGateway, FiniteSetTheorems, WellFoundedInduction, TLAPS

Stages == {"idle", "claim", "screen", "route", "dispatch", "done"}
CallRow == [at : Stages, channel : [assistant : BOOLEAN, bot : BOOLEAN],
            role : {None, "owner", "trusted", "blocked"}, conv : Events \cup {NoEvent}]

\* A request that has claimed its event.
Past(d) == call[d].at \in {"screen", "route", "dispatch"}
\* The request that claimed an event is the only one to use it, and has not yet.
ClaimsInv ==
  /\ \A u \in used : u[1][1] \in claimed
  /\ \A d \in Requests : Past(d) => d[1] \in claimed /\ \A u \in used : u[1][1] # d[1]
  /\ \A d, c \in Requests : Past(d) /\ Past(c) /\ d[1] = c[1] => d = c
  /\ OneUsePerMessage

\* A text is recorded before it leaves, so that its echo is known when it is screened.
Recorded(r, kind) == <<Chat(r), <<r[1], kind>>>> \in outbound
EchoInv ==
  /\ \A r \in Events : poller[r] \in {"answer", "apology"} => Recorded(r, poller[r])
  /\ \A x \in sent : Recorded(x[1], x[2])
  /\ \A d \in Requests : call[d].at # "idle" /\ d[1] \in Echoes => <<Chat(d[1]), d[1]>> \in outbound
  /\ \A d \in Requests : call[d].at \in {"route", "dispatch"} => d[1] \in Typed
  /\ EchoStartsNothing

\* The runs of a chat are in its session's conversation, and one of a conversation executes.
TurnsInv ==
  /\ \A e \in Events : status[e] # None => session[Chat(e)] # NoEvent /\ conv[e] = session[Chat(e)]
  /\ \A d \in Requests : call[d].at = "dispatch" => call[d].conv # NoEvent
  /\ \A r, x \in alive :
       status[r] \in Executing /\ status[x] \in Executing /\ conv[r] = conv[x] => r = x

Shape == InboxTypeOK /\ call \in [Requests -> CallRow]
InboxInv == Shape /\ ClaimsInv /\ EchoInv /\ TurnsInv

-----------------------------------------------------------------------------
\* An event is a typed text or the echo of one, and has a chat.
LEMMA EventParts ==
  /\ \A e \in Events : e[1] \in Names /\ Chat(e) \in Peers /\ e # NoEvent
  /\ \A e \in Echoes : e \in Events /\ e \notin Typed /\ FromMe(e) /\ e = <<e[1], e[2]>>
  /\ \A e \in Events : e \in Typed \/ e \in Echoes
<1>1. \A e \in Typed : e[1] \in Names /\ e # NoEvent /\ e[2] = "typed"
  BY DEF Typed, NoEvent
<1>2. \A e \in Echoes : e[1] \in Names /\ From[e[1]] = Self /\ e # NoEvent /\ e = <<e[1], e[2]>> /\ e[2] # "typed"
  BY DEF Echoes, NoEvent
<1> QED BY <1>1, <1>2, ShapeAssumption DEF Events, Chat, FromMe

\* Requests and runs are for events.
LEMMA RequestParts ==
  /\ \A d \in Requests : d[1] \in Events
  /\ \A d \in Posted : d \in Requests
  /\ \A r \in Runs : r \in Events /\ status[r] # None
BY DEF Requests, Posted, Runs

\* A use of a message names the request and the event.
LEMMA UseParts ==
  ASSUME Shape PROVE \A u \in used : u = <<u[1], u[2]>> /\ u[1] \in Requests /\ u[2] \in Events
BY DEF Shape, InboxTypeOK

\* Every variable keeps its shape; a goroutine in the registry is alive.
LEMMA ShapeStep ==
  ASSUME Shape, [InboxNext]_inboxVars
  PROVE  Shape'
<1>1. ASSUME NEW d \in Posted, Receive(d) PROVE Shape'
  <2>1. /\ call' = [call EXCEPT ![d].at = "claim", ![d].channel = channel]
        /\ channel \in [assistant : BOOLEAN, bot : BOOLEAN]
    BY <1>1 DEF Receive, Shape, InboxTypeOK
  <2>2. call' \in [Requests -> CallRow]
    BY <2>1, RequestParts DEF Shape, CallRow, Stages
  <2>3. InboxTypeOK'
    BY <1>1, RequestParts, ShapeAssumption, BoundAssumption DEF Receive, Shape, CallRow, InboxTypeOK,
       rowVars, runVars, Statuses, Executing
  <2> QED BY <2>2, <2>3 DEF Shape
<1>2. ASSUME NEW d \in Posted, Claim(d) PROVE Shape'
  BY SMTT(30), <1>2, RequestParts, ShapeAssumption, BoundAssumption DEF Claim, NewEvent, Shape, CallRow, Stages,
     InboxTypeOK, rowVars, runVars, Statuses, Executing
<1>3. ASSUME NEW d \in Posted, DropEcho(d) PROVE Shape'
  <2>1. call' = [call EXCEPT ![d].at = "done"]
    BY <1>3 DEF DropEcho, Goto
  <2>2. call' \in [Requests -> CallRow]
    BY <2>1, RequestParts DEF Shape, CallRow, Stages
  <2>3. InboxTypeOK'
    BY <1>3, RequestParts, ShapeAssumption, BoundAssumption DEF DropEcho, Goto, IsEcho, Shape, CallRow,
       InboxTypeOK, rowVars, runVars, Statuses, Executing
  <2> QED BY <2>2, <2>3 DEF Shape
<1>4. ASSUME NEW d \in Posted, OwnerCommand(d) PROVE Shape'
  <2>1. /\ Goto(d, "screen", "done") /\ ~IsEcho(d[1])
        /\ UNCHANGED <<role, claimed, outbound, pairing, session, runVars, poller, copies, sent, used, faults>>
    BY <1>4 DEF OwnerCommand
  <2>2. call' \in [Requests -> CallRow]
    BY <2>1, RequestParts DEF Goto, Shape, CallRow, Stages
  <2>3. call[d].channel \in [assistant : BOOLEAN, bot : BOOLEAN] /\ Says[d[1][1]] \in Commands
    BY <1>4, RequestParts DEF OwnerCommand, IsCommand, Shape, CallRow
  <2>4. channel' \in [assistant : BOOLEAN, bot : BOOLEAN]
    BY <1>4, <2>3 DEF OwnerCommand, Commands
  <2>5. InboxTypeOK'
    BY <2>1, <2>4, RequestParts, ShapeAssumption, BoundAssumption DEF Shape, InboxTypeOK, runVars, Statuses, Executing
  <2> QED BY <2>2, <2>5 DEF Shape
<1>5. ASSUME NEW d \in Posted, AutoApprove(d) PROVE Shape'
  <2>1. call' = [call EXCEPT ![d].at = "route"]
    BY <1>5 DEF AutoApprove, Goto
  <2>2. call' \in [Requests -> CallRow]
    BY <2>1, RequestParts DEF Shape, CallRow, Stages
  <2>3. InboxTypeOK'
    BY <1>5, RequestParts, ShapeAssumption, BoundAssumption DEF AutoApprove, Goto, Passes, Shape, CallRow,
       InboxTypeOK, rowVars, runVars, Statuses, Executing
  <2> QED BY <2>2, <2>3 DEF Shape
<1>6. ASSUME NEW d \in Posted, Admit(d) PROVE Shape'
  <2>1. call' = [call EXCEPT ![d].at = "route"]
    BY <1>6 DEF Admit, Goto
  <2>2. call' \in [Requests -> CallRow]
    BY <2>1, RequestParts DEF Shape, CallRow, Stages
  <2>3. InboxTypeOK'
    BY <1>6, RequestParts, ShapeAssumption, BoundAssumption DEF Admit, Goto, Passes, Shape, CallRow,
       InboxTypeOK, rowVars, runVars, Statuses, Executing
  <2> QED BY <2>2, <2>3 DEF Shape
<1>7. ASSUME NEW d \in Posted, Refuse(d) PROVE Shape'
  <2>1. call' = [call EXCEPT ![d].at = "done"]
    BY <1>7 DEF Refuse, Goto
  <2>2. call' \in [Requests -> CallRow]
    BY <2>1, RequestParts DEF Shape, CallRow, Stages
  <2>3. InboxTypeOK'
    <3>1. pairing' \subseteq Peers
      BY <1>7, RequestParts, EventParts DEF Refuse, Shape, InboxTypeOK
    <3>2. UNCHANGED <<channel, role, claimed, outbound, session, runVars, poller, copies, sent, used, faults>>
      BY <1>7 DEF Refuse
    <3> QED BY <3>1, <3>2 DEF Shape, InboxTypeOK, rowVars, runVars, Statuses, Executing
  <2> QED BY <2>2, <2>3 DEF Shape
<1>8. ASSUME NEW d \in Posted, AnswerRun(d) PROVE Shape'
  <2>1. call' = [call EXCEPT ![d].at = "done"]
    BY <1>8 DEF AnswerRun, Goto
  <2>2. call' \in [Requests -> CallRow]
    BY <2>1, RequestParts DEF Shape, CallRow, Stages
  <2>3. InboxTypeOK'
    <3>1. PICK r \in Events : /\ waiting' = waiting \ {r} /\ answer' = [answer EXCEPT ![r] = d[1]]
                               /\ used' = used \cup {<<d, r>>}
      BY <1>8 DEF AnswerRun, WaitingHere
    <3>2. UNCHANGED <<rowVars, status, conv, alive, asks, parked, poller, copies, sent, faults>>
      BY <1>8 DEF AnswerRun
    <3>3. answer' \in [Events -> Events \cup {NoEvent}]
      BY <3>1, RequestParts DEF Shape, InboxTypeOK
    <3>4. used' \subseteq Requests \X Events /\ waiting' \subseteq alive
      BY <3>1, RequestParts DEF Shape, InboxTypeOK
    <3> QED BY <3>2, <3>3, <3>4 DEF Shape, InboxTypeOK, rowVars, runVars, Statuses, Executing
  <2> QED BY <2>2, <2>3 DEF Shape
<1>9. ASSUME NEW d \in Posted, EnsureConversation(d) PROVE Shape'
  <2>1. \E c \in Events \cup {NoEvent} : call' = [call EXCEPT ![d].at = "dispatch", ![d].conv = c]
    <3>1. d[1] \in Events /\ session[Chat(d[1])] \in Events \cup {NoEvent}
      BY RequestParts, EventParts DEF Shape, InboxTypeOK
    <3> QED BY <1>9, <3>1 DEF EnsureConversation
  <2>2. call' \in [Requests -> CallRow]
    BY <2>1, RequestParts DEF Shape, CallRow, Stages
  <2>3. InboxTypeOK'
    BY <1>9, RequestParts, ShapeAssumption, BoundAssumption DEF EnsureConversation, Shape, CallRow,
       InboxTypeOK, rowVars, runVars, Statuses, Executing
  <2> QED BY <2>2, <2>3 DEF Shape
<1>10. ASSUME NEW d \in Posted, Dispatch(d) PROVE Shape'
  <2>1. call' = [call EXCEPT ![d].at = "done"]
    BY <1>10 DEF Dispatch, Goto
  <2>2. call' \in [Requests -> CallRow]
    BY <2>1, RequestParts DEF Shape, CallRow, Stages
  <2>3. InboxTypeOK'
    <3>1. d[1] \in Events /\ Chat(d[1]) \in Peers /\ d \in Requests
      BY RequestParts, EventParts
    <3>2. session' = [session EXCEPT ![Chat(d[1])] = IF @ = NoEvent THEN call[d].conv ELSE @]
      BY <1>10 DEF Dispatch
    <3>3. session' \in [Peers -> Events \cup {NoEvent}]
      BY <3>1, <3>2 DEF Shape, InboxTypeOK, CallRow
    <3>4. SessionConversation(d) \in Events \cup {NoEvent}
      BY <3>1 DEF SessionConversation, Shape, InboxTypeOK, CallRow
    <3>5. conv' \in [Events -> Events \cup {NoEvent}]
      BY <1>10, <3>1, <3>4 DEF Dispatch, Shape, InboxTypeOK
    <3>6. /\ status' = [status EXCEPT ![d[1]] = "pending"] /\ used' = used \cup {<<d, d[1]>>}
          /\ alive' \in {alive, alive \cup {d[1]}} /\ poller' \in {poller, [poller EXCEPT ![d[1]] = "polling"]}
          /\ UNCHANGED <<channel, role, claimed, outbound, pairing, waiting, answer, asks, parked, copies, sent>>
      BY <1>10 DEF Dispatch
    <3>7. faults' \in 0..MaxFaults
      BY <1>10, BoundAssumption DEF Dispatch, Fault, Shape, InboxTypeOK
    <3>8. status' \in [Events -> Statuses \cup {None}] /\ status'[d[1]] = "pending"
          /\ \A e \in Events : e # d[1] => status'[e] = status[e]
      BY <3>1, <3>6 DEF Shape, InboxTypeOK, Statuses, Executing
    <3>9. alive' \subseteq {e \in Events : status'[e] \in {"pending"} \cup Executing} /\ waiting' \subseteq alive'
      BY <3>1, <3>6, <3>8 DEF Shape, InboxTypeOK
    <3>10. /\ used' \subseteq Requests \X Events
           /\ poller' \in [Events -> {"off", "polling", "answer", "apology", "done"}]
      BY <3>1, <3>6 DEF Shape, InboxTypeOK
    <3> QED BY <3>3, <3>5, <3>6, <3>7, <3>8, <3>9, <3>10 DEF Shape, InboxTypeOK
  <2> QED BY <2>2, <2>3 DEF Shape
<1>11. ASSUME NEW r \in Runs, StartRun(r) PROVE Shape'
  BY <1>11, RequestParts, ShapeAssumption, BoundAssumption DEF StartRun, MyTurn, Shape, CallRow, Stages,
     InboxTypeOK, rowVars, runVars, Statuses, Executing
<1>12. ASSUME NEW r \in Runs, EndRun(r) PROVE Shape'
  BY <1>12, RequestParts, ShapeAssumption, BoundAssumption DEF EndRun, Shape, CallRow, Stages, InboxTypeOK,
     rowVars, runVars, Statuses, Executing
<1>13. ASSUME NEW r \in Runs, ParkRun(r) PROVE Shape'
  BY <1>13, RequestParts, ShapeAssumption, BoundAssumption DEF ParkRun, Shape, CallRow, Stages, InboxTypeOK,
     rowVars, runVars, Statuses, Executing
<1>14. ASSUME NEW r \in Runs, ResumeRun(r) PROVE Shape'
  BY <1>14, RequestParts, ShapeAssumption, BoundAssumption DEF ResumeRun, MyTurn, Shape, CallRow, Stages,
     InboxTypeOK, rowVars, runVars, Statuses, Executing
<1>15. ASSUME NEW r \in Runs, AskUser(r) PROVE Shape'
  BY <1>15, RequestParts, ShapeAssumption, BoundAssumption DEF AskUser, Shape, CallRow, Stages, InboxTypeOK,
     rowVars, runVars, Statuses, Executing
<1>16. ASSUME NEW r \in Runs, MarkAsking(r) PROVE Shape'
  BY <1>16, RequestParts, ShapeAssumption, BoundAssumption DEF MarkAsking, Shape, CallRow, Stages,
     InboxTypeOK, rowVars, runVars, Statuses, Executing
<1>17. ASSUME NEW r \in Runs, TakeAnswer(r) PROVE Shape'
  BY <1>17, RequestParts, ShapeAssumption, BoundAssumption DEF TakeAnswer, Shape, CallRow, Stages,
     InboxTypeOK, rowVars, runVars, Statuses, Executing
<1>18. ASSUME NEW r \in Runs, AskTimesOut(r) PROVE Shape'
  BY <1>18, RequestParts, ShapeAssumption, BoundAssumption DEF AskTimesOut, TimesOut, Shape, CallRow, Stages,
     InboxTypeOK, rowVars, runVars, Statuses, Executing
<1>19. ASSUME NEW r \in Runs, CancelRun(r) PROVE Shape'
  BY <1>19, RequestParts, ShapeAssumption, BoundAssumption DEF CancelRun, Fault, Shape, CallRow, Stages,
     InboxTypeOK, rowVars, runVars, Statuses, Executing
<1>20. ASSUME NEW r \in Runs, PollSuccess(r) PROVE Shape'
  BY <1>20, RequestParts, ShapeAssumption, BoundAssumption DEF PollSuccess, Deliver, RecordOutbound, Shape,
     CallRow, Stages, InboxTypeOK, rowVars, runVars, Statuses, Executing
<1>21. ASSUME NEW r \in Runs, PollFailure(r) PROVE Shape'
  BY <1>21, RequestParts, ShapeAssumption, BoundAssumption DEF PollFailure, Deliver, RecordOutbound, Shape,
     CallRow, Stages, InboxTypeOK, rowVars, runVars, Statuses, Executing
<1>22. ASSUME NEW r \in Runs, PollTimeout(r) PROVE Shape'
  BY <1>22, RequestParts, ShapeAssumption, BoundAssumption DEF PollTimeout, Deliver, RecordOutbound, Shape,
     CallRow, Stages, InboxTypeOK, rowVars, runVars, Statuses, Executing
<1>23. ASSUME NEW r \in Runs, PostReply(r) PROVE Shape'
  BY <1>23, RequestParts, ShapeAssumption, BoundAssumption DEF PostReply, Return, Fault, Shape, CallRow,
     Stages, InboxTypeOK, rowVars, runVars, Statuses, Executing
<1>24. ASSUME Restart PROVE Shape'
  <2>1. call' = [d \in Requests |-> IF call[d].at = "idle" THEN call[d] ELSE [call[d] EXCEPT !.at = "done"]]
    BY <1>24 DEF Restart
  <2>2. call' \in [Requests -> CallRow]
    BY <2>1, RequestParts DEF Shape, CallRow, Stages
  <2>3. InboxTypeOK'
    BY <1>24, RequestParts, ShapeAssumption, BoundAssumption DEF Restart, Fault, Shape, CallRow, InboxTypeOK,
       rowVars, runVars, Statuses, Executing
  <2> QED BY <2>2, <2>3 DEF Shape
<1>25. ASSUME UNCHANGED inboxVars PROVE Shape'
  BY <1>25, RequestParts, ShapeAssumption, BoundAssumption DEF inboxVars, rowVars, runVars, Shape, CallRow,
     Stages, InboxTypeOK, rowVars, runVars, Statuses, Executing
<1> QED BY <1>1, <1>2, <1>3, <1>4, <1>5, <1>6, <1>7, <1>8, <1>9, <1>10, <1>11, <1>12, <1>13, <1>14, <1>15,
           <1>16, <1>17, <1>18, <1>19, <1>20, <1>21, <1>22, <1>23, <1>24, <1>25 DEF InboxNext, Serve,
           Progress, Poll

\* A message is claimed by one request, which uses it once.
LEMMA ClaimsStep ==
  ASSUME Shape, ClaimsInv, [InboxNext]_inboxVars
  PROVE  ClaimsInv'
<1>1. ASSUME NEW d \in Posted, Receive(d) PROVE ClaimsInv'
  BY <1>1, RequestParts, UseParts DEF Receive, Shape, InboxTypeOK, Past, ClaimsInv, OneUsePerMessage,
     CallRow, rowVars, runVars
<1>2. ASSUME NEW d \in Posted, Claim(d) PROVE ClaimsInv'
  BY <1>2, RequestParts, UseParts DEF Claim, NewEvent, Shape, InboxTypeOK, Past, ClaimsInv, OneUsePerMessage,
     CallRow, rowVars, runVars
<1>3. ASSUME NEW d \in Posted, DropEcho(d) PROVE ClaimsInv'
  BY <1>3, RequestParts, UseParts DEF DropEcho, Goto, IsEcho, Shape, InboxTypeOK, Past, ClaimsInv,
     OneUsePerMessage, CallRow, rowVars, runVars
<1>4. ASSUME NEW d \in Posted, OwnerCommand(d) PROVE ClaimsInv'
  <2>1. /\ Goto(d, "screen", "done") /\ ~IsEcho(d[1])
        /\ UNCHANGED <<role, claimed, outbound, pairing, session, runVars, poller, copies, sent, used, faults>>
    BY <1>4 DEF OwnerCommand
  <2> QED BY <2>1, RequestParts, UseParts DEF Goto, Shape, Past, ClaimsInv, OneUsePerMessage
<1>5. ASSUME NEW d \in Posted, AutoApprove(d) PROVE ClaimsInv'
  BY <1>5, RequestParts, UseParts DEF AutoApprove, Goto, Passes, Shape, InboxTypeOK, Past, ClaimsInv,
     OneUsePerMessage, CallRow, rowVars, runVars
<1>6. ASSUME NEW d \in Posted, Admit(d) PROVE ClaimsInv'
  BY <1>6, RequestParts, UseParts DEF Admit, Goto, Passes, Shape, InboxTypeOK, Past, ClaimsInv,
     OneUsePerMessage, CallRow, rowVars, runVars
<1>7. ASSUME NEW d \in Posted, Refuse(d) PROVE ClaimsInv'
  BY <1>7, RequestParts, UseParts DEF Refuse, Goto, Shape, InboxTypeOK, Past, ClaimsInv, OneUsePerMessage,
     CallRow, rowVars, runVars
<1>8. ASSUME NEW d \in Posted, AnswerRun(d) PROVE ClaimsInv'
  <2>1. PICK r \in Events : used' = used \cup {<<d, r>>}
    BY <1>8 DEF AnswerRun, WaitingHere
  <2>2. /\ call[d].at = "route" /\ call' = [call EXCEPT ![d].at = "done"] /\ claimed' = claimed
    BY <1>8 DEF AnswerRun, Goto, rowVars
  <2> QED BY <2>1, <2>2, RequestParts, UseParts DEF Shape, Past, ClaimsInv, OneUsePerMessage
<1>9. ASSUME NEW d \in Posted, EnsureConversation(d) PROVE ClaimsInv'
  BY <1>9, RequestParts, UseParts DEF EnsureConversation, Shape, InboxTypeOK, Past, ClaimsInv,
     OneUsePerMessage, CallRow, rowVars, runVars
<1>10. ASSUME NEW d \in Posted, Dispatch(d) PROVE ClaimsInv'
  BY <1>10, RequestParts, UseParts DEF Dispatch, Goto, SessionConversation, Fault, Shape, InboxTypeOK, Past,
     ClaimsInv, OneUsePerMessage, CallRow, rowVars, runVars
<1>11. ASSUME NEW r \in Runs, StartRun(r) PROVE ClaimsInv'
  BY <1>11, RequestParts, UseParts DEF StartRun, MyTurn, Shape, InboxTypeOK, Past, ClaimsInv,
     OneUsePerMessage, CallRow, rowVars, runVars
<1>12. ASSUME NEW r \in Runs, EndRun(r) PROVE ClaimsInv'
  BY <1>12, RequestParts, UseParts DEF EndRun, Shape, InboxTypeOK, Past, ClaimsInv, OneUsePerMessage,
     CallRow, rowVars, runVars
<1>13. ASSUME NEW r \in Runs, ParkRun(r) PROVE ClaimsInv'
  BY <1>13, RequestParts, UseParts DEF ParkRun, Shape, InboxTypeOK, Past, ClaimsInv, OneUsePerMessage,
     CallRow, rowVars, runVars
<1>14. ASSUME NEW r \in Runs, ResumeRun(r) PROVE ClaimsInv'
  BY <1>14, RequestParts, UseParts DEF ResumeRun, MyTurn, Shape, InboxTypeOK, Past, ClaimsInv,
     OneUsePerMessage, CallRow, rowVars, runVars
<1>15. ASSUME NEW r \in Runs, AskUser(r) PROVE ClaimsInv'
  BY <1>15, RequestParts, UseParts DEF AskUser, Shape, InboxTypeOK, Past, ClaimsInv, OneUsePerMessage,
     CallRow, rowVars, runVars
<1>16. ASSUME NEW r \in Runs, MarkAsking(r) PROVE ClaimsInv'
  BY <1>16, RequestParts, UseParts DEF MarkAsking, Shape, InboxTypeOK, Past, ClaimsInv, OneUsePerMessage,
     CallRow, rowVars, runVars
<1>17. ASSUME NEW r \in Runs, TakeAnswer(r) PROVE ClaimsInv'
  BY <1>17, RequestParts, UseParts DEF TakeAnswer, Shape, InboxTypeOK, Past, ClaimsInv, OneUsePerMessage,
     CallRow, rowVars, runVars
<1>18. ASSUME NEW r \in Runs, AskTimesOut(r) PROVE ClaimsInv'
  BY <1>18, RequestParts, UseParts DEF AskTimesOut, TimesOut, Shape, InboxTypeOK, Past, ClaimsInv,
     OneUsePerMessage, CallRow, rowVars, runVars
<1>19. ASSUME NEW r \in Runs, CancelRun(r) PROVE ClaimsInv'
  BY <1>19, RequestParts, UseParts DEF CancelRun, Fault, Shape, InboxTypeOK, Past, ClaimsInv,
     OneUsePerMessage, CallRow, rowVars, runVars
<1>20. ASSUME NEW r \in Runs, PollSuccess(r) PROVE ClaimsInv'
  BY <1>20, RequestParts, UseParts DEF PollSuccess, Deliver, RecordOutbound, Shape, InboxTypeOK, Past,
     ClaimsInv, OneUsePerMessage, CallRow, rowVars, runVars
<1>21. ASSUME NEW r \in Runs, PollFailure(r) PROVE ClaimsInv'
  BY <1>21, RequestParts, UseParts DEF PollFailure, Deliver, RecordOutbound, Shape, InboxTypeOK, Past,
     ClaimsInv, OneUsePerMessage, CallRow, rowVars, runVars
<1>22. ASSUME NEW r \in Runs, PollTimeout(r) PROVE ClaimsInv'
  BY <1>22, RequestParts, UseParts DEF PollTimeout, Deliver, RecordOutbound, Shape, InboxTypeOK, Past,
     ClaimsInv, OneUsePerMessage, CallRow, rowVars, runVars
<1>23. ASSUME NEW r \in Runs, PostReply(r) PROVE ClaimsInv'
  BY <1>23, RequestParts, UseParts DEF PostReply, Return, Fault, Shape, InboxTypeOK, Past, ClaimsInv,
     OneUsePerMessage, CallRow, rowVars, runVars
<1>24. ASSUME Restart PROVE ClaimsInv'
  BY <1>24, RequestParts, UseParts DEF Restart, Fault, Shape, InboxTypeOK, Past, ClaimsInv, OneUsePerMessage,
     CallRow, rowVars, runVars
<1>25. ASSUME UNCHANGED inboxVars PROVE ClaimsInv'
  BY <1>25, RequestParts, UseParts DEF inboxVars, rowVars, runVars, Shape, InboxTypeOK, Past, ClaimsInv,
     OneUsePerMessage, CallRow, rowVars, runVars
<1> QED BY <1>1, <1>2, <1>3, <1>4, <1>5, <1>6, <1>7, <1>8, <1>9, <1>10, <1>11, <1>12, <1>13, <1>14, <1>15,
           <1>16, <1>17, <1>18, <1>19, <1>20, <1>21, <1>22, <1>23, <1>24, <1>25 DEF InboxNext, Serve,
           Progress, Poll

\* The texts of the channel are recorded, and start nothing.
LEMMA EchoStep ==
  ASSUME Shape, EchoInv, [InboxNext]_inboxVars
  PROVE  EchoInv'
<1>1. ASSUME NEW d \in Posted, Receive(d) PROVE EchoInv'
  <2>1. /\ call' = [call EXCEPT ![d].at = "claim", ![d].channel = channel]
        /\ UNCHANGED <<outbound, poller, sent, used>>
    BY <1>1 DEF Receive, rowVars
  <2>2. \A c \in Requests : c # d => call'[c] = call[c]
    BY <2>1 DEF Shape
  <2>3. call'[d].at = "claim"
    BY <2>1, RequestParts DEF Shape, CallRow
  <2>4. ASSUME d[1] \in Echoes PROVE <<Chat(d[1]), d[1]>> \in outbound
    <3>1. <<<<d[1][1], "typed">>, d[1][2]>> \in sent
      BY <1>1, <2>4 DEF Receive
    <3>2. Recorded(<<d[1][1], "typed">>, d[1][2])
      BY <3>1 DEF EchoInv
    <3>3. d[1] = <<d[1][1], d[1][2]>>
      BY <2>4, EventParts
    <3> QED BY <3>2, <3>3 DEF Recorded, Chat
  <2> QED BY <2>1, <2>2, <2>3, <2>4, RequestParts DEF EchoInv, Recorded, EchoStartsNothing
<1>2. ASSUME NEW d \in Posted, Claim(d) PROVE EchoInv'
  BY <1>2, RequestParts, EventParts, UseParts DEF Claim, NewEvent, Shape, InboxTypeOK, EchoInv, Recorded,
     EchoStartsNothing, CallRow, rowVars, runVars
<1>3. ASSUME NEW d \in Posted, DropEcho(d) PROVE EchoInv'
  BY <1>3, RequestParts, EventParts, UseParts DEF DropEcho, Goto, IsEcho, Shape, InboxTypeOK, EchoInv,
     Recorded, EchoStartsNothing, CallRow, rowVars, runVars
<1>4. ASSUME NEW d \in Posted, OwnerCommand(d) PROVE EchoInv'
  <2>1. /\ Goto(d, "screen", "done") /\ ~IsEcho(d[1])
        /\ UNCHANGED <<role, claimed, outbound, pairing, session, runVars, poller, copies, sent, used, faults>>
    BY <1>4 DEF OwnerCommand
  <2> QED BY <2>1, RequestParts DEF Goto, Shape, EchoInv, Recorded, EchoStartsNothing
<1>5. ASSUME NEW d \in Posted, AutoApprove(d) PROVE EchoInv'
  <2>1. /\ call[d].at = "screen" /\ call' = [call EXCEPT ![d].at = "route"] /\ ~IsEcho(d[1])
        /\ UNCHANGED <<outbound, runVars, poller, sent, used>>
    BY <1>5 DEF AutoApprove, Goto, Passes, rowVars
  <2>2. d[1] \in Typed
    BY <2>1, RequestParts, EventParts DEF EchoInv, IsEcho
  <2>3. \A c \in Requests : c # d => call'[c] = call[c]
    BY <2>1 DEF Shape
  <2>4. call'[d].at = "route"
    BY <2>1, RequestParts DEF Shape, CallRow
  <2> QED BY <2>1, <2>2, <2>3, <2>4, RequestParts DEF EchoInv, Recorded, EchoStartsNothing
<1>6. ASSUME NEW d \in Posted, Admit(d) PROVE EchoInv'
  <2>1. /\ call[d].at = "screen" /\ call' = [call EXCEPT ![d].at = "route"] /\ ~IsEcho(d[1])
        /\ UNCHANGED <<outbound, runVars, poller, sent, used>>
    BY <1>6 DEF Admit, Goto, Passes, rowVars
  <2>2. d[1] \in Typed
    BY <2>1, RequestParts, EventParts DEF EchoInv, IsEcho
  <2>3. \A c \in Requests : c # d => call'[c] = call[c]
    BY <2>1 DEF Shape
  <2>4. call'[d].at = "route"
    BY <2>1, RequestParts DEF Shape, CallRow
  <2> QED BY <2>1, <2>2, <2>3, <2>4, RequestParts DEF EchoInv, Recorded, EchoStartsNothing
<1>7. ASSUME NEW d \in Posted, Refuse(d) PROVE EchoInv'
  BY <1>7, RequestParts, EventParts, UseParts DEF Refuse, Goto, Shape, InboxTypeOK, EchoInv, Recorded,
     EchoStartsNothing, CallRow, rowVars, runVars
<1>8. ASSUME NEW d \in Posted, AnswerRun(d) PROVE EchoInv'
  BY <1>8, RequestParts, EventParts, UseParts DEF AnswerRun, Goto, WaitingHere, Shape, InboxTypeOK, EchoInv,
     Recorded, EchoStartsNothing, CallRow, rowVars, runVars
<1>9. ASSUME NEW d \in Posted, EnsureConversation(d) PROVE EchoInv'
  BY <1>9, RequestParts, EventParts, UseParts DEF EnsureConversation, Shape, InboxTypeOK, EchoInv, Recorded,
     EchoStartsNothing, CallRow, rowVars, runVars
<1>10. ASSUME NEW d \in Posted, Dispatch(d) PROVE EchoInv'
  BY <1>10, RequestParts, EventParts, UseParts DEF Dispatch, Goto, SessionConversation, Fault, Shape,
     InboxTypeOK, EchoInv, Recorded, EchoStartsNothing, CallRow, rowVars, runVars
<1>11. ASSUME NEW r \in Runs, StartRun(r) PROVE EchoInv'
  BY <1>11, RequestParts, EventParts, UseParts DEF StartRun, MyTurn, Shape, InboxTypeOK, EchoInv, Recorded,
     EchoStartsNothing, CallRow, rowVars, runVars
<1>12. ASSUME NEW r \in Runs, EndRun(r) PROVE EchoInv'
  BY <1>12, RequestParts, EventParts, UseParts DEF EndRun, Shape, InboxTypeOK, EchoInv, Recorded,
     EchoStartsNothing, CallRow, rowVars, runVars
<1>13. ASSUME NEW r \in Runs, ParkRun(r) PROVE EchoInv'
  BY <1>13, RequestParts, EventParts, UseParts DEF ParkRun, Shape, InboxTypeOK, EchoInv, Recorded,
     EchoStartsNothing, CallRow, rowVars, runVars
<1>14. ASSUME NEW r \in Runs, ResumeRun(r) PROVE EchoInv'
  BY <1>14, RequestParts, EventParts, UseParts DEF ResumeRun, MyTurn, Shape, InboxTypeOK, EchoInv, Recorded,
     EchoStartsNothing, CallRow, rowVars, runVars
<1>15. ASSUME NEW r \in Runs, AskUser(r) PROVE EchoInv'
  BY <1>15, RequestParts, EventParts, UseParts DEF AskUser, Shape, InboxTypeOK, EchoInv, Recorded,
     EchoStartsNothing, CallRow, rowVars, runVars
<1>16. ASSUME NEW r \in Runs, MarkAsking(r) PROVE EchoInv'
  BY <1>16, RequestParts, EventParts, UseParts DEF MarkAsking, Shape, InboxTypeOK, EchoInv, Recorded,
     EchoStartsNothing, CallRow, rowVars, runVars
<1>17. ASSUME NEW r \in Runs, TakeAnswer(r) PROVE EchoInv'
  BY <1>17, RequestParts, EventParts, UseParts DEF TakeAnswer, Shape, InboxTypeOK, EchoInv, Recorded,
     EchoStartsNothing, CallRow, rowVars, runVars
<1>18. ASSUME NEW r \in Runs, AskTimesOut(r) PROVE EchoInv'
  BY <1>18, RequestParts, EventParts, UseParts DEF AskTimesOut, TimesOut, Shape, InboxTypeOK, EchoInv,
     Recorded, EchoStartsNothing, CallRow, rowVars, runVars
<1>19. ASSUME NEW r \in Runs, CancelRun(r) PROVE EchoInv'
  BY <1>19, RequestParts, EventParts, UseParts DEF CancelRun, Fault, Shape, InboxTypeOK, EchoInv, Recorded,
     EchoStartsNothing, CallRow, rowVars, runVars
<1>20. ASSUME NEW r \in Runs, PollSuccess(r) PROVE EchoInv'
  BY <1>20, RequestParts, EventParts, UseParts DEF PollSuccess, Deliver, RecordOutbound, Shape, InboxTypeOK,
     EchoInv, Recorded, EchoStartsNothing, CallRow, rowVars, runVars
<1>21. ASSUME NEW r \in Runs, PollFailure(r) PROVE EchoInv'
  BY <1>21, RequestParts, EventParts, UseParts DEF PollFailure, Deliver, RecordOutbound, Shape, InboxTypeOK,
     EchoInv, Recorded, EchoStartsNothing, CallRow, rowVars, runVars
<1>22. ASSUME NEW r \in Runs, PollTimeout(r) PROVE EchoInv'
  BY <1>22, RequestParts, EventParts, UseParts DEF PollTimeout, Deliver, RecordOutbound, Shape, InboxTypeOK,
     EchoInv, Recorded, EchoStartsNothing, CallRow, rowVars, runVars
<1>23. ASSUME NEW r \in Runs, PostReply(r) PROVE EchoInv'
  BY <1>23, RequestParts, EventParts, UseParts DEF PostReply, Return, Fault, Shape, InboxTypeOK, EchoInv,
     Recorded, EchoStartsNothing, CallRow, rowVars, runVars
<1>24. ASSUME Restart PROVE EchoInv'
  BY <1>24, RequestParts, EventParts, UseParts DEF Restart, Fault, Shape, InboxTypeOK, EchoInv, Recorded,
     EchoStartsNothing, CallRow, rowVars, runVars
<1>25. ASSUME UNCHANGED inboxVars PROVE EchoInv'
  BY <1>25, RequestParts, EventParts, UseParts DEF inboxVars, rowVars, runVars, Shape, InboxTypeOK, EchoInv,
     Recorded, EchoStartsNothing, CallRow, rowVars, runVars
<1> QED BY <1>1, <1>2, <1>3, <1>4, <1>5, <1>6, <1>7, <1>8, <1>9, <1>10, <1>11, <1>12, <1>13, <1>14, <1>15,
           <1>16, <1>17, <1>18, <1>19, <1>20, <1>21, <1>22, <1>23, <1>24, <1>25 DEF InboxNext, Serve,
           Progress, Poll

\* The runs of a conversation take turns.
LEMMA TurnsStep ==
  ASSUME Shape, TurnsInv, [InboxNext]_inboxVars
  PROVE  TurnsInv'
<1>1. ASSUME NEW d \in Posted, Receive(d) PROVE TurnsInv'
  BY <1>1, RequestParts, EventParts DEF Receive, Shape, InboxTypeOK, TurnsInv, CallRow, rowVars, runVars, Executing
<1>2. ASSUME NEW d \in Posted, Claim(d) PROVE TurnsInv'
  BY <1>2, RequestParts, EventParts DEF Claim, NewEvent, Shape, InboxTypeOK, TurnsInv, CallRow, rowVars,
     runVars, Executing
<1>3. ASSUME NEW d \in Posted, DropEcho(d) PROVE TurnsInv'
  BY <1>3, RequestParts, EventParts DEF DropEcho, Goto, IsEcho, Shape, InboxTypeOK, TurnsInv, CallRow,
     rowVars, runVars, Executing
<1>4. ASSUME NEW d \in Posted, OwnerCommand(d) PROVE TurnsInv'
  <2>1. /\ Goto(d, "screen", "done") /\ ~IsEcho(d[1])
        /\ UNCHANGED <<role, claimed, outbound, pairing, session, runVars, poller, copies, sent, used, faults>>
    BY <1>4 DEF OwnerCommand
  <2> QED BY <2>1, RequestParts DEF Goto, Shape, CallRow, TurnsInv, runVars, Executing
<1>5. ASSUME NEW d \in Posted, AutoApprove(d) PROVE TurnsInv'
  BY <1>5, RequestParts, EventParts DEF AutoApprove, Goto, Passes, Shape, InboxTypeOK, TurnsInv, CallRow,
     rowVars, runVars, Executing
<1>6. ASSUME NEW d \in Posted, Admit(d) PROVE TurnsInv'
  BY <1>6, RequestParts, EventParts DEF Admit, Goto, Passes, Shape, InboxTypeOK, TurnsInv, CallRow, rowVars,
     runVars, Executing
<1>7. ASSUME NEW d \in Posted, Refuse(d) PROVE TurnsInv'
  BY <1>7, RequestParts, EventParts DEF Refuse, Goto, Shape, InboxTypeOK, TurnsInv, CallRow, rowVars,
     runVars, Executing
<1>8. ASSUME NEW d \in Posted, AnswerRun(d) PROVE TurnsInv'
  BY <1>8, RequestParts, EventParts DEF AnswerRun, Goto, WaitingHere, Shape, InboxTypeOK, TurnsInv, CallRow,
     rowVars, runVars, Executing
<1>9. ASSUME NEW d \in Posted, EnsureConversation(d) PROVE TurnsInv'
  BY <1>9, RequestParts, EventParts DEF EnsureConversation, Shape, InboxTypeOK, TurnsInv, CallRow, rowVars,
     runVars, Executing
<1>10. ASSUME NEW d \in Posted, Dispatch(d) PROVE TurnsInv'
  BY <1>10, RequestParts, EventParts DEF Dispatch, Goto, SessionConversation, Fault, Shape, InboxTypeOK,
     TurnsInv, CallRow, rowVars, runVars, Executing
<1>11. ASSUME NEW r \in Runs, StartRun(r) PROVE TurnsInv'
  BY <1>11, RequestParts, EventParts DEF StartRun, MyTurn, Shape, InboxTypeOK, TurnsInv, CallRow, rowVars,
     runVars, Executing
<1>12. ASSUME NEW r \in Runs, EndRun(r) PROVE TurnsInv'
  BY <1>12, RequestParts, EventParts DEF EndRun, Shape, InboxTypeOK, TurnsInv, CallRow, rowVars, runVars, Executing
<1>13. ASSUME NEW r \in Runs, ParkRun(r) PROVE TurnsInv'
  BY <1>13, RequestParts, EventParts DEF ParkRun, Shape, InboxTypeOK, TurnsInv, CallRow, rowVars, runVars, Executing
<1>14. ASSUME NEW r \in Runs, ResumeRun(r) PROVE TurnsInv'
  BY <1>14, RequestParts, EventParts DEF ResumeRun, MyTurn, Shape, InboxTypeOK, TurnsInv, CallRow, rowVars,
     runVars, Executing
<1>15. ASSUME NEW r \in Runs, AskUser(r) PROVE TurnsInv'
  BY <1>15, RequestParts, EventParts DEF AskUser, Shape, InboxTypeOK, TurnsInv, CallRow, rowVars, runVars, Executing
<1>16. ASSUME NEW r \in Runs, MarkAsking(r) PROVE TurnsInv'
  BY <1>16, RequestParts, EventParts DEF MarkAsking, Shape, InboxTypeOK, TurnsInv, CallRow, rowVars, runVars,
     Executing
<1>17. ASSUME NEW r \in Runs, TakeAnswer(r) PROVE TurnsInv'
  BY <1>17, RequestParts, EventParts DEF TakeAnswer, Shape, InboxTypeOK, TurnsInv, CallRow, rowVars, runVars,
     Executing
<1>18. ASSUME NEW r \in Runs, AskTimesOut(r) PROVE TurnsInv'
  BY <1>18, RequestParts, EventParts DEF AskTimesOut, TimesOut, Shape, InboxTypeOK, TurnsInv, CallRow,
     rowVars, runVars, Executing
<1>19. ASSUME NEW r \in Runs, CancelRun(r) PROVE TurnsInv'
  BY <1>19, RequestParts, EventParts DEF CancelRun, Fault, Shape, InboxTypeOK, TurnsInv, CallRow, rowVars,
     runVars, Executing
<1>20. ASSUME NEW r \in Runs, PollSuccess(r) PROVE TurnsInv'
  BY <1>20, RequestParts, EventParts DEF PollSuccess, Deliver, RecordOutbound, Shape, InboxTypeOK, TurnsInv,
     CallRow, rowVars, runVars, Executing
<1>21. ASSUME NEW r \in Runs, PollFailure(r) PROVE TurnsInv'
  BY <1>21, RequestParts, EventParts DEF PollFailure, Deliver, RecordOutbound, Shape, InboxTypeOK, TurnsInv,
     CallRow, rowVars, runVars, Executing
<1>22. ASSUME NEW r \in Runs, PollTimeout(r) PROVE TurnsInv'
  BY <1>22, RequestParts, EventParts DEF PollTimeout, Deliver, RecordOutbound, Shape, InboxTypeOK, TurnsInv,
     CallRow, rowVars, runVars, Executing
<1>23. ASSUME NEW r \in Runs, PostReply(r) PROVE TurnsInv'
  BY <1>23, RequestParts, EventParts DEF PostReply, Return, Fault, Shape, InboxTypeOK, TurnsInv, CallRow,
     rowVars, runVars, Executing
<1>24. ASSUME Restart PROVE TurnsInv'
  <2>1. /\ alive' = {} /\ UNCHANGED <<session, conv>>
        /\ status' = [e \in Events |-> IF status[e] \in {"pending"} \cup Executing THEN "failed" ELSE status[e]]
        /\ call' = [d \in Requests |-> IF call[d].at = "idle" THEN call[d] ELSE [call[d] EXCEPT !.at = "done"]]
    BY <1>24 DEF Restart, rowVars
  <2>2. \A e \in Events : status'[e] # None => status[e] # None
    BY <2>1 DEF None, Executing
  <2>3. \A c \in Requests : call'[c].at # "dispatch"
    BY <2>1 DEF Shape, CallRow
  <2> QED BY <2>1, <2>2, <2>3 DEF TurnsInv
<1>25. ASSUME UNCHANGED inboxVars PROVE TurnsInv'
  BY <1>25, RequestParts, EventParts DEF inboxVars, rowVars, runVars, Shape, InboxTypeOK, TurnsInv, CallRow,
     rowVars, runVars, Executing
<1> QED BY <1>1, <1>2, <1>3, <1>4, <1>5, <1>6, <1>7, <1>8, <1>9, <1>10, <1>11, <1>12, <1>13, <1>14, <1>15,
           <1>16, <1>17, <1>18, <1>19, <1>20, <1>21, <1>22, <1>23, <1>24, <1>25 DEF InboxNext, Serve,
           Progress, Poll

\* A step of the other parts leaves the inbox alone.
LEMMA InboxStutter == ASSUME InboxInv, UNCHANGED inboxVars PROVE InboxInv'
BY DEF inboxVars, rowVars, runVars, InboxInv, Shape, InboxTypeOK, ClaimsInv, Past, OneUsePerMessage,
       EchoInv, Recorded, EchoStartsNothing, TurnsInv

\* It holds before the first message.
LEMMA InboxInitially == InboxInit => InboxInv
<1> SUFFICES ASSUME InboxInit PROVE InboxInv
  OBVIOUS
<1>1. Shape
  BY ShapeAssumption, BoundAssumption
     DEF InboxInit, Shape, InboxTypeOK, CallRow, Stages, NoCall, None, NoEvent, Statuses, Executing
<1>2. ClaimsInv /\ EchoInv /\ TurnsInv
  BY DEF InboxInit, ClaimsInv, Past, OneUsePerMessage, EchoInv, EchoStartsNothing, TurnsInv, NoCall, None
<1> QED BY <1>1, <1>2 DEF InboxInv

\* The inductive invariant of the inbox: an event belongs to the request that claimed it
\* (CreateEvent), a text is recorded before it leaves (SendWhatsApp), and a chat has one
\* conversation (UpsertSession) whose mutex serialises its runs (executeRun).
THEOREM InboxInvariant == InboxSpec => []InboxInv
<1>1. InboxInv /\ [InboxNext]_inboxVars => InboxInv'
  BY ShapeStep, ClaimsStep, EchoStep, TurnsStep DEF InboxInv
<1> QED BY <1>1, InboxInitially, PTL DEF InboxSpec

\* Every variable keeps its shape; only runs that queue or execute have a goroutine.
THEOREM InboxTypeCorrect == InboxSpec => []InboxTypeOK
<1>1. InboxInv => InboxTypeOK
  BY DEF InboxInv, Shape
<1> QED BY <1>1, InboxInvariant, PTL

\* However often the adapter posts a message, and however the requests overlap, it starts
\* one run or answers one question (handleInbound's claim, CreateEvent).
THEOREM MessageUsedOnce == InboxSpec => []OneUsePerMessage
<1>1. InboxInv => OneUsePerMessage
  BY DEF InboxInv, ClaimsInv
<1> QED BY <1>1, InboxInvariant, PTL

\* A text the channel sent to the account itself comes back as an event, and is never
\* dispatched (handleInbound's echo guard, SendWhatsApp).
THEOREM EchoIsHarmless == InboxSpec => []EchoStartsNothing
<1>1. InboxInv => EchoStartsNothing
  BY DEF InboxInv, EchoInv
<1> QED BY <1>1, InboxInvariant, PTL

\* The runs of one chat take turns, even if its first messages raced for its session
\* (ensureGatewayConversation, UpsertSession, executeRun's mutex).
THEOREM ChatTakesTurns == InboxSpec => []RunsTakeTurns
<1>1. ASSUME InboxInv, NEW p \in Peers
      PROVE  Cardinality({r \in alive : Chat(r) = p /\ status[r] \in Executing}) <= 1
  <2> DEFINE S == {r \in alive : Chat(r) = p /\ status[r] \in Executing}
  <2>1. ASSUME NEW r \in S, NEW x \in S PROVE r = x
    <3>1. r \in Events /\ x \in Events /\ status[r] # None /\ status[x] # None
      BY <1>1, <2>1 DEF InboxInv, Shape, InboxTypeOK, Executing, None
    <3>2. conv[r] = conv[x]
      BY <1>1, <2>1, <3>1 DEF InboxInv, TurnsInv
    <3> QED BY <1>1, <2>1, <3>2 DEF InboxInv, TurnsInv
  <2>2. CASE S = {}
    BY <2>2, FS_EmptySet
  <2>3. CASE S # {}
    <3>1. PICK r : S = {r}
      BY <2>1, <2>3
    <3>2. Cardinality({r}) = 1
      BY FS_Singleton
    <3> QED BY <3>1, <3>2
  <2> QED BY <2>2, <2>3
<1>2. InboxInv => RunsTakeTurns
  BY <1>1 DEF RunsTakeTurns
<1> QED BY <1>2, InboxInvariant, PTL

-----------------------------------------------------------------------------
TaskPlaces == {"idle", "request", "contact", "find", "flip", "write", "insert", "phones", "each", "store", "push",
               "connect", "delete", "owners", "next", "record", "post", "resolve", "done"}
ContactRow == [id : Nat, role : ContactRoles \cup {"none"}, reply : BOOLEAN]
TaskRow == [kind : Errands, at : TaskPlaces, who : Senders \cup {"none"}, row : ContactRow,
            flags : SUBSET Flags, sees : SUBSET Senders]
Filed ==
  /\ pairings \subseteq [id : Nat, of : Senders, status : {"pending"} \cup Decisions]
  /\ escalation \in [Tasks \cup {0} -> [status : {"none", "pending"} \cup Decisions, told : SUBSET Decisions]]
  /\ outbox \subseteq [by : Tasks, to : Senders \cup {"none"}, source : Errands,
                       status : {"pending", "sent", "failed"}, barred : BOOLEAN]
Kept == ContactsTypeOK /\ Filed /\ lastId \in Nat /\ desk \in [Tasks -> TaskRow]

\* Who writes a contact knows whose, and which row.
Writer(w) ==
  /\ w.at \in {"request", "write", "insert", "flip"} => w.who \in Senders
  /\ w.at \in {"write", "flip"} => w.row.id # 0
PlacesInv == \A t \in Tasks : Writer(desk[t])

\* As long as nobody has contested a pairing decision, who carries it out has its role, and
\* the contact that was matched is there.
VerdictInv ==
  /\ \A t \in Tasks : Deciding(t) => desk[t].who \in Senders /\ desk[t].row.role \in {"trusted", "blocked"}
                                     /\ desk[t].row.reply = (desk[t].row.role = "trusted")
  /\ \A t \in Tasks : Deciding(t) /\ verdict[desk[t].who] # "none" => desk[t].row.role = verdict[desk[t].who]
  /\ \A t \in Tasks : Stands(t, "decide", "flip") =>
       verdict[desk[t].who] = "none" \/ contact[desk[t].who].id = desk[t].row.id
  /\ \A p \in Senders : verdict[p] = "none" \/ (\E t \in Tasks : Deciding(t) /\ desk[t].who = p)
       \/ (contact[p].role = verdict[p] /\ contact[p].reply = (verdict[p] = "trusted"))

\* An escalation is open, or one alone was told that it decided it.
EscalationInv ==
  /\ \A e \in Tasks \cup {0} : escalation[e].told \subseteq {escalation[e].status}
  /\ \A t \in Tasks : Stands(t, "ask", "idle") => escalation[t].status = "none"

\* A send that has picked its recipient has picked nobody it must not reach.
BlockInv ==
  /\ Blocked \subseteq Known
  /\ \A t \in Tasks : barred[t] \subseteq Blocked
  /\ \A t \in Tasks : Stands(t, "send", "record") => desk[t].who \notin barred[t]
  /\ BlockedNotMessaged

ContactsInv == Kept /\ PlacesInv /\ VerdictInv /\ EscalationInv /\ BlockInv
-----------------------------------------------------------------------------
\* A task's row is w now.
Moves(t, w) == desk' = [desk EXCEPT ![t] = w] /\ w \in TaskRow /\ w.kind = desk[t].kind /\ w.at # "idle"
\* A task that decides on no pairing goes on, and picks nobody it must not reach.
Calm(t) ==
  /\ ~Deciding(t)
  /\ \E w \in TaskRow : /\ Moves(t, w) /\ w.at \notin {"contact", "find", "flip"}
                        /\ Writer(w)
                        /\ w.kind = "send" /\ w.at = "record" => w.who \notin barred'[t]

\* The row of one contact is written, in a shape that fits.
Written(t) ==
  \E p \in Senders, c \in [id : 0..lastId', role : ContactRoles \cup {"none"}, reply : BOOLEAN] :
    WriteContact(t, p, c) /\ (c.role = "blocked" => c.id # 0)
Untouched == UNCHANGED <<contact, barred, verdict>>

\* An INSERT adds a row that fits, or nothing.
LEMMA Creates ==
  ASSUME Kept, NEW t \in Tasks, NEW p \in Senders, NEW r \in ContactRoles, NEW reply \in BOOLEAN,
         CreateContact(t, p, r, reply)
  PROVE  lastId' \in Nat /\ lastId <= lastId' /\ (Written(t) \/ Untouched)
<1>1. CASE Insertable(p)
  <2>1. lastId' = lastId + 1 /\ WriteContact(t, p, [id |-> lastId + 1, role |-> r, reply |-> reply]) /\ lastId \in Nat
    BY <1>1 DEF CreateContact, Kept
  <2>2. [id |-> lastId + 1, role |-> r, reply |-> reply]
          \in [id : 0..lastId', role : ContactRoles \cup {"none"}, reply : BOOLEAN]
    BY <2>1
  <2> QED BY <2>1, <2>2 DEF Written
<1>2. CASE ~Insertable(p)
  BY <1>2 DEF CreateContact, Untouched, Kept
<1> QED BY <1>1, <1>2

\* An UPDATE by id writes a row that fits, or nothing.
LEMMA Updates ==
  ASSUME Kept, NEW t \in Tasks, NEW p \in Senders, NEW c \in ContactRow, c.id # 0, UpdateContact(t, p, c),
         lastId' = lastId
  PROVE  Written(t) \/ Untouched
<1>1. CASE contact[p].id = c.id
  <2>1. c \in [id : 0..lastId', role : ContactRoles \cup {"none"}, reply : BOOLEAN]
    BY <1>1 DEF Kept, ContactsTypeOK, ContactRow
  <2> QED BY <1>1, <2>1 DEF UpdateContact, Written
<1>2. CASE contact[p].id # c.id
  BY <1>2 DEF UpdateContact, Untouched
<1> QED BY <1>1, <1>2

\* What a write of a contact leaves in shape.
LEMMA WrittenRows ==
  ASSUME Kept, NEW t \in Tasks, Written(t) \/ Untouched, lastId' \in Nat, lastId <= lastId'
  PROVE  /\ contact' \in [Senders -> [id : 0..lastId', role : ContactRoles \cup {"none"}, reply : BOOLEAN]]
         /\ barred' \in [Tasks -> SUBSET Senders] /\ verdict' \in [Senders -> {"none", "trusted", "blocked"}]
         /\ \A u \in Tasks : barred'[u] \subseteq barred[u] /\ (barred[u] \subseteq Blocked
                 => barred'[u] \subseteq Blocked')
         /\ Blocked \subseteq Known => Blocked' \subseteq Known'
<1>0. lastId \in Nat /\ 0..lastId \subseteq 0..lastId'
  BY DEF Kept
<1>1. CASE Untouched
  BY <1>0, <1>1 DEF Untouched, Kept, ContactsTypeOK, Blocked, Known
<1>2. CASE Written(t)
  <2>1. PICK p \in Senders, c \in [id : 0..lastId', role : ContactRoles \cup {"none"}, reply : BOOLEAN] :
             WriteContact(t, p, c) /\ (c.role = "blocked" => c.id # 0)
    BY <1>2 DEF Written
  <2>2. /\ contact' = [contact EXCEPT ![p] = c]
        /\ barred' = [u \in Tasks |-> IF c.role = "blocked" THEN barred[u] ELSE barred[u] \ {p}]
        /\ verdict' \in {verdict, [verdict EXCEPT ![p] = "none"]}
    BY <2>1 DEF WriteContact
  <2>3. contact' \in [Senders -> [id : 0..lastId', role : ContactRoles \cup {"none"}, reply : BOOLEAN]]
    BY <1>0, <2>1, <2>2 DEF Kept, ContactsTypeOK
  <2>4. barred' \in [Tasks -> SUBSET Senders] /\ \A u \in Tasks : barred'[u] \subseteq barred[u]
    BY <2>2 DEF Kept, ContactsTypeOK
  <2>5. verdict' \in [Senders -> {"none", "trusted", "blocked"}]
    BY <2>2 DEF Kept, ContactsTypeOK
  <2>6. ASSUME NEW u \in Tasks, barred[u] \subseteq Blocked PROVE barred'[u] \subseteq Blocked'
    <3>1. \A s \in Senders \ {p} : contact'[s] = contact[s]
      BY <2>2 DEF Kept, ContactsTypeOK
    <3>2. contact'[p] = c
      BY <2>2 DEF Kept, ContactsTypeOK
    <3>3. ASSUME NEW s \in barred'[u] PROVE s \in Senders /\ contact'[s].role = "blocked"
      <4>1. s \in Senders /\ contact[s].role = "blocked" /\ (s = p => c.role = "blocked")
        BY <2>2, <2>6, <3>3 DEF Blocked
      <4> QED BY <3>1, <3>2, <4>1
    <3> QED BY <3>3 DEF Blocked
  <2>7. ASSUME Blocked \subseteq Known PROVE Blocked' \subseteq Known'
    <3>1. \A s \in Senders : contact[s].role = "blocked" => contact[s].id # 0
      BY <2>7 DEF Blocked, Known
    <3>2. \A s \in Senders : contact'[s] = IF s = p THEN c ELSE contact[s]
      BY <2>2 DEF Kept, ContactsTypeOK
    <3>3. \A s \in Senders : contact'[s].role = "blocked" => contact'[s].id # 0
      BY <2>1, <3>1, <3>2
    <3> QED BY <3>3 DEF Blocked, Known
  <2> QED BY <2>3, <2>4, <2>5, <2>6, <2>7
<1> QED BY <1>1, <1>2

-----------------------------------------------------------------------------
\* The row of a contact that is there.
LEMMA KnownRow ==
  ASSUME Kept, NEW p \in Known
  PROVE  contact[p] \in ContactRow /\ contact[p].id \in Nat /\ contact[p].id # 0 /\ p \in Senders
<1>1. 0..lastId \subseteq Nat /\ p \in Senders /\ contact[p].id # 0
  BY DEF Known, Kept
<1>2. contact[p] \in [id : 0..lastId, role : ContactRoles \cup {"none"}, reply : BOOLEAN]
  BY <1>1 DEF Kept, ContactsTypeOK
<1> QED BY <1>1, <1>2 DEF ContactRow

\* A task that ends has an empty row.
LEMMA Closes ==
  ASSUME Kept, NEW t \in Tasks, Close(t)
  PROVE  \E w \in TaskRow : Moves(t, w) /\ w.at = "done"
<1>1. PICK w : w = [NewTask(desk[t].kind) EXCEPT !.at = "done"]
  OBVIOUS
<1>2. w \in TaskRow /\ w.at = "done" /\ w.kind = desk[t].kind
  BY <1>1 DEF NewTask, NoContact, TaskRow, TaskPlaces, ContactRow, Kept
<1> QED BY <1>1, <1>2 DEF Close, Moves, Kept

\* A task that goes on keeps the rest of its row.
LEMMA Steps ==
  ASSUME Kept, NEW t \in Tasks, NEW to \in TaskPlaces \ {"idle"}, Step(t, to)
  PROVE  \E w \in TaskRow : Moves(t, w) /\ w = [desk[t] EXCEPT !.at = to]
<1>1. PICK w : w = [desk[t] EXCEPT !.at = to]
  OBVIOUS
<1>2. w \in TaskRow /\ w.at = to /\ w.kind = desk[t].kind
  BY <1>1 DEF TaskRow, Kept
<1> QED BY <1>1, <1>2 DEF Step, Moves, Kept, TaskRow

\* Calm ways to go on: to end, ...
LEMMA CalmClose ==
  ASSUME Kept, NEW t \in Tasks, ~Deciding(t), Close(t)
  PROVE  Calm(t)
BY Closes DEF Calm, Writer

\* ... to go to a place where nothing is asked of the row, ...
LEMMA CalmStep ==
  ASSUME Kept, NEW t \in Tasks, NEW to \in TaskPlaces \ {"idle", "contact", "find", "flip", "write", "record",
         "request", "insert"},
         ~Deciding(t), Step(t, to)
  PROVE  Calm(t)
<1>1. PICK w \in TaskRow : Moves(t, w) /\ w = [desk[t] EXCEPT !.at = to]
  BY Steps
<1>2. w.at = to
  BY <1>1 DEF TaskRow, Kept
<1> QED BY <1>1, <1>2 DEF Calm, Writer

\* ... and to have another row there.
LEMMA CalmSet ==
  ASSUME Kept, NEW t \in Tasks, ~Deciding(t), NEW w \in TaskRow, desk' = [desk EXCEPT ![t] = w],
         w.kind = desk[t].kind, w.at \notin {"idle", "contact", "find", "flip", "write", "record"},
         w.at \in {"request", "insert"} => w.who \in Senders
  PROVE  Calm(t)
BY DEF Calm, Moves, Writer

\* Blocked contacts come first: a page with room for all of them has them all.
LEMMA PageHasBlocked ==
  ASSUME Kept, NEW S \in SearchContacts, Cardinality(Blocked) <= SearchCap
  PROVE  Blocked \cap Known \subseteq S
<1> SUFFICES ASSUME NEW p \in Blocked \cap Known, p \notin S PROVE FALSE
  OBVIOUS
<1>1. S \subseteq Known /\ Known \subseteq Senders /\ Blocked \subseteq Senders /\ IsFiniteSet(Senders)
          /\ SearchCap \in Nat
  BY ContactsAssumption DEF SearchContacts, Known, Blocked
<1>2. S # Known /\ Cardinality(S) = SearchCap
  BY DEF SearchContacts
<1>3. Rank(p) = 0
  BY DEF Rank, Blocked
<1>4. ASSUME NEW q \in S PROVE q \in Blocked
  <2>1. Rank(q) <= 0
    BY <1>3 DEF SearchContacts
  <2>2. contact[q].role # "blocked" => Rank(q) \in {1, 2}
    BY DEF Rank
  <2> QED BY <1>1, <2>1, <2>2 DEF Blocked
<1>5. IsFiniteSet(Blocked) /\ S \subseteq Blocked /\ S # Blocked
  BY <1>1, <1>4, FS_Subset
<1>6. Cardinality(S) < Cardinality(Blocked) /\ Cardinality(Blocked) \in Nat
  BY <1>5, FS_Subset, FS_CardinalityType
<1> QED BY <1>1, <1>2, <1>6

\* All but the pairing decisions.
LEMMA CalmWork ==
  ASSUME Kept, BlockInv, NEW t \in Tasks,
         \/ StrangerWrites(t) \/ AutoApproveBotSender(t) \/ RequestPairing(t) \/ EditContact(t)
         \/ ToggleContact(t) \/ SaveContact(t) \/ AddFromChat(t) \/ AddContact(t) \/ RemoveContact(t)
         \/ FetchContacts(t) \/ ImportContact(t) \/ ReadSettings(t) \/ UpdateChannel(t) \/ PushPhones(t)
         \/ AdapterLoginStart(t) \/ LoginStart(t) \/ SyncAdapterConfig(t) \/ AdapterLogout(t)
         \/ DeleteChannel(t) \/ CreateEscalation(t) \/ ListOwnerContacts(t) \/ NextOwner(t)
         \/ OwnerAnswers(t) \/ Resolve(t) \/ BeginSend(t) \/ ResolveContact(t) \/ ResolveAddress(t)
         \/ RecordSend(t) \/ PostSend(t)
  PROVE  Calm(t)
<1>0. desk[t] \in TaskRow
  BY DEF Kept
<1>50. ~Deciding(t)
  BY DEF Deciding, Stands, StrangerWrites, AutoApproveBotSender, RequestPairing, EditContact, ToggleContact,
     SaveContact, AddFromChat, AddContact, RemoveContact, FetchContacts, ImportContact, ReadSettings,
     UpdateChannel, PushPhones, AdapterLoginStart, LoginStart, SyncAdapterConfig, AdapterLogout,
     DeleteChannel, CreateEscalation, ListOwnerContacts, NextOwner, OwnerAnswers, Resolve, BeginSend,
     ResolveContact, ResolveAddress, RecordSend, PostSend
<1>1. CASE StrangerWrites(t)
  <2>1. PICK p \in Senders : desk' = [desk EXCEPT ![t].who = p, ![t].flags = settings, ![t].at = "request"]
    BY <1>1 DEF StrangerWrites
  <2>2. PICK w : w = [desk[t] EXCEPT !.who = p, !.flags = settings, !.at = "request"]
    OBVIOUS
  <2>3. w \in TaskRow /\ w.kind = desk[t].kind /\ w.at = "request" /\ w.who = p
    BY <1>0, <2>1, <2>2 DEF TaskRow, TaskPlaces, Kept, ContactsTypeOK, ContactRow
  <2>4. desk' = [desk EXCEPT ![t] = w]
    BY <1>0, <2>1, <2>2 DEF TaskRow, Kept
  <2> QED BY <1>50, <2>3, <2>4, CalmSet
<1>2. CASE AutoApproveBotSender(t)
  BY <1>2, <1>50, CalmClose DEF AutoApproveBotSender
<1>3. CASE RequestPairing(t)
  BY <1>3, <1>50, CalmClose DEF RequestPairing
<1>4. CASE EditContact(t)
  <2>1. PICK p \in Known, reply \in BOOLEAN, r \in ContactRoles :
               desk' = [desk EXCEPT ![t].who = p, ![t].at = "write",
                                    ![t].row = [id |-> contact[p].id, role |-> r, reply |-> reply]]
    BY <1>4 DEF EditContact
  <2>2. PICK c : c = [id |-> contact[p].id, role |-> r, reply |-> reply]
    OBVIOUS
  <2>3. c \in ContactRow /\ c.id # 0 /\ p \in Senders
    BY <2>1, <2>2, KnownRow DEF ContactRow
  <2>4. PICK w : w = [desk[t] EXCEPT !.who = p, !.at = "write", !.row = c]
    OBVIOUS
  <2>5. w \in TaskRow /\ w.kind = desk[t].kind /\ w.at = "write" /\ w.row = c /\ w.who = p
    BY <1>0, <2>3, <2>4 DEF TaskRow, TaskPlaces
  <2>6. desk' = [desk EXCEPT ![t] = w]
    BY <1>0, <2>1, <2>2, <2>4 DEF TaskRow, Kept
  <2> QED BY <1>50, <2>3, <2>5, <2>6 DEF Calm, Moves, Writer
<1>5. CASE ToggleContact(t)
  <2>1. CASE Close(t)
    BY <1>50, <2>1, CalmClose
  <2>2. CASE \E p \in Senders : desk' = [desk EXCEPT ![t].who = p, ![t].at = "insert"]
    <3>1. PICK p \in Senders : desk' = [desk EXCEPT ![t].who = p, ![t].at = "insert"]
      BY <2>2
    <3>2. PICK w : w = [desk[t] EXCEPT !.who = p, !.at = "insert"]
      OBVIOUS
    <3>3. w \in TaskRow /\ w.kind = desk[t].kind /\ w.at = "insert" /\ w.who = p
      BY <1>0, <3>1, <3>2 DEF TaskRow, TaskPlaces
    <3>4. desk' = [desk EXCEPT ![t] = w]
      BY <1>0, <3>1, <3>2 DEF TaskRow, Kept
    <3> QED BY <1>50, <3>3, <3>4, CalmSet
  <2>3. CASE \E p \in Known, enable \in BOOLEAN :
               desk' = [desk EXCEPT ![t].who = p, ![t].at = "write",
                 ![t].row = [contact[p] EXCEPT !.reply = enable,
                                               !.role = IF enable /\ @ = "blocked" THEN "trusted" ELSE @]]
    <3>1. PICK p \in Known, enable \in BOOLEAN :
               desk' = [desk EXCEPT ![t].who = p, ![t].at = "write",
                 ![t].row = [contact[p] EXCEPT !.reply = enable,
                                               !.role = IF enable /\ @ = "blocked" THEN "trusted" ELSE @]]
      BY <2>3
    <3>2. PICK c : c = [contact[p] EXCEPT !.reply = enable, !.role = IF enable /\ @ = "blocked" THEN "trusted" ELSE @]
      OBVIOUS
    <3>3. c \in ContactRow /\ c.id # 0 /\ p \in Senders
      BY <3>1, <3>2, KnownRow DEF ContactRow, ContactRoles
    <3>4. PICK w : w = [desk[t] EXCEPT !.who = p, !.at = "write", !.row = c]
      OBVIOUS
    <3>5. w \in TaskRow /\ w.kind = desk[t].kind /\ w.at = "write" /\ w.row = c /\ w.who = p
      BY <1>0, <3>1, <3>3, <3>4 DEF TaskRow, TaskPlaces, Known
    <3>6. desk' = [desk EXCEPT ![t] = w]
      BY <1>0, <3>1, <3>2, <3>4 DEF TaskRow, Kept
    <3> QED BY <1>50, <3>3, <3>5, <3>6 DEF Calm, Moves, Writer
  <2> QED BY <1>5, <2>1, <2>2, <2>3 DEF ToggleContact
<1>6. CASE SaveContact(t)
  <2>1. Close(t) \/ Step(t, "phones")
    BY <1>6 DEF SaveContact
  <2> QED BY <1>50, <2>1, CalmClose, CalmStep DEF TaskPlaces
<1>7. CASE AddFromChat(t)
  BY <1>7, <1>50, CalmClose DEF AddFromChat
<1>8. CASE AddContact(t)
  <2>1. Close(t) \/ Step(t, "phones")
    BY <1>8 DEF AddContact
  <2> QED BY <1>50, <2>1, CalmClose, CalmStep DEF TaskPlaces
<1>9. CASE RemoveContact(t)
  BY <1>9, <1>50, CalmClose DEF RemoveContact
<1>10. CASE FetchContacts(t)
  <2>1. CASE Close(t)
    BY <1>50, <2>1, CalmClose
  <2>2. CASE ~Close(t)
    <3>1. PICK S \in SUBSET Senders : desk' = [desk EXCEPT ![t].sees = S, ![t].at = "each"]
      BY <1>10, <2>2 DEF FetchContacts
    <3>2. PICK w : w = [desk[t] EXCEPT !.sees = S, !.at = "each"]
      OBVIOUS
    <3>3. w \in TaskRow /\ w.kind = desk[t].kind /\ w.at = "each"
      BY <1>0, <3>1, <3>2 DEF TaskRow, TaskPlaces, Kept, ContactsTypeOK, ContactRow
    <3>4. desk' = [desk EXCEPT ![t] = w]
      BY <1>0, <3>1, <3>2 DEF TaskRow, Kept
    <3> QED BY <1>50, <3>3, <3>4, CalmSet
  <2> QED BY <2>1, <2>2
<1>11. CASE ImportContact(t)
  <2>1. CASE Close(t)
    BY <1>50, <2>1, CalmClose
  <2>2. CASE ~Close(t)
    <3>1. PICK p \in Senders : desk' = [desk EXCEPT ![t].sees = @ \ {p}]
      BY <1>11, <2>2, <1>0 DEF ImportContact, TaskRow
    <3>2. PICK w : w = [desk[t] EXCEPT !.sees = @ \ {p}]
      OBVIOUS
    <3>3. w \in TaskRow /\ w.kind = desk[t].kind /\ w.at = "each"
      BY <1>0, <1>11, <3>1, <3>2 DEF TaskRow, ImportContact, Stands
    <3>4. desk' = [desk EXCEPT ![t] = w]
      BY <1>0, <3>1, <3>2 DEF TaskRow, Kept
    <3> QED BY <1>50, <3>3, <3>4, CalmSet
  <2> QED BY <2>1, <2>2
<1>12. CASE ReadSettings(t)
  <2>1. PICK f \in Flags : desk' = [desk EXCEPT ![t].flags = Toggled(settings, f), ![t].at = "store"]
    BY <1>12 DEF ReadSettings
  <2>2. PICK w : w = [desk[t] EXCEPT !.flags = Toggled(settings, f), !.at = "store"]
    OBVIOUS
  <2>3. w \in TaskRow /\ w.kind = desk[t].kind /\ w.at = "store"
    BY <1>0, <2>1, <2>2 DEF TaskRow, TaskPlaces, Kept, ContactsTypeOK, ContactRow, Toggled
  <2>4. desk' = [desk EXCEPT ![t] = w]
    BY <1>0, <2>1, <2>2 DEF TaskRow, Kept
  <2> QED BY <1>50, <2>3, <2>4, CalmSet
<1>13. CASE UpdateChannel(t)
  <2>1. Close(t) \/ Step(t, "push")
    BY <1>13 DEF UpdateChannel
  <2> QED BY <1>50, <2>1, CalmClose, CalmStep DEF TaskPlaces
<1>14. CASE PushPhones(t)
  BY <1>14, <1>50, CalmClose DEF PushPhones
<1>15. CASE AdapterLoginStart(t)
  <2>1. desk' = [desk EXCEPT ![t].flags = settings, ![t].at = IF open THEN "connect" ELSE "done"]
    BY <1>15 DEF AdapterLoginStart
  <2>2. PICK w : w = [desk[t] EXCEPT !.flags = settings, !.at = IF open THEN "connect" ELSE "done"]
    OBVIOUS
  <2>3. w \in TaskRow /\ w.kind = desk[t].kind /\ w.at = IF open THEN "connect" ELSE "done"
    BY <1>0, <2>1, <2>2 DEF TaskRow, TaskPlaces, Kept, ContactsTypeOK, ContactRow
  <2>4. desk' = [desk EXCEPT ![t] = w]
    BY <1>0, <2>1, <2>2 DEF TaskRow, Kept
  <2> QED BY <1>50, <2>3, <2>4, CalmSet
<1>16. CASE LoginStart(t)
  <2>1. Close(t) \/ Step(t, "push")
    BY <1>16 DEF LoginStart
  <2> QED BY <1>50, <2>1, CalmClose, CalmStep DEF TaskPlaces
<1>17. CASE SyncAdapterConfig(t)
  BY <1>17, <1>50, CalmClose DEF SyncAdapterConfig
<1>18. CASE AdapterLogout(t)
  <2>1. Close(t) \/ Step(t, "delete")
    BY <1>18 DEF AdapterLogout
  <2> QED BY <1>50, <2>1, CalmClose, CalmStep DEF TaskPlaces
<1>19. CASE DeleteChannel(t)
  BY <1>19, <1>50, CalmClose DEF DeleteChannel
<1>20. CASE CreateEscalation(t)
  <2>1. Step(t, "owners")
    BY <1>20 DEF CreateEscalation
  <2> QED BY <1>50, <2>1, CalmStep DEF TaskPlaces
<1>21. CASE ListOwnerContacts(t)
  <2>1. desk' = [desk EXCEPT ![t].sees = Owners, ![t].at = "next"]
    BY <1>21 DEF ListOwnerContacts
  <2>2. PICK w : w = [desk[t] EXCEPT !.sees = Owners, !.at = "next"]
    OBVIOUS
  <2>3. w \in TaskRow /\ w.kind = desk[t].kind /\ w.at = "next"
    BY <1>0, <2>1, <2>2 DEF TaskRow, TaskPlaces, Kept, ContactsTypeOK, ContactRow, Owners
  <2>4. desk' = [desk EXCEPT ![t] = w]
    BY <1>0, <2>1, <2>2 DEF TaskRow, Kept
  <2> QED BY <1>50, <2>3, <2>4, CalmSet
<1>22. CASE NextOwner(t)
  <2>1. CASE Close(t)
    BY <1>50, <2>1, CalmClose
  <2>2. CASE ~Close(t)
    <3>1. PICK p \in desk[t].sees : desk' = [desk EXCEPT ![t].who = p, ![t].sees = @ \ {p}, ![t].at = "record"]
      BY <1>22, <2>2 DEF NextOwner
    <3>2. PICK w : w = [desk[t] EXCEPT !.who = p, !.sees = @ \ {p}, !.at = "record"]
      OBVIOUS
    <3>3. w \in TaskRow /\ w.kind = "ask" /\ w.kind = desk[t].kind /\ w.at = "record"
      BY <1>0, <1>22, <3>1, <3>2 DEF TaskRow, TaskPlaces, NextOwner, Stands
    <3>4. desk' = [desk EXCEPT ![t] = w]
      BY <1>0, <3>1, <3>2 DEF TaskRow, Kept
    <3> QED BY <1>50, <3>3, <3>4 DEF Calm, Moves, Writer
  <2> QED BY <2>1, <2>2
<1>23. CASE OwnerAnswers(t)
  <2>1. Close(t) \/ Step(t, "resolve")
    BY <1>23 DEF OwnerAnswers
  <2> QED BY <1>50, <2>1, CalmClose, CalmStep DEF TaskPlaces
<1>24. CASE Resolve(t)
  BY <1>24, <1>50, CalmClose DEF Resolve
<1>25. CASE BeginSend(t)
  <2>1. Step(t, "resolve")
    BY <1>25 DEF BeginSend
  <2> QED BY <1>50, <2>1, CalmStep DEF TaskPlaces
<1>26. CASE ResolveContact(t)
  <2>1. CASE Close(t)
    BY <1>50, <2>1, CalmClose
  <2>2. CASE ~Close(t)
    <3>1. PICK p \in Senders : p \notin barred'[t] /\ desk' = [desk EXCEPT ![t].who = p, ![t].at = "record"]
      BY <1>26, <2>2 DEF ResolveContact, Known, BlockInv, contactHist
    <3>2. PICK w : w = [desk[t] EXCEPT !.who = p, !.at = "record"]
      OBVIOUS
    <3>3. w \in TaskRow /\ w.kind = desk[t].kind /\ w.at = "record" /\ w.who = p
      BY <1>0, <3>1, <3>2 DEF TaskRow, TaskPlaces
    <3>4. desk' = [desk EXCEPT ![t] = w]
      BY <1>0, <3>1, <3>2 DEF TaskRow, Kept
    <3> QED BY <1>50, <3>1, <3>3, <3>4 DEF Calm, Moves, Writer
  <2> QED BY <2>1, <2>2
<1>27. CASE ResolveAddress(t)
  <2>1. CASE Close(t)
    BY <1>50, <2>1, CalmClose
  <2>2. CASE ~Close(t)
    <3>1. PICK p \in Senders : p \notin barred'[t] /\ desk' = [desk EXCEPT ![t].who = p, ![t].at = "record"]
      <4>1. PICK p \in Senders, S \in SearchContacts :
                 p \notin S \cap Blocked /\ desk' = [desk EXCEPT ![t].who = p, ![t].at = "record"]
        BY <1>27, <2>2 DEF ResolveAddress
      <4>2. CASE Cardinality(Blocked) > SearchCap
        BY <1>27, <4>1, <4>2 DEF ResolveAddress, Kept, ContactsTypeOK
      <4>3. CASE ~(Cardinality(Blocked) > SearchCap)
        <5>1. Cardinality(Blocked) <= SearchCap
          <6>1. IsFiniteSet(Blocked)
            BY ContactsAssumption, FS_Subset DEF Blocked
          <6>2. Cardinality(Blocked) \in Nat /\ SearchCap \in Nat
            BY <6>1, FS_CardinalityType, ContactsAssumption
          <6> QED BY <4>3, <6>2
        <5>2. p \notin Blocked
          BY <4>1, <5>1, PageHasBlocked DEF BlockInv
        <5> QED BY <1>27, <4>1, <4>3, <5>2 DEF ResolveAddress, BlockInv
      <4> QED BY <4>2, <4>3
    <3>2. PICK w : w = [desk[t] EXCEPT !.who = p, !.at = "record"]
      OBVIOUS
    <3>3. w \in TaskRow /\ w.kind = desk[t].kind /\ w.at = "record" /\ w.who = p
      BY <1>0, <3>1, <3>2 DEF TaskRow, TaskPlaces
    <3>4. desk' = [desk EXCEPT ![t] = w]
      BY <1>0, <3>1, <3>2 DEF TaskRow, Kept
    <3> QED BY <1>50, <3>1, <3>3, <3>4 DEF Calm, Moves, Writer
  <2> QED BY <2>1, <2>2
<1>28. CASE RecordSend(t)
  <2>1. Close(t) \/ Step(t, "post")
    BY <1>28 DEF RecordSend
  <2> QED BY <1>50, <2>1, CalmClose, CalmStep DEF TaskPlaces
<1>29. CASE PostSend(t)
  <2>1. Close(t) \/ Step(t, "next")
    BY <1>29 DEF PostSend
  <2> QED BY <1>50, <2>1, CalmClose, CalmStep DEF TaskPlaces
<1> QED BY <1>1, <1>2, <1>3, <1>4, <1>5, <1>6, <1>7, <1>8, <1>9, <1>10, <1>11, <1>12, <1>13, <1>14, <1>15,
           <1>16, <1>17, <1>18, <1>19, <1>20, <1>21, <1>22, <1>23, <1>24, <1>25, <1>26, <1>27, <1>28, <1>29

\* A task that decides on a pairing goes on too.
LEMMA DecidersMove ==
  ASSUME Kept, NEW t \in Tasks, Decide(t) \/ AddPaired(t) \/ FindPaired(t) \/ FlipPaired(t)
  PROVE  \E w \in TaskRow : Moves(t, w) /\ w.kind = "decide" /\ Writer(w)
<1>0. desk[t] \in TaskRow
  BY DEF Kept
<1>1. ASSUME Close(t), desk[t].kind = "decide" PROVE \E w \in TaskRow : Moves(t, w) /\ w.kind = "decide" /\ Writer(w)
  BY <1>1, Closes DEF Moves, Writer
<1>2. CASE Decide(t)
  <2>1. CASE Close(t)
    BY <1>1, <1>2, <2>1 DEF Decide, Stands
  <2>2. CASE ~Close(t)
    <3>1. PICK r \in pairings, s \in Decisions :
               desk' = [desk EXCEPT ![t].who = r.of, ![t].at = "contact",
                                    ![t].row = [id |-> 0, role |-> IF s = "approved" THEN "trusted" ELSE "blocked",
                                                reply |-> (IF s = "approved" THEN "trusted"
                                                        ELSE "blocked") = "trusted"]]
      BY <1>2, <2>2 DEF Decide
    <3>2. PICK c : c = [id |-> 0, role |-> IF s = "approved" THEN "trusted" ELSE "blocked",
                        reply |-> (IF s = "approved" THEN "trusted" ELSE "blocked") = "trusted"]
      OBVIOUS
    <3>3. c \in ContactRow /\ r.of \in Senders
      BY <3>1, <3>2 DEF ContactRow, ContactRoles, Kept, Filed
    <3>4. PICK w : w = [desk[t] EXCEPT !.who = r.of, !.at = "contact", !.row = c]
      OBVIOUS
    <3>5. w \in TaskRow /\ w.kind = desk[t].kind /\ w.at = "contact"
      BY <1>0, <3>3, <3>4 DEF TaskRow, TaskPlaces
    <3>6. desk' = [desk EXCEPT ![t] = w]
      BY <1>0, <3>1, <3>2, <3>4 DEF TaskRow, Kept
    <3> QED BY <1>2, <3>5, <3>6 DEF Moves, Decide, Stands, Writer
  <2> QED BY <2>1, <2>2
<1>3. CASE AddPaired(t)
  <2>1. Close(t) \/ Step(t, "find")
    BY <1>3 DEF AddPaired
  <2>2. CASE Step(t, "find")
    <3>1. PICK w \in TaskRow : Moves(t, w) /\ w = [desk[t] EXCEPT !.at = "find"]
      BY <2>2, Steps DEF TaskPlaces
    <3>2. w.at = "find" /\ w.kind = "decide"
      BY <1>0, <1>3, <3>1 DEF TaskRow, AddPaired, Stands
    <3> QED BY <3>1, <3>2 DEF Writer
  <2> QED BY <1>1, <1>3, <2>1, <2>2 DEF AddPaired, Stands
<1>4. CASE FindPaired(t)
  <2>1. CASE desk[t].who \in Known
    <3>1. desk' = [desk EXCEPT ![t].row.id = contact[desk[t].who].id, ![t].at = "flip"]
      BY <1>4, <2>1 DEF FindPaired
    <3>2. PICK w : w = [desk[t] EXCEPT !.row = [desk[t].row EXCEPT !.id = contact[desk[t].who].id], !.at = "flip"]
      OBVIOUS
    <3>3. w \in TaskRow /\ w.kind = desk[t].kind /\ w.at = "flip" /\ w.row.id = contact[desk[t].who].id
          /\ w.who = desk[t].who
      BY <1>0, <2>1, <3>2, KnownRow DEF TaskRow, TaskPlaces, ContactRow
    <3>4. desk' = [desk EXCEPT ![t] = w]
      BY <1>0, <3>1, <3>2 DEF TaskRow, Kept
    <3> QED BY <1>4, <2>1, <3>3, <3>4, KnownRow DEF Moves, FindPaired, Stands, Writer
  <2>2. CASE desk[t].who \notin Known
    BY <1>1, <1>4, <2>2 DEF FindPaired, Stands
  <2> QED BY <2>1, <2>2
<1>5. CASE FlipPaired(t)
  BY <1>1, <1>5 DEF FlipPaired, Stands
<1> QED BY <1>2, <1>3, <1>4, <1>5

\* A task's step changes its own row.
LEMMA Goes ==
  ASSUME Kept, PlacesInv, BlockInv, NEW t \in Tasks, Work(t)
  PROVE  \E w \in TaskRow : /\ Moves(t, w) /\ Writer(w)
                            /\ (w.kind = "send" /\ w.at = "record" => w.who \notin barred'[t])
<1>1. CASE Decide(t) \/ AddPaired(t) \/ FindPaired(t) \/ FlipPaired(t)
  BY <1>1, DecidersMove
<1>2. CASE ~(Decide(t) \/ AddPaired(t) \/ FindPaired(t) \/ FlipPaired(t))
  <2>1. Calm(t)
    BY <1>2, CalmWork DEF Work
  <2> QED BY <2>1 DEF Calm
<1> QED BY <1>1, <1>2

\* What a step leaves true of all tasks.
LEMMA DeskStep ==
  ASSUME Kept, PlacesInv, BlockInv, NEW t \in Tasks, Work(t)
  PROVE  /\ desk' \in [Tasks -> TaskRow]
         /\ \A u \in Tasks : Stands(u, "ask", "idle")' => Stands(u, "ask", "idle") /\ u # t
         /\ PlacesInv'
         /\ \A u \in Tasks : Stands(u, "send", "record")' =>
                             desk'[u].who \notin (IF u = t THEN barred'[t] ELSE barred[u])
<1>1. PICK w \in TaskRow : /\ Moves(t, w) /\ Writer(w)
                           /\ (w.kind = "send" /\ w.at = "record" => w.who \notin barred'[t])
  BY Goes
<1>2. desk' \in [Tasks -> TaskRow] /\ \A u \in Tasks : desk'[u] = IF u = t THEN w ELSE desk[u]
  BY <1>1 DEF Moves, Kept
<1> QED BY <1>1, <1>2 DEF Moves, Stands, BlockInv, PlacesInv

\* What changes the rows of contacts.
LEMMA Writers ==
  ASSUME Kept, PlacesInv, VerdictInv, NEW t \in Tasks, Work(t),
         ~(Decide(t) \/ FindPaired(t) \/ BeginSend(t) \/ ResolveAddress(t) \/ DeleteChannel(t))
  PROVE  lastId' \in Nat /\ lastId <= lastId' /\ (Written(t) \/ Untouched)
<1>1. CASE AutoApproveBotSender(t)
  <2>1. desk[t].who \in Senders /\ CreateContact(t, desk[t].who, "trusted", TRUE)
    BY <1>1 DEF AutoApproveBotSender, Stands, PlacesInv, Writer
  <2> QED BY <2>1, Creates DEF ContactRoles
<1>2. CASE AddFromChat(t)
  <2>1. desk[t].who \in Senders /\ CreateContact(t, desk[t].who, "trusted", TRUE)
    BY <1>2 DEF AddFromChat, Stands, PlacesInv, Writer
  <2> QED BY <2>1, Creates DEF ContactRoles
<1>3. CASE AddPaired(t)
  <2>1. CreateContact(t, desk[t].who, desk[t].row.role, desk[t].row.reply)
    BY <1>3 DEF AddPaired
  <2>2. desk[t].who \in Senders /\ desk[t].row.role \in ContactRoles /\ desk[t].row.reply \in BOOLEAN
    BY <1>3 DEF AddPaired, Stands, Deciding, VerdictInv, ContactRoles, Kept, TaskRow, ContactRow
  <2> QED BY <2>1, <2>2, Creates
<1>4. CASE AddContact(t)
  <2>1. PICK p \in Senders, r \in ContactRoles, reply \in BOOLEAN : CreateContact(t, p, r, reply)
    BY <1>4 DEF AddContact
  <2> QED BY <2>1, Creates
<1>5. CASE ImportContact(t)
  <2>1. CASE UNCHANGED <<contact, barred, verdict, lastId>>
    BY <2>1 DEF Untouched, Kept
  <2>2. CASE \E p \in desk[t].sees : CreateContact(t, p, "trusted", FALSE)
    <3>1. PICK p \in desk[t].sees : CreateContact(t, p, "trusted", FALSE)
      BY <2>2
    <3>2. p \in Senders
      BY <3>1 DEF Kept, TaskRow
    <3> QED BY <3>1, <3>2, Creates DEF ContactRoles
  <2> QED BY <1>5, <2>1, <2>2 DEF ImportContact
<1>6. CASE SaveContact(t)
  <2>1. UpdateContact(t, desk[t].who, desk[t].row) /\ lastId' = lastId /\ desk[t].at \in {"write", "flip"}
    BY <1>6 DEF SaveContact, Stands
  <2>2. desk[t].row \in ContactRow /\ desk[t].row.id # 0 /\ desk[t].who \in Senders
    BY <2>1 DEF Kept, TaskRow, PlacesInv, Writer
  <2> QED BY <2>1, <2>2, Updates DEF Kept
<1>7. CASE FlipPaired(t)
  <2>1. UpdateContact(t, desk[t].who, desk[t].row) /\ lastId' = lastId /\ desk[t].at \in {"write", "flip"}
    BY <1>7 DEF FlipPaired, Stands
  <2>2. desk[t].row \in ContactRow /\ desk[t].row.id # 0 /\ desk[t].who \in Senders
    BY <2>1 DEF Kept, TaskRow, PlacesInv, Writer
  <2> QED BY <2>1, <2>2, Updates DEF Kept
<1>8. CASE RemoveContact(t)
  <2>1. PICK p \in Known : WriteContact(t, p, NoContact) /\ lastId' = lastId
    BY <1>8 DEF RemoveContact
  <2>2. NoContact \in [id : 0..lastId', role : ContactRoles \cup {"none"}, reply : BOOLEAN] /\ NoContact.role = "none"
    BY <2>1 DEF NoContact, Kept
  <2>3. p \in Senders /\ lastId' \in Nat /\ lastId <= lastId'
    BY <2>1 DEF Known, Kept
  <2> QED BY <2>1, <2>2, <2>3 DEF Written
<1>9. CASE RequestPairing(t)
  <2>1. UNCHANGED <<contact, contactHist>> /\ lastId' \in {lastId, lastId + 1}
    BY <1>9 DEF RequestPairing
  <2> QED BY <2>1 DEF Untouched, Kept, contactHist
<1>10. CASE \/ UpdateChannel(t) \/ CreateEscalation(t) \/ Resolve(t) \/ RecordSend(t) \/ PostSend(t)
  <2>1. UNCHANGED <<contact, contactHist, lastId>>
    BY <1>10 DEF UpdateChannel, CreateEscalation, Resolve, RecordSend, PostSend
  <2> QED BY <2>1 DEF Untouched, Kept, contactHist
<1>11. CASE \/ StrangerWrites(t) \/ EditContact(t) \/ ToggleContact(t) \/ FetchContacts(t) \/ ReadSettings(t)
          \/ PushPhones(t) \/ AdapterLoginStart(t) \/ LoginStart(t) \/ SyncAdapterConfig(t)
          \/ AdapterLogout(t) \/ ListOwnerContacts(t) \/ NextOwner(t) \/ OwnerAnswers(t)
          \/ ResolveContact(t)
  <2>1. UNCHANGED <<contactRows, contactHist>>
    BY <1>11 DEF StrangerWrites, EditContact, ToggleContact, FetchContacts, ReadSettings, PushPhones,
       AdapterLoginStart, LoginStart, SyncAdapterConfig, AdapterLogout, ListOwnerContacts, NextOwner,
       OwnerAnswers, ResolveContact
  <2> QED BY <2>1 DEF Untouched, Kept, contactRows, contactHist
<1> QED BY <1>1, <1>2, <1>3, <1>4, <1>5, <1>6, <1>7, <1>8, <1>9, <1>10, <1>11 DEF Work

\* The rows of contacts and the histories keep their shape.
LEMMA RowsStep ==
  ASSUME Kept, PlacesInv, VerdictInv, BlockInv, NEW t \in Tasks, Work(t)
  PROVE  /\ contact' \in [Senders -> [id : 0..lastId', role : ContactRoles \cup {"none"}, reply : BOOLEAN]]
         /\ barred' \in [Tasks -> SUBSET Senders] /\ verdict' \in [Senders -> {"none", "trusted", "blocked"}]
         /\ lastId' \in Nat /\ Blocked' \subseteq Known'
         /\ \A u \in Tasks : barred'[u] \subseteq Blocked' /\ (u # t => barred'[u] \subseteq barred[u])
<1>1. CASE ~(Decide(t) \/ FindPaired(t) \/ BeginSend(t) \/ ResolveAddress(t) \/ DeleteChannel(t))
  <2>1. lastId' \in Nat /\ lastId <= lastId' /\ (Written(t) \/ Untouched)
    BY <1>1, Writers
  <2> QED BY <2>1, WrittenRows DEF BlockInv
<1>2. CASE Decide(t) \/ FindPaired(t)
  <2>1. UNCHANGED <<contact, barred, lastId>>
    BY <1>2 DEF Decide, FindPaired, contactRows
  <2>2. verdict' \in [Senders -> {"none", "trusted", "blocked"}]
    <3>1. CASE Decide(t)
      <4>1. CASE UNCHANGED verdict
        BY <4>1 DEF Kept, ContactsTypeOK
      <4>2. CASE verdict' # verdict
        <5>1. PICK r \in pairings, s \in Decisions :
                   verdict' = [verdict EXCEPT ![r.of] = IF \E u \in Tasks : Deciding(u)
                           /\ desk[u].who = r.of THEN "none"
                                                        ELSE IF s = "approved" THEN "trusted" ELSE "blocked"]
          BY <3>1, <4>2 DEF Decide
        <5>2. PICK v \in {"none", "trusted", "blocked"} : verdict' = [verdict EXCEPT ![r.of] = v]
          BY <5>1
        <5> QED BY <5>2 DEF Kept, ContactsTypeOK
      <4> QED BY <4>1, <4>2
    <3>2. CASE FindPaired(t)
      <4>1. verdict' \in {verdict, [verdict EXCEPT ![desk[t].who] = "none"]}
        BY <3>2 DEF FindPaired
      <4> QED BY <4>1 DEF Kept, ContactsTypeOK
    <3> QED BY <1>2, <3>1, <3>2
  <2> QED BY <2>1, <2>2 DEF Kept, ContactsTypeOK, BlockInv, Blocked, Known
<1>3. CASE BeginSend(t) \/ ResolveAddress(t)
  <2>1. UNCHANGED <<contact, verdict, lastId>>
    BY <1>3 DEF BeginSend, ResolveAddress, contactRows
  <2>2. barred' \in {barred, [barred EXCEPT ![t] = Blocked], [barred EXCEPT ![t] = {}]}
    BY <1>3 DEF BeginSend, ResolveAddress
  <2>3. Blocked \subseteq Senders /\ Blocked' = Blocked /\ Known' = Known
    BY <2>1 DEF Blocked, Known
  <2>4. barred' \in [Tasks -> SUBSET Senders]
    BY <2>2, <2>3 DEF Kept, ContactsTypeOK
  <2>5. \A u \in Tasks : barred'[u] \subseteq Blocked /\ (u # t => barred'[u] \subseteq barred[u])
    BY <2>2 DEF Kept, ContactsTypeOK, BlockInv
  <2> QED BY <2>1, <2>3, <2>4, <2>5 DEF Kept, ContactsTypeOK, BlockInv
<1>4. CASE DeleteChannel(t)
  <2>1. /\ contact' = [p \in Senders |-> NoContact] /\ barred' = [u \in Tasks |-> {}]
        /\ verdict' = [p \in Senders |-> "none"] /\ lastId' = lastId
    BY <1>4 DEF DeleteChannel
  <2>2. NoContact \in [id : 0..lastId, role : ContactRoles \cup {"none"}, reply : BOOLEAN] /\ NoContact.role = "none"
    BY DEF NoContact, Kept
  <2>3. Blocked' = {}
    BY <2>1, <2>2 DEF Blocked
  <2> QED BY <2>1, <2>2, <2>3 DEF Kept
<1> QED BY <1>1, <1>2, <1>3, <1>4

\* Who does not decide leaves a verdict and its contact alone, or ends the verdict.
LEMMA Spares ==
  ASSUME Kept, PlacesInv, VerdictInv, NEW t \in Tasks, Work(t),
         ~(Decide(t) \/ AddPaired(t) \/ FindPaired(t) \/ FlipPaired(t)),
         ~Deciding(t)
  PROVE  \A p \in Senders : verdict'[p] = "none" \/ (verdict'[p] = verdict[p] /\ contact'[p] = contact[p])
<1>1. CASE BeginSend(t) \/ ResolveAddress(t)
  BY <1>1 DEF BeginSend, ResolveAddress, contactRows
<1>2. CASE DeleteChannel(t)
  BY <1>2 DEF DeleteChannel
<1>3. CASE ~(BeginSend(t) \/ ResolveAddress(t) \/ DeleteChannel(t))
  <2>1. Written(t) \/ Untouched
    BY <1>3, Writers
  <2>2. CASE Written(t)
    <3>1. PICK p \in Senders, c \in [id : 0..lastId', role : ContactRoles \cup {"none"}, reply : BOOLEAN] :
               WriteContact(t, p, c)
      BY <2>2 DEF Written
    <3>2. contact' = [contact EXCEPT ![p] = c] /\ verdict' = [verdict EXCEPT ![p] = "none"]
      BY <3>1 DEF WriteContact
    <3> QED BY <3>2 DEF Kept, ContactsTypeOK
  <2> QED BY <2>1, <2>2 DEF Untouched
<1> QED BY <1>1, <1>2, <1>3

\* A verdict outlives the steps of those who do not decide.
LEMMA VerdictKept ==
  ASSUME Kept, VerdictInv, NEW t \in Tasks, Calm(t), contact' \in [Senders -> ContactRow],
         \A p \in Senders : verdict'[p] = "none" \/ (verdict'[p] = verdict[p] /\ contact'[p] = contact[p])
  PROVE  VerdictInv'
<1>1. PICK w \in TaskRow : Moves(t, w) /\ w.at \notin {"contact", "find", "flip"}
  BY DEF Calm
<1>2. \A u \in Tasks : Deciding(u)' => u # t /\ desk'[u] = desk[u] /\ Deciding(u)
  BY <1>1 DEF Moves, Kept, Deciding
<1>3. \A u \in Tasks : Deciding(u) => Deciding(u)' /\ desk'[u] = desk[u]
  BY <1>1 DEF Moves, Kept, Deciding, Calm
<1>4. \A u \in Tasks : Stands(u, "decide", "flip")' => Stands(u, "decide", "flip") /\ Deciding(u)
          /\ desk'[u] = desk[u]
  BY <1>2 DEF Stands, Deciding
<1> QED BY <1>2, <1>3, <1>4 DEF VerdictInv

\* UpdatePairingStatus gives a verdict only if nobody else decides about the sender.
LEMMA DecideVerdict ==
  ASSUME Kept, VerdictInv, NEW t \in Tasks, Decide(t), ~(Close(t) /\ verdict' = verdict)
  PROVE  VerdictInv'
<1>0. desk[t] \in TaskRow /\ ~Deciding(t) /\ desk[t].kind = "decide" /\ contact' = contact
  BY DEF Kept, Decide, Stands, Deciding
<1>1. PICK r \in pairings, s \in Decisions :
           /\ desk' = [desk EXCEPT ![t].who = r.of, ![t].at = "contact",
                                   ![t].row = [id |-> 0, role |-> IF s = "approved" THEN "trusted" ELSE "blocked",
                                               reply |-> (IF s = "approved" THEN "trusted"
                                                       ELSE "blocked") = "trusted"]]
           /\ verdict' = [verdict EXCEPT ![r.of] = IF \E u \in Tasks : Deciding(u) /\ desk[u].who = r.of
                                                   THEN "none" ELSE IF s = "approved" THEN "trusted" ELSE "blocked"]
  BY DEF Decide
<1>2. PICK c : c = [id |-> 0, role |-> IF s = "approved" THEN "trusted" ELSE "blocked",
                    reply |-> (IF s = "approved" THEN "trusted" ELSE "blocked") = "trusted"]
  OBVIOUS
<1>3. c.role \in {"trusted", "blocked"} /\ c.reply = (c.role = "trusted") /\ r.of \in Senders
  BY <1>1, <1>2 DEF Kept, Filed
<1>4. PICK w : w = [desk[t] EXCEPT !.who = r.of, !.at = "contact", !.row = c]
  OBVIOUS
<1>5. w.kind = "decide" /\ w.at = "contact" /\ w.who = r.of /\ w.row = c
  BY <1>0, <1>4 DEF TaskRow
<1>6. desk' = [desk EXCEPT ![t] = w]
  BY <1>0, <1>1, <1>2, <1>4 DEF TaskRow, Kept
<1>7. \A u \in Tasks : desk'[u] = IF u = t THEN w ELSE desk[u]
  BY <1>6 DEF Kept
<1>8. \A u \in Tasks : Deciding(u)' <=> u = t \/ Deciding(u)
  BY <1>5, <1>7 DEF Deciding
<1>9. \A u \in Tasks : Stands(u, "decide", "flip")' => u # t /\ Stands(u, "decide", "flip") /\ Deciding(u)
  BY <1>5, <1>7 DEF Deciding, Stands
<1>10. \A p \in Senders : verdict'[p] = IF p # r.of THEN verdict[p]
                                        ELSE IF \E u \in Tasks : Deciding(u) /\ desk[u].who = p
                                                THEN "none" ELSE c.role
  BY <1>1, <1>2 DEF Kept, ContactsTypeOK
<1>11. \A u \in Tasks : Deciding(u)' => desk'[u].who \in Senders /\ desk'[u].row.role \in {"trusted", "blocked"}
                                      /\ desk'[u].row.reply = (desk'[u].row.role = "trusted")
  BY <1>3, <1>5, <1>7, <1>8 DEF VerdictInv
<1>12. \A u \in Tasks : Deciding(u)' /\ verdict'[desk'[u].who] # "none" => desk'[u].row.role = verdict'[desk'[u].who]
  BY <1>0, <1>3, <1>5, <1>7, <1>8, <1>10 DEF VerdictInv
<1>13. \A u \in Tasks : Stands(u, "decide", "flip")' =>
            verdict'[desk'[u].who] = "none" \/ contact'[desk'[u].who].id = desk'[u].row.id
  BY <1>0, <1>3, <1>7, <1>9, <1>10 DEF VerdictInv
<1>14. \A p \in Senders : verdict'[p] = "none" \/ (\E u \in Tasks : Deciding(u)' /\ desk'[u].who = p)
                          \/ (contact'[p].role = verdict'[p] /\ contact'[p].reply = (verdict'[p] = "trusted"))
  <2> TAKE p \in Senders
  <2>1. CASE p = r.of
    BY <1>5, <1>7, <1>8, <2>1
  <2>2. CASE p # r.of
    <3>1. ASSUME NEW u \in Tasks, Deciding(u), desk[u].who = p PROVE Deciding(u)' /\ desk'[u].who = p
      BY <1>0, <1>7, <1>8, <3>1
    <3>2. verdict'[p] = verdict[p] /\ contact'[p] = contact[p]
      BY <1>0, <1>10, <2>2
    <3> QED BY <3>1, <3>2 DEF VerdictInv
  <2> QED BY <2>1, <2>2
<1> QED BY <1>11, <1>12, <1>13, <1>14 DEF VerdictInv

\* The contact of who decides is the only one a decision's steps touch.
LEMMA DecisionVerdict ==
  ASSUME Kept, PlacesInv, VerdictInv, NEW t \in Tasks, Deciding(t),
         NEW w \in TaskRow, Moves(t, w), NEW p \in Senders, p = desk[t].who,
         contact' \in [Senders -> ContactRow], \A q \in Senders \ {p} : contact'[q] = contact[q]
                 /\ verdict'[q] = verdict[q],
         verdict'[p] \in {verdict[p], "none"},
         w.at \in {"contact", "find", "flip"} => w.who = p /\ w.row.role = desk[t].row.role
                 /\ w.row.reply = desk[t].row.reply,
         w.at = "flip" => verdict'[p] = "none" \/ contact'[p].id = w.row.id,
         \A u \in Tasks \ {t} : Stands(u, "decide", "flip") /\ desk[u].who = p =>
           verdict'[p] = "none" \/ contact'[p].id = desk[u].row.id,
         w.at \notin {"contact", "find", "flip"} =>
           verdict'[p] = "none" \/ (contact'[p].role = verdict[p] /\ contact'[p].reply = (verdict[p] = "trusted"))
  PROVE  VerdictInv'
<1>1. \A u \in Tasks : desk'[u] = IF u = t THEN w ELSE desk[u]
  BY DEF Moves, Kept
<1>2. w.kind = "decide"
  BY DEF Moves, Deciding
<1>3. \A u \in Tasks : Deciding(u)' <=> IF u = t THEN w.at \in {"contact", "find", "flip"} ELSE Deciding(u)
  BY <1>1, <1>2 DEF Deciding
<1>4. \A u \in Tasks : Stands(u, "decide", "flip")' <=> IF u = t THEN w.at = "flip" ELSE Stands(u, "decide", "flip")
  BY <1>1, <1>2 DEF Stands
<1>5. \A u \in Tasks : Deciding(u)' => desk'[u].who \in Senders /\ desk'[u].row.role \in {"trusted", "blocked"}
                                     /\ desk'[u].row.reply = (desk'[u].row.role = "trusted")
  BY <1>1, <1>3 DEF VerdictInv
<1>6. \A u \in Tasks : Deciding(u)' /\ verdict'[desk'[u].who] # "none" => desk'[u].row.role = verdict'[desk'[u].who]
  BY <1>1, <1>3 DEF VerdictInv
<1>7. \A u \in Tasks : Stands(u, "decide", "flip")' =>
           verdict'[desk'[u].who] = "none" \/ contact'[desk'[u].who].id = desk'[u].row.id
  <2> TAKE u \in Tasks
  <2>1. CASE u = t
    BY <1>1, <1>4, <2>1
  <2>2. CASE u # t
    <3>1. Stands(u, "decide", "flip") => Deciding(u)
      BY DEF Stands, Deciding
    <3> QED BY <1>1, <1>4, <2>2, <3>1 DEF VerdictInv
  <2> QED BY <2>1, <2>2
<1>8. \A q \in Senders : verdict'[q] = "none" \/ (\E u \in Tasks : Deciding(u)' /\ desk'[u].who = q)
                         \/ (contact'[q].role = verdict'[q] /\ contact'[q].reply = (verdict'[q] = "trusted"))
  <2> TAKE q \in Senders
  <2>1. CASE q = p
    BY <1>1, <1>3, <2>1
  <2>2. CASE q # p
    <3>1. ASSUME NEW u \in Tasks, Deciding(u), desk[u].who = q PROVE Deciding(u)' /\ desk'[u].who = q
      BY <1>1, <1>3, <2>2, <3>1
    <3> QED BY <2>2, <3>1 DEF VerdictInv
  <2> QED BY <2>1, <2>2
<1> QED BY <1>5, <1>6, <1>7, <1>8 DEF VerdictInv

\* The INSERT of createContactFromPairing carries the verdict out, or finds a contact.
LEMMA AddedVerdict ==
  ASSUME Kept, PlacesInv, VerdictInv, NEW t \in Tasks, AddPaired(t), contact' \in [Senders -> ContactRow]
  PROVE  VerdictInv'
<1>0. desk[t] \in TaskRow /\ Deciding(t) /\ desk[t].who \in Senders
  BY DEF Kept, AddPaired, Stands, Deciding, VerdictInv
<1>1. PICK p \in Senders : p = desk[t].who
  BY <1>0
<1>2. CASE Insertable(p)
  <2>1. Close(t) /\ verdict' = verdict /\ contact[p].id = 0
        /\ contact' = [contact EXCEPT ![p] = [id |-> lastId + 1, role |-> desk[t].row.role,
                reply |-> desk[t].row.reply]]
    BY <1>0, <1>1, <1>2 DEF AddPaired, CreateContact, WriteContact, Insertable
  <2>2. PICK w \in TaskRow : Moves(t, w) /\ w.at = "done"
    BY <2>1, Closes
  <2>3. \A u \in Tasks : Stands(u, "decide", "flip") /\ desk[u].who = p => verdict[p] = "none"
    BY <2>1 DEF VerdictInv, PlacesInv, Writer, Stands
  <2>4. contact'[p].role = desk[t].row.role /\ contact'[p].reply = desk[t].row.reply
    BY <2>1 DEF Kept, ContactsTypeOK
  <2>5. verdict'[p] = "none" \/ (contact'[p].role = verdict[p] /\ contact'[p].reply = (verdict[p] = "trusted"))
    BY <1>0, <1>1, <2>1, <2>4 DEF VerdictInv
  <2>6. \A q \in Senders \ {p} : contact'[q] = contact[q] /\ verdict'[q] = verdict[q]
    BY <2>1 DEF Kept, ContactsTypeOK
  <2> QED BY <1>0, <1>1, <2>1, <2>2, <2>3, <2>5, <2>6, DecisionVerdict
<1>3. CASE ~Insertable(p)
  <2>1. Step(t, "find") /\ UNCHANGED <<contact, verdict>>
    BY <1>1, <1>3 DEF AddPaired, CreateContact
  <2>2. PICK w \in TaskRow : Moves(t, w) /\ w = [desk[t] EXCEPT !.at = "find"]
    BY <2>1, Steps DEF TaskPlaces
  <2>3. w \in TaskRow /\ Moves(t, w) /\ w.at = "find" /\ w.who = p /\ w.row = desk[t].row
    BY <1>0, <1>1, <2>2 DEF TaskRow
  <2>4. \A u \in Tasks \ {t} : Stands(u, "decide", "flip") /\ desk[u].who = p =>
          verdict'[p] = "none" \/ contact'[p].id = desk[u].row.id
    BY <2>1 DEF VerdictInv
  <2> QED BY <1>0, <1>1, <2>1, <2>3, <2>4, DecisionVerdict
<1> QED BY <1>2, <1>3

\* A contact that is matched stays so while the verdict does.
LEMMA FoundVerdict ==
  ASSUME Kept, PlacesInv, VerdictInv, NEW t \in Tasks, FindPaired(t), contact' \in [Senders -> ContactRow]
  PROVE  VerdictInv'
<1>0. desk[t] \in TaskRow /\ Deciding(t) /\ desk[t].who \in Senders /\ contact' = contact
  BY DEF Kept, FindPaired, Stands, Deciding, VerdictInv, contactRows
<1>1. PICK p \in Senders : p = desk[t].who
  BY <1>0
<1>2. \A u \in Tasks : Stands(u, "decide", "flip") /\ desk[u].who = p =>
        verdict[p] = "none" \/ contact'[p].id = desk[u].row.id
  BY <1>0 DEF VerdictInv
<1>3. CASE p \in Known
  <2>1. desk' = [desk EXCEPT ![t].row.id = contact[p].id, ![t].at = "flip"] /\ verdict' = verdict
    BY <1>1, <1>3 DEF FindPaired
  <2>2. PICK w : w = [desk[t] EXCEPT !.row = [desk[t].row EXCEPT !.id = contact[p].id], !.at = "flip"]
    OBVIOUS
  <2>3. w \in TaskRow /\ w.kind = desk[t].kind /\ w.at = "flip" /\ w.who = p /\ w.row.id = contact[p].id
        /\ w.row.role = desk[t].row.role /\ w.row.reply = desk[t].row.reply
    BY <1>0, <1>1, <1>3, <2>2, KnownRow DEF TaskRow, TaskPlaces, ContactRow
  <2>4. desk' = [desk EXCEPT ![t] = w]
    BY <1>0, <2>1, <2>2 DEF TaskRow, Kept
  <2>5. Moves(t, w)
    BY <2>3, <2>4 DEF Moves
  <2> QED BY <1>0, <1>1, <1>2, <2>1, <2>3, <2>5, DecisionVerdict
<1>4. CASE p \notin Known
  <2>1. Close(t) /\ verdict' = [verdict EXCEPT ![p] = "none"]
    BY <1>1, <1>4 DEF FindPaired
  <2>2. PICK w \in TaskRow : Moves(t, w) /\ w.at = "done"
    BY <2>1, Closes
  <2>3. verdict'[p] = "none" /\ \A q \in Senders \ {p} : verdict'[q] = verdict[q]
    BY <2>1 DEF Kept, ContactsTypeOK
  <2> QED BY <1>0, <1>1, <2>2, <2>3, DecisionVerdict
<1> QED BY <1>3, <1>4

\* The UPDATE carries the verdict out, unless the contact has been replaced, which ended the verdict.
LEMMA FlippedVerdict ==
  ASSUME Kept, PlacesInv, VerdictInv, NEW t \in Tasks, FlipPaired(t), contact' \in [Senders -> ContactRow]
  PROVE  VerdictInv'
<1>0. desk[t] \in TaskRow /\ Deciding(t) /\ Stands(t, "decide", "flip") /\ desk[t].who \in Senders
  BY DEF Kept, FlipPaired, Stands, Deciding, VerdictInv
<1>1. PICK p \in Senders : p = desk[t].who
  BY <1>0
<1>2. PICK w \in TaskRow : Moves(t, w) /\ w.at = "done"
  BY Closes DEF FlipPaired
<1>3. verdict' = verdict /\ \A u \in Tasks : Stands(u, "decide", "flip") /\ desk[u].who = p =>
        verdict[p] = "none" \/ contact[p].id = desk[u].row.id
  BY <1>0 DEF FlipPaired, UpdateContact, WriteContact, VerdictInv
<1>4. CASE contact[p].id = desk[t].row.id
  <2>1. contact' = [contact EXCEPT ![p] = desk[t].row]
    BY <1>1, <1>4 DEF FlipPaired, UpdateContact, WriteContact
  <2>2. contact'[p] = desk[t].row /\ \A q \in Senders \ {p} : contact'[q] = contact[q]
    BY <2>1 DEF Kept, ContactsTypeOK
  <2>3. verdict'[p] = "none" \/ (contact'[p].role = verdict[p] /\ contact'[p].reply = (verdict[p] = "trusted"))
    BY <1>0, <1>1, <1>3, <2>2 DEF VerdictInv
  <2> QED BY <1>0, <1>1, <1>2, <1>3, <1>4, <2>2, <2>3, DecisionVerdict
<1>5. CASE contact[p].id # desk[t].row.id
  <2>1. contact' = contact /\ verdict[p] = "none"
    BY <1>0, <1>1, <1>3, <1>5 DEF FlipPaired, UpdateContact
  <2> QED BY <1>0, <1>1, <1>2, <1>3, <2>1, DecisionVerdict
<1> QED BY <1>4, <1>5

\* Only a decision's own steps change what its verdict asks for.
LEMMA VerdictStep ==
  ASSUME Kept, PlacesInv, VerdictInv, BlockInv, NEW t \in Tasks, Work(t)
  PROVE  VerdictInv'
<1>1. contact' \in [Senders -> ContactRow]
  <2>1. contact' \in [Senders -> [id : 0..lastId', role : ContactRoles \cup {"none"}, reply : BOOLEAN]]
            /\ lastId' \in Nat
    BY RowsStep
  <2>2. 0..lastId' \subseteq Nat
    BY <2>1
  <2> QED BY <2>1, <2>2 DEF ContactRow
<1>2. CASE Decide(t)
  <2>1. CASE Close(t) /\ verdict' = verdict
    <3>1. UNCHANGED <<contact, verdict>> /\ ~Deciding(t)
      BY <1>2, <2>1 DEF Decide, Stands, Deciding
    <3> QED BY <1>1, <2>1, <3>1, CalmClose, VerdictKept
  <2> QED BY <1>2, <2>1, DecideVerdict
<1>3. CASE AddPaired(t)
  BY <1>1, <1>3, AddedVerdict
<1>4. CASE FindPaired(t)
  BY <1>1, <1>4, FoundVerdict
<1>5. CASE FlipPaired(t)
  BY <1>1, <1>5, FlippedVerdict
<1>6. CASE ~(Decide(t) \/ AddPaired(t) \/ FindPaired(t) \/ FlipPaired(t))
  <2>1. Calm(t)
    BY <1>6, CalmWork DEF Work
  <2>2. \A p \in Senders : verdict'[p] = "none" \/ (verdict'[p] = verdict[p] /\ contact'[p] = contact[p])
    BY <1>6, <2>1, Spares DEF Calm
  <2> QED BY <1>1, <2>1, <2>2, VerdictKept
<1> QED BY <1>2, <1>3, <1>4, <1>5, <1>6

\* The channel's switches and the adapter's account keep their shape.
LEMMA SwitchesStep ==
  ASSUME Kept, NEW t \in Tasks, Work(t)
  PROVE  open' \in BOOLEAN /\ settings' \subseteq Flags
         /\ adapter' \in [in : BOOLEAN, self : BOOLEAN, phones : SUBSET Senders]
<1>1. CASE PushPhones(t)
  <2>2. PICK F : F = adapter.phones \cup Phones
    OBVIOUS
  <2>5. F \in SUBSET Senders
    BY <2>2 DEF Phones, Known, Kept, ContactsTypeOK
  <2>1. UNCHANGED <<open, settings>> /\ adapter' \in {adapter, [adapter EXCEPT !.phones = F]}
    BY <1>1, <2>2, <2>5 DEF PushPhones, contactRows
  <2>3. adapter \in [in : BOOLEAN, self : BOOLEAN, phones : SUBSET Senders] /\ open \in BOOLEAN
            /\ settings \subseteq Flags
    BY DEF Kept, ContactsTypeOK
  <2>4. [adapter EXCEPT !.phones = F]
          \in [in : BOOLEAN, self : BOOLEAN, phones : SUBSET Senders]
    BY <2>2, <2>5, <2>3
  <2> QED BY <2>1, <2>3, <2>4
<1>2. CASE LoginStart(t)
  <2>1. PICK F : F = adapter.phones \cup Phones
    OBVIOUS
  <2>2. F \in SUBSET Senders
    BY <2>1 DEF Phones, Known, Kept, ContactsTypeOK
  <2>3. adapter \in [in : BOOLEAN, self : BOOLEAN, phones : SUBSET Senders] /\ open \in BOOLEAN
            /\ settings \subseteq Flags
    BY DEF Kept, ContactsTypeOK
  <2>4. UNCHANGED <<open, settings>>
    BY <1>2 DEF LoginStart, contactRows
  <2>5. CASE adapter.in
    <3>1. adapter' \in {adapter, [in |-> TRUE, phones |-> F, self |-> adapter.self]}
      BY <1>2, <2>1, <2>5 DEF LoginStart
    <3>2. [in |-> TRUE, phones |-> F, self |-> adapter.self]
              \in [in : BOOLEAN, self : BOOLEAN, phones : SUBSET Senders]
      BY <2>2, <2>3
    <3> QED BY <2>3, <2>4, <3>1, <3>2
  <2>6. CASE ~adapter.in
    <3>1. adapter' \in {adapter, [in |-> TRUE, phones |-> F, self |-> "self" \in desk[t].flags]}
      BY <1>2, <2>1, <2>6 DEF LoginStart
    <3>2. ("self" \in desk[t].flags) \in BOOLEAN
      OBVIOUS
    <3>3. [in |-> TRUE, phones |-> F, self |-> "self" \in desk[t].flags]
            \in [in : BOOLEAN, self : BOOLEAN, phones : SUBSET Senders]
      BY <2>2, <3>2
    <3> QED BY <2>3, <2>4, <3>1, <3>3
  <2> QED BY <2>5, <2>6
<1>3. CASE SyncAdapterConfig(t)
  <2>6. ("self" \in desk[t].flags) \in BOOLEAN
    OBVIOUS
  <2>1. UNCHANGED <<open, settings>> /\ adapter' \in {adapter, [adapter EXCEPT !.self = "self" \in desk[t].flags]}
    BY <1>3, <2>6 DEF SyncAdapterConfig, contactRows
  <2>3. adapter \in [in : BOOLEAN, self : BOOLEAN, phones : SUBSET Senders] /\ open \in BOOLEAN
            /\ settings \subseteq Flags
    BY DEF Kept, ContactsTypeOK
  <2>4. [adapter EXCEPT !.self = "self" \in desk[t].flags]
          \in [in : BOOLEAN, self : BOOLEAN, phones : SUBSET Senders]
    BY <2>6, <2>3
  <2> QED BY <2>1, <2>3, <2>4
<1>4. CASE AdapterLogout(t)
  <2>1. UNCHANGED <<open, settings>> /\ adapter' \in {adapter, [adapter EXCEPT !.in = FALSE]}
    BY <1>4 DEF AdapterLogout, contactRows
  <2>3. adapter \in [in : BOOLEAN, self : BOOLEAN, phones : SUBSET Senders] /\ open \in BOOLEAN
            /\ settings \subseteq Flags
    BY DEF Kept, ContactsTypeOK
  <2>4. [adapter EXCEPT !.in = FALSE]
          \in [in : BOOLEAN, self : BOOLEAN, phones : SUBSET Senders]
    BY <2>3
  <2> QED BY <2>1, <2>3, <2>4
<1>5. CASE UpdateChannel(t)
  <2>1. open' = open /\ adapter' = adapter /\ settings' \in {settings, desk[t].flags}
    BY <1>5 DEF UpdateChannel
  <2> QED BY <2>1 DEF Kept, ContactsTypeOK, TaskRow
<1>6. CASE DeleteChannel(t)
  <2>1. open' = FALSE /\ adapter' = adapter /\ settings' = {}
    BY <1>6 DEF DeleteChannel
  <2> QED BY <2>1 DEF Kept, ContactsTypeOK
<1>7. CASE \/ AutoApproveBotSender(t) \/ RequestPairing(t) \/ Decide(t) \/ AddPaired(t) \/ FlipPaired(t)
          \/ SaveContact(t) \/ AddFromChat(t) \/ AddContact(t) \/ RemoveContact(t) \/ ImportContact(t)
          \/ CreateEscalation(t) \/ Resolve(t) \/ RecordSend(t) \/ PostSend(t)
  <2>1. UNCHANGED <<open, settings, adapter>>
    BY <1>7 DEF AutoApproveBotSender, RequestPairing, Decide, AddPaired, FlipPaired, SaveContact,
       AddFromChat, AddContact, RemoveContact, ImportContact, CreateEscalation, Resolve, RecordSend, PostSend
  <2> QED BY <2>1 DEF Kept, ContactsTypeOK
<1>8. CASE \/ StrangerWrites(t) \/ FindPaired(t) \/ EditContact(t) \/ ToggleContact(t) \/ FetchContacts(t)
          \/ ReadSettings(t) \/ AdapterLoginStart(t) \/ ListOwnerContacts(t) \/ NextOwner(t)
          \/ OwnerAnswers(t) \/ BeginSend(t) \/ ResolveContact(t) \/ ResolveAddress(t)
  <2>1. UNCHANGED <<open, settings, adapter>>
    BY <1>8 DEF StrangerWrites, FindPaired, EditContact, ToggleContact, FetchContacts, ReadSettings,
       AdapterLoginStart, ListOwnerContacts, NextOwner, OwnerAnswers, BeginSend, ResolveContact,
       ResolveAddress, contactRows
  <2> QED BY <2>1 DEF Kept, ContactsTypeOK
<1> QED BY <1>1, <1>2, <1>3, <1>4, <1>5, <1>6, <1>7, <1>8 DEF Work

\* No other step touches a pairing request, an escalation or a message.
LEMMA FilesStill ==
  ASSUME NEW t \in Tasks,
         \/ StrangerWrites(t) \/ AutoApproveBotSender(t) \/ AddPaired(t) \/ FindPaired(t) \/ FlipPaired(t)
         \/ EditContact(t) \/ ToggleContact(t) \/ SaveContact(t) \/ AddFromChat(t) \/ AddContact(t)
         \/ RemoveContact(t) \/ FetchContacts(t) \/ ImportContact(t) \/ ReadSettings(t) \/ UpdateChannel(t)
         \/ PushPhones(t) \/ AdapterLoginStart(t) \/ LoginStart(t) \/ SyncAdapterConfig(t)
         \/ AdapterLogout(t) \/ ListOwnerContacts(t) \/ NextOwner(t) \/ OwnerAnswers(t) \/ BeginSend(t)
         \/ ResolveContact(t) \/ ResolveAddress(t)
  PROVE  UNCHANGED <<pairings, escalation, outbox>>
BY DEF contactRows, StrangerWrites, AutoApproveBotSender, AddPaired, FindPaired, FlipPaired, EditContact,
   ToggleContact, SaveContact, AddFromChat, AddContact, RemoveContact, FetchContacts, ImportContact,
   ReadSettings, UpdateChannel, PushPhones, AdapterLoginStart, LoginStart, SyncAdapterConfig, AdapterLogout,
   ListOwnerContacts, NextOwner, OwnerAnswers, BeginSend, ResolveContact, ResolveAddress

\* Pairing requests, escalations and messages keep their shape; a sender has one request per status.
LEMMA FiledStep ==
  ASSUME Kept, PlacesInv, NEW t \in Tasks, Work(t)
  PROVE  Filed' /\ \A r, o \in pairings' : r.of = o.of /\ r.status = o.status => r = o
<1>0. desk[t] \in TaskRow
  BY DEF Kept
<1>1. CASE RequestPairing(t)
  <2>1. UNCHANGED <<escalation, outbox>> /\ desk[t].who \in Senders
    BY <1>1 DEF RequestPairing, Stands, PlacesInv, Writer
  <2>2. CASE UNCHANGED pairings
    BY <2>1, <2>2 DEF Kept, ContactsTypeOK, Filed
  <2>3. CASE ~UNCHANGED pairings
    <3>1. PICK n \in Nat : n = lastId + 1
      BY DEF Kept
    <3>2. PICK new : new = [id |-> n, of |-> desk[t].who, status |-> "pending"]
      OBVIOUS
    <3>3. pairings' = pairings \cup {new} /\ ~\E r \in pairings : r.of = desk[t].who /\ r.status = "pending"
      BY <1>1, <2>3, <3>1, <3>2 DEF RequestPairing
    <3>4. new \in [id : Nat, of : Senders, status : {"pending"} \cup Decisions]
          /\ new.of = desk[t].who /\ new.status = "pending"
      BY <2>1, <3>2
    <3>5. \A r, o \in pairings' : r.of = o.of /\ r.status = o.status => r = o
      BY <3>3, <3>4 DEF Kept, ContactsTypeOK
    <3> QED BY <2>1, <3>3, <3>4, <3>5 DEF Kept, Filed
  <2> QED BY <2>2, <2>3
<1>2. CASE Decide(t)
  <2>1. UNCHANGED <<escalation, outbox>>
    BY <1>2 DEF Decide
  <2>2. CASE UNCHANGED pairings
    BY <2>1, <2>2 DEF Kept, ContactsTypeOK, Filed
  <2>3. CASE ~UNCHANGED pairings
    <3>1. PICK r \in pairings, s \in Decisions :
               /\ ~\E o \in pairings \ {r} : o.of = r.of /\ o.status = s
               /\ pairings' = (pairings \ {r}) \cup {[r EXCEPT !.status = s]}
      BY <1>2, <2>3 DEF Decide
    <3>2. PICK new : new = [r EXCEPT !.status = s]
      OBVIOUS
    <3>3. new \in [id : Nat, of : Senders, status : {"pending"} \cup Decisions] /\ new.of = r.of /\ new.status = s
      BY <3>1, <3>2 DEF Kept, Filed
    <3>4. pairings' = (pairings \ {r}) \cup {new}
      BY <3>1, <3>2
    <3>5. \A x, o \in pairings' : x.of = o.of /\ x.status = o.status => x = o
      BY <3>1, <3>3, <3>4 DEF Kept, ContactsTypeOK
    <3> QED BY <2>1, <3>3, <3>4, <3>5 DEF Kept, Filed
  <2> QED BY <2>2, <2>3
<1>3. CASE CreateEscalation(t)
  <2>1. UNCHANGED <<pairings, outbox>> /\ escalation' = [escalation EXCEPT ![t].status = "pending"]
    BY <1>3 DEF CreateEscalation
  <2>2. escalation' \in [Tasks \cup {0} -> [status : {"none", "pending"} \cup Decisions, told : SUBSET Decisions]]
    BY <2>1 DEF Kept, Filed
  <2> QED BY <2>1, <2>2 DEF Kept, Filed, ContactsTypeOK
<1>4. CASE Resolve(t)
  <2>1. UNCHANGED <<pairings, outbox>>
    BY <1>4 DEF Resolve
  <2>2. PICK e \in DOMAIN escalation, s \in Decisions : ResolveEscalation(t, e, s)
    BY <1>4 DEF Resolve
  <2>3. escalation' = escalation \/ escalation' = [escalation EXCEPT ![e].status = s, ![e].told = @ \cup {s}]
    BY <2>2 DEF ResolveEscalation
  <2>4. escalation' \in [Tasks \cup {0} -> [status : {"none", "pending"} \cup Decisions, told : SUBSET Decisions]]
    <3>1. CASE escalation' = escalation
      BY <3>1 DEF Kept, Filed
    <3>2. CASE escalation' = [escalation EXCEPT ![e].status = s, ![e].told = @ \cup {s}]
      <4>1. PICK w : w = [escalation[e] EXCEPT !.status = s, !.told = @ \cup {s}]
        OBVIOUS
      <4>2. w \in [status : {"none", "pending"} \cup Decisions, told : SUBSET Decisions]
        BY <4>1 DEF Kept, Filed
      <4>3. escalation' = [escalation EXCEPT ![e] = w]
        BY <3>2, <4>1 DEF Kept, Filed
      <4> QED BY <4>2, <4>3 DEF Kept, Filed
    <3> QED BY <2>3, <3>1, <3>2
  <2> QED BY <2>1, <2>4 DEF Kept, Filed, ContactsTypeOK
<1>5. CASE RecordSend(t)
  <2>1. UNCHANGED <<pairings, escalation>>
    BY <1>5 DEF RecordSend
  <2>2. PICK m : m = [by |-> t, to |-> desk[t].who, source |-> desk[t].kind,
                      status |-> "pending", barred |-> desk[t].who \in barred[t]]
    OBVIOUS
  <2>3. outbox' \subseteq outbox \cup {m}
    BY <1>5, <2>2 DEF RecordSend
  <2>4. m \in [by : Tasks, to : Senders \cup {"none"}, source : Errands,
               status : {"pending", "sent", "failed"}, barred : BOOLEAN]
    BY <1>0, <2>2 DEF TaskRow
  <2> QED BY <2>1, <2>3, <2>4 DEF Kept, Filed, ContactsTypeOK
<1>6. CASE PostSend(t)
  <2>1. UNCHANGED <<pairings, escalation>>
    BY <1>6 DEF PostSend
  <2>2. PICK s \in {"sent", "failed"} :
             outbox' = {IF m.by = t /\ m.to = desk[t].who THEN [m EXCEPT !.status = s] ELSE m : m \in outbox}
    BY <1>6 DEF PostSend
  <2>3. ASSUME NEW m \in outbox
        PROVE  [m EXCEPT !.status = s] \in [by : Tasks, to : Senders \cup {"none"}, source : Errands,
                                            status : {"pending", "sent", "failed"}, barred : BOOLEAN]
    BY <2>2 DEF Kept, Filed
  <2>4. outbox' \subseteq [by : Tasks, to : Senders \cup {"none"}, source : Errands,
                           status : {"pending", "sent", "failed"}, barred : BOOLEAN]
    BY <2>2, <2>3 DEF Kept, Filed
  <2> QED BY <2>1, <2>4 DEF Kept, Filed, ContactsTypeOK
<1>7. CASE DeleteChannel(t)
  <2>1. pairings' = {} /\ outbox' = {} /\ escalation' = [e \in DOMAIN escalation |-> [status |-> "none", told |-> {}]]
    BY <1>7 DEF DeleteChannel
  <2> QED BY <2>1 DEF Kept, Filed
<1>8. CASE UNCHANGED <<pairings, escalation, outbox>>
  BY <1>8 DEF Kept, Filed, ContactsTypeOK
<1> QED BY <1>1, <1>2, <1>3, <1>4, <1>5, <1>6, <1>7, <1>8, FilesStill DEF Work

\* Only a pending escalation is decided, and nobody has been told of it before.
LEMMA EscalationStep ==
  ASSUME Kept, PlacesInv, BlockInv, EscalationInv, NEW t \in Tasks, Work(t)
  PROVE  EscalationInv'
<1>0. /\ escalation \in [Tasks \cup {0} -> [status : {"none", "pending"} \cup Decisions, told : SUBSET Decisions]]
      /\ \A u \in Tasks : Stands(u, "ask", "idle")' => Stands(u, "ask", "idle") /\ u # t
  BY DeskStep DEF Kept, Filed
<1>1. CASE UNCHANGED escalation
  BY <1>0, <1>1 DEF EscalationInv
<1>2. CASE CreateEscalation(t)
  <2>1. Stands(t, "ask", "idle") /\ escalation' = [escalation EXCEPT ![t].status = "pending"]
    BY <1>2 DEF CreateEscalation
  <2>2. /\ \A e \in Tasks \cup {0} : e # t => escalation'[e] = escalation[e]
        /\ escalation'[t].status = "pending" /\ escalation'[t].told = escalation[t].told
    BY <1>0, <2>1
  <2>3. escalation[t].told = {}
    <3>1. escalation[t].told \subseteq {"none"} /\ escalation[t].told \subseteq Decisions /\ "none" \notin Decisions
      BY <1>0, <2>1 DEF EscalationInv, Decisions
    <3> QED BY <3>1
  <2> QED BY <1>0, <2>2, <2>3 DEF EscalationInv
<1>3. CASE Resolve(t) /\ ~UNCHANGED escalation
  <2>1. PICK e \in DOMAIN escalation, s \in Decisions :
             /\ escalation[e].status = "pending"
             /\ escalation' = [escalation EXCEPT ![e].status = s, ![e].told = @ \cup {s}]
    BY <1>3 DEF Resolve, ResolveEscalation
  <2>2. e \in Tasks \cup {0}
    BY <1>0, <2>1
  <2>3. /\ \A d \in Tasks \cup {0} : d # e => escalation'[d] = escalation[d]
        /\ escalation'[e].status = s /\ escalation'[e].told = escalation[e].told \cup {s}
    BY <1>0, <2>1, <2>2
  <2>4. escalation[e].told = {}
    <3>1. escalation[e].told \subseteq {"pending"} /\ escalation[e].told \subseteq Decisions
              /\ "pending" \notin Decisions
      BY <1>0, <2>1, <2>2 DEF EscalationInv, Decisions
    <3> QED BY <3>1
  <2> QED BY <1>0, <2>1, <2>2, <2>3, <2>4 DEF EscalationInv
<1>4. CASE DeleteChannel(t)
  <2>1. escalation' = [e \in DOMAIN escalation |-> [status |-> "none", told |-> {}]]
    BY <1>4 DEF DeleteChannel
  <2> QED BY <1>0, <2>1 DEF EscalationInv
<1>5. CASE RequestPairing(t) \/ Decide(t) \/ RecordSend(t) \/ PostSend(t)
  <2>1. UNCHANGED escalation
    BY <1>5 DEF RequestPairing, Decide, RecordSend, PostSend
  <2> QED BY <1>1, <2>1
<1> QED BY <1>1, <1>2, <1>3, <1>4, <1>5, FilesStill DEF Work

\* A block or an unblock moves `barred` along with the contacts, and a recipient is checked when picked.
LEMMA BlockStep ==
  ASSUME Kept, PlacesInv, VerdictInv, BlockInv, NEW t \in Tasks, Work(t)
  PROVE  BlockInv'
<1>1. Blocked' \subseteq Known' /\ \A u \in Tasks : barred'[u] \subseteq Blocked' /\ (u # t
          => barred'[u] \subseteq barred[u])
  BY RowsStep
<1>2. \A u \in Tasks : Stands(u, "send", "record")' => desk'[u].who \notin barred'[u]
  BY <1>1, DeskStep
<1>3. BlockedNotMessaged'
  <2>1. CASE UNCHANGED outbox
    BY <2>1 DEF BlockInv, BlockedNotMessaged
  <2>2. CASE RecordSend(t)
    <3>1. PICK m : m = [by |-> t, to |-> desk[t].who, source |-> desk[t].kind,
                        status |-> "pending", barred |-> desk[t].who \in barred[t]]
      OBVIOUS
    <3>2. outbox' \subseteq outbox \cup {m} /\ desk[t].at = "record"
      BY <2>2, <3>1 DEF RecordSend
    <3>3. m.source = desk[t].kind /\ m.barred = (desk[t].who \in barred[t])
      BY <3>1
    <3> QED BY <3>2, <3>3 DEF BlockInv, BlockedNotMessaged, Stands
  <2>3. CASE PostSend(t)
    <3>1. PICK s \in {"sent", "failed"} :
               outbox' = {IF m.by = t /\ m.to = desk[t].who THEN [m EXCEPT !.status = s] ELSE m : m \in outbox}
      BY <2>3 DEF PostSend
    <3>2. ASSUME NEW m \in outbox
          PROVE  [m EXCEPT !.status = s].source = m.source /\ [m EXCEPT !.status = s].barred = m.barred
      BY DEF Kept, Filed
    <3>3. \A n \in outbox' : \E m \in outbox : n.source = m.source /\ n.barred = m.barred
      BY <3>1, <3>2
    <3>4. BlockedNotMessaged
      BY DEF BlockInv
    <3> QED BY <3>3, <3>4 DEF BlockedNotMessaged
  <2>4. CASE DeleteChannel(t)
    BY <2>4 DEF DeleteChannel, BlockedNotMessaged
  <2>5. CASE RequestPairing(t) \/ Decide(t) \/ CreateEscalation(t) \/ Resolve(t)
    <3>1. UNCHANGED outbox
      BY <2>5 DEF RequestPairing, Decide, CreateEscalation, Resolve
    <3> QED BY <2>1, <3>1
  <2> QED BY <2>1, <2>2, <2>3, <2>4, <2>5, FilesStill DEF Work
<1> QED BY <1>1, <1>2, <1>3 DEF BlockInv

\* Every step of a task keeps the invariant.
LEMMA WorkStep ==
  ASSUME ContactsInv, NEW t \in Tasks, Work(t)
  PROVE  ContactsInv'
<1> USE DEF ContactsInv
<1>1. Kept'
  <2>1. lastId' \in Nat /\ desk' \in [Tasks -> TaskRow]
    BY RowsStep, DeskStep
  <2>2. Filed' /\ \A r, o \in pairings' : r.of = o.of /\ r.status = o.status => r = o
    BY FiledStep
  <2>3. open' \in BOOLEAN /\ settings' \subseteq Flags
        /\ adapter' \in [in : BOOLEAN, self : BOOLEAN, phones : SUBSET Senders]
    BY SwitchesStep
  <2>4. /\ contact' \in [Senders -> [id : 0..lastId', role : ContactRoles \cup {"none"}, reply : BOOLEAN]]
        /\ barred' \in [Tasks -> SUBSET Senders] /\ verdict' \in [Senders -> {"none", "trusted", "blocked"}]
    BY RowsStep
  <2> QED BY <2>1, <2>2, <2>3, <2>4 DEF Kept, ContactsTypeOK
<1>2. PlacesInv'
  BY DeskStep
<1> QED BY <1>1, <1>2, VerdictStep, EscalationStep, BlockStep

\* A restart or a failed statement leaves a task's work where it is; what it had decided is contested.
LEMMA SlipStep ==
  ASSUME ContactsInv, ContactsSlip
  PROVE  ContactsInv'
<1> USE DEF ContactsInv
<1>1. PICK S \in SUBSET {t \in Tasks : desk[t].at \notin {"idle", "done"}} :
           /\ desk' = [t \in Tasks |-> IF t \in S THEN [NewTask(desk[t].kind) EXCEPT !.at = "done"] ELSE desk[t]]
           /\ verdict' = [p \in Senders |-> IF \E t \in S : Deciding(t) /\ desk[t].who = p THEN "none"
                   ELSE verdict[p]]
  BY DEF ContactsSlip
<1>2. UNCHANGED <<contactRows, adapter, barred>>
  BY DEF ContactsSlip
<1>3. ASSUME NEW t \in S PROVE desk'[t] \in TaskRow /\ desk'[t].at = "done"
  <2>1. PICK w : w = [NewTask(desk[t].kind) EXCEPT !.at = "done"]
    OBVIOUS
  <2>2. w \in TaskRow /\ w.at = "done"
    BY <2>1 DEF NewTask, NoContact, TaskRow, TaskPlaces, ContactRow, Kept
  <2>3. desk'[t] = w
    BY <1>1, <2>1
  <2> QED BY <2>2, <2>3
<1>4. \A t \in Tasks : t \notin S => desk'[t] = desk[t]
  BY <1>1
<1>5. desk' \in [Tasks -> TaskRow]
  BY <1>1, <1>3, <1>4 DEF Kept
<1>6. verdict' \in [Senders -> {"none", "trusted", "blocked"}]
  BY <1>1 DEF Kept, ContactsTypeOK
<1>7. Kept' /\ EscalationInv' /\ PlacesInv' /\ BlockInv'
  <2>1. Kept'
    BY <1>2, <1>5, <1>6 DEF Kept, ContactsTypeOK, Filed, contactRows
  <2>2. EscalationInv'
    BY <1>2, <1>3, <1>4 DEF EscalationInv, Stands, contactRows
  <2>3. PlacesInv'
    BY <1>3, <1>4 DEF PlacesInv, Writer
  <2>4. BlockInv'
    BY <1>2, <1>3, <1>4 DEF BlockInv, Blocked, Known, BlockedNotMessaged, Stands, contactRows
  <2> QED BY <2>1, <2>2, <2>3, <2>4
<1>8. VerdictInv'
  <2>1. \A u \in Tasks : Deciding(u)' <=> Deciding(u) /\ u \notin S
    BY <1>3, <1>4 DEF Deciding
  <2>2. \A u \in Tasks : Deciding(u)' => desk'[u] = desk[u] /\ Deciding(u)
    BY <1>4, <2>1
  <2>3. \A p \in Senders : verdict'[p] = "none" \/ (verdict'[p] = verdict[p] /\ ~\E t \in S : Deciding(t)
            /\ desk[t].who = p)
    BY <1>1
  <2>4. \A u \in Tasks : Stands(u, "decide", "flip")' => Stands(u, "decide", "flip") /\ Deciding(u)' /\ Deciding(u)
    BY <1>3, <1>4, <2>1 DEF Stands, Deciding
  <2>5. contact' = contact
    BY <1>2 DEF contactRows
  <2>6. \A u \in Tasks : Deciding(u)' => desk'[u].who \in Senders /\ desk'[u].row.role \in {"trusted", "blocked"}
                                       /\ desk'[u].row.reply = (desk'[u].row.role = "trusted")
    BY <2>2 DEF VerdictInv
  <2>7. \A u \in Tasks : Deciding(u)' /\ verdict'[desk'[u].who] # "none" => desk'[u].row.role = verdict'[desk'[u].who]
    BY <2>2, <2>3, <2>6 DEF VerdictInv
  <2>8. \A u \in Tasks : Stands(u, "decide", "flip")' =>
             verdict'[desk'[u].who] = "none" \/ contact'[desk'[u].who].id = desk'[u].row.id
    BY <2>2, <2>3, <2>4, <2>5, <2>6 DEF VerdictInv
  <2>9. \A p \in Senders : verdict'[p] = "none" \/ (\E u \in Tasks : Deciding(u)' /\ desk'[u].who = p)
                           \/ (contact'[p].role = verdict'[p] /\ contact'[p].reply = (verdict'[p] = "trusted"))
    BY <1>4, <2>1, <2>3, <2>5 DEF VerdictInv
  <2> QED BY <2>6, <2>7, <2>8, <2>9 DEF VerdictInv
<1> QED BY <1>7, <1>8

\* It holds before the first task starts.
LEMMA ContactsInitially ==
  ASSUME ContactsInit
  PROVE  ContactsInv
<1>1. ASSUME NEW p \in Senders
      PROVE  /\ contact[p] \in [id : 0..lastId, role : ContactRoles \cup {"none"}, reply : BOOLEAN]
             /\ contact[p].role = "blocked" => contact[p].id # 0
  <2>1. FirstRoles[p] \in ContactRoles \cup {"none"} /\ lastId = 2
        /\ contact[p] = IF FirstRoles[p] = "none" THEN [id |-> 0, role |-> "none", reply |-> FALSE]
                        ELSE [id |-> 1, role |-> FirstRoles[p], reply |-> FirstRoles[p] # "blocked"]
    BY ContactsAssumption DEF ContactsInit, NoContact
  <2>2. (FirstRoles[p] # "blocked") \in BOOLEAN /\ 0 \in 0..2 /\ 1 \in 0..2
    OBVIOUS
  <2>3. CASE FirstRoles[p] = "none"
    BY <2>1, <2>2, <2>3
  <2>4. CASE FirstRoles[p] # "none"
    <3>1. contact[p] = [id |-> 1, role |-> FirstRoles[p], reply |-> FirstRoles[p] # "blocked"]
      BY <2>1, <2>4
    <3> QED BY <2>1, <2>2, <3>1
  <2> QED BY <2>3, <2>4
<1>2. contact \in [Senders -> [id : 0..lastId, role : ContactRoles \cup {"none"}, reply : BOOLEAN]]
  BY <1>1 DEF ContactsInit
<1>3. PICK kinds \in TaskLoads : desk = [t \in Tasks |-> NewTask(kinds[t])]
  BY DEF ContactsInit
<1>4. ASSUME NEW t \in Tasks PROVE desk[t] \in TaskRow /\ desk[t].at = "idle"
  <2>1. kinds[t] \in Errands /\ desk[t] = NewTask(kinds[t])
    BY <1>3, ContactsAssumption
  <2> QED BY <2>1 DEF NewTask, NoContact, TaskRow, TaskPlaces, ContactRow
<1>5. desk \in [Tasks -> TaskRow]
  BY <1>3, <1>4
<1>6. PICK p \in Senders : pairings \in {{[id |-> 1, of |-> p, status |-> "pending"]},
                             {[id |-> 1, of |-> p, status |-> "pending"],
                                     [id |-> 2, of |-> p, status |-> "approved"]}}
  BY DEF ContactsInit
<1>7. /\ pairings \subseteq [id : Nat, of : Senders, status : {"pending"} \cup Decisions]
      /\ \A r, o \in pairings : r.of = o.of /\ r.status = o.status => r = o
  BY <1>6 DEF Decisions
<1>8. open = TRUE /\ settings \subseteq Flags /\ outbox = {} /\ lastId = 2 /\ barred = [t \in Tasks |-> {}]
      /\ verdict = [q \in Senders |-> "none"]
      /\ escalation = [t \in Tasks \cup {0} |-> [status |-> IF t = 0 THEN "pending" ELSE "none", told |-> {}]]
  BY DEF ContactsInit, Flags
<1>9. adapter \in [in : BOOLEAN, self : BOOLEAN, phones : SUBSET Senders]
  <2>1. adapter = [in |-> "bot" \in settings, self |-> FALSE, phones |-> {}] /\ ("bot" \in settings) \in BOOLEAN
    BY DEF ContactsInit
  <2> QED BY <2>1
<1>10. escalation \in [Tasks \cup {0} -> [status : {"none", "pending"} \cup Decisions, told : SUBSET Decisions]]
  BY <1>8
<1>11. Kept
  BY <1>2, <1>5, <1>7, <1>8, <1>9, <1>10 DEF Kept, Filed, ContactsTypeOK
<1>12. \A t \in Tasks : ~Deciding(t) /\ ~Stands(t, "send", "record") /\ ~Stands(t, "decide", "flip")
          /\ Writer(desk[t])
  BY <1>4 DEF Deciding, Stands, Writer
<1>13. VerdictInv
  BY <1>8, <1>12 DEF VerdictInv
<1>14. EscalationInv
  <2>1. 0 \notin Tasks
    BY ContactsAssumption
  <2> QED BY <1>8, <2>1 DEF EscalationInv
<1>15. BlockInv
  BY <1>1, <1>8, <1>12 DEF BlockInv, BlockedNotMessaged, Blocked, Known
<1> QED BY <1>11, <1>12, <1>13, <1>14, <1>15 DEF ContactsInv, PlacesInv

\* Every variable has its shape, whoever a pairing decision is about has its role unless the decision
\* is under way or contested, an escalation is decided once, and a send that has picked its recipient
\* has picked nobody it must not reach, however pages, owner commands and tools overlap.
THEOREM ContactsInvariant == ContactsSpec => []ContactsInv
<1>1. ContactsInit => ContactsInv
  BY ContactsInitially
<1>2. ContactsInv /\ [ContactsNext]_contactsVars => ContactsInv'
  <2> SUFFICES ASSUME ContactsInv, [ContactsNext]_contactsVars PROVE ContactsInv'
    OBVIOUS
  <2>1. CASE ContactsSlip
    BY <2>1, SlipStep
  <2>2. ASSUME NEW t \in Tasks, Work(t) PROVE ContactsInv'
    BY <2>2, WorkStep
  <2>3. CASE UNCHANGED contactsVars
    <3> USE <2>3 DEF contactsVars, contactRows, contactHist
    <3>1. Kept'
      BY DEF ContactsInv, Kept, Filed, ContactsTypeOK
    <3>2. PlacesInv' /\ VerdictInv'
      BY DEF ContactsInv, PlacesInv, VerdictInv, Deciding, Stands
    <3>3. EscalationInv' /\ BlockInv'
      BY DEF ContactsInv, EscalationInv, BlockInv, Blocked, Known, Stands, BlockedNotMessaged
    <3> QED BY <3>1, <3>2, <3>3 DEF ContactsInv
  <2> QED BY <2>1, <2>2, <2>3 DEF ContactsNext
<1> QED BY <1>1, <1>2, PTL DEF ContactsSpec

\* Every variable keeps its shape, and a sender has one pairing request per status (the unique
\* index of gateway_pairing_requests, which CreatePairing and UpdatePairingStatus run into).
THEOREM ContactsTypeCorrect == ContactsSpec => []ContactsTypeOK
<1>1. ContactsInv => ContactsTypeOK
  BY DEF ContactsInv, Kept
<1> QED BY <1>1, ContactsInvariant, PTL

\* What an owner has decided is what the channel goes by: createContactFromPairing gives the sender
\* the decision's role even where a contact was there by then, and of those who resolve an
\* escalation one alone is told that it did.
THEOREM DecisionsHold == ContactsSpec => []DecisionsStand
<1>1. ContactsInv => DecisionsStand
  BY DEF ContactsInv, Kept, Filed, VerdictInv, EscalationInv, DecisionsStand
<1> QED BY <1>1, ContactsInvariant, PTL

\* An agent's message goes to nobody who has been blocked since before the tool call
\* (resolveRecipient, blockedRecipient), whoever is blocked or unblocked meanwhile, as long as the
\* page of contacts has room for all blocked ones, whatever the number of contacts.
THEOREM BlockedStayOut == ContactsSpec => []BlockedNotMessaged
<1>1. ContactsInv => BlockedNotMessaged
  BY DEF ContactsInv, BlockInv
<1> QED BY <1>1, ContactsInvariant, PTL

(* ---------------- Reminders and scheduled messages: the invariant --------------- *)

RowRecord == [status : {"pending", "failed", "cancelled", "sent", "completed"},
              at : Times, count : 0..(MaxTime + 1), edit : 0..MaxEdits]

\* Dispatcher k is at a step of handling row i.
Handles(k, i, step) == current[k] # Nothing /\ current[k].at = step /\ current[k].id = i
Handled(i, step) == \E k \in Kinds : Handles(k, i, step)

\* A copy of row i: what it was at some time since it was due, and has been sent n times at most.
CopyOf(i, c, n) ==
  /\ c \in RowRecord /\ c.at <= now /\ c.count <= c.at /\ c.edit <= row[i].edit
  /\ sends[Slot(i, c)] <= n

\* The copies of a dispatcher: one of a row at most, of its own kind, none sent yet but the one it
\* is about to record.
Copies(k) ==
  /\ \A i \in DOMAIN batch[k] : i \in RowsOf(k) /\ CopyOf(i, batch[k][i], failures)
  /\ current[k] # Nothing =>
       /\ current[k] \in [at : {"send", "record"}, id : RowsOf(k), copy : RowRecord]
       /\ current[k].id \notin DOMAIN batch[k]
       /\ CopyOf(current[k].id, current[k].copy, IF current[k].at = "send" THEN failures ELSE failures + 1)

\* What is pending, and in nobody's hand, has been sent for failures alone.
Unsent(i) ==
  row[i].status = "pending" /\ ~Handled(i, "send") /\ ~Handled(i, "record")
    => sends[Slot(i, row[i])] <= failures

\* After what was sent a series goes on later, as soon as the send is recorded.
GoesOnLater(i) ==
  /\ lastSent[i] <= now
  /\ i \in Messages /\ failures = 0 /\ row[i].status = "pending" /\ lastSent[i] # 0 /\ ~Handled(i, "record")
       => row[i].at > lastSent[i]

\* A row is stopped for good, and one copy of it is at large at most.
Stopped(i) ==
  /\ late[i].sends <= 1
  /\ late[i].stopped => row[i].status # "pending"
  /\ late[i].stopped => \A k \in Kinds : i \in DOMAIN batch[k] \/ Handles(k, i, "send") => late[i].sends = 0

ScheduleInv ==
  /\ ScheduleTypeOK
  /\ row \in [Rows -> RowRecord]
  /\ batch = [k \in Kinds |-> batch[k]] /\ current = [k \in Kinds |-> current[k]]
  /\ \A i \in Rows : row[i].count <= row[i].at /\ row[i].edit <= edits /\ (i \in Reminders => row[i].count = 0)
  /\ \A s \in Slots : sends[s] > 0 => s[3] <= now /\ s[2] <= row[s[1]].edit
  /\ \A k \in Kinds : Copies(k)
  /\ \A i \in Rows : Unsent(i) /\ GoesOnLater(i) /\ Stopped(i)
  /\ SlotSentOnce

\* The next slot of a series exists, and lies in the future.
LEMMA NextFireLater ==
  ASSUME now \in 0..MaxTime, NEW i \in Messages, Interval[i] > 0, NEW from \in Nat, from <= now
  PROVE  NextFire(i, from) \in Times /\ NextFire(i, from) > now
<1> DEFINE I == Interval[i]
           S == {n \in Nat : from + n * I > now}
<1>0. MaxTime \in Nat /\ MaxInterval \in Nat /\ I \in 1..MaxInterval /\ now \in Nat
  BY RuleAssumption, ScheduleBounds
<1> HIDE DEF I
<1>1. MaxTime + 1 \in S
  <2>1. (MaxTime + 1) * I >= MaxTime + 1
    BY <1>0
  <2> QED BY <1>0, <2>1
<1>2. PICK m \in S : \A y \in S : ~(<<y, m>> \in OpToRel(<, Nat))
  BY <1>1, WFMin, NatLessThanWellFounded
<1>3. \A y \in S : m <= y
  <2> TAKE y \in S
  <2>1. ~(<<y, m>> \in OpToRel(<, Nat))
    BY <1>2
  <2>2. y \in Nat /\ m \in Nat
    OBVIOUS
  <2> QED BY <2>1, <2>2 DEF OpToRel
<1>4. m \in 1..(MaxTime + 1)
  <2>1. m <= MaxTime + 1
    BY <1>1, <1>3
  <2>2. 0 \notin S
    BY <1>0
  <2> QED BY <1>0, <2>1, <2>2
<1>5. from + (m - 1) * I <= now
  <2>1. m - 1 \in Nat /\ ~(m <= m - 1)
    BY <1>4
  <2>2. m - 1 \notin S
    BY <1>3, <2>1
  <2>3. (m - 1) * I \in Nat
    BY <1>0, <2>1
  <2> QED BY <1>0, <2>1, <2>2, <2>3
<1> DEFINE t == from + m * I
<1>6. t \in Nat /\ t > now /\ t - I <= now
  <2>1. m * I = (m - 1) * I + I
    BY <1>0, <1>4
  <2>2. m * I \in Nat /\ (m - 1) * I \in Nat
    BY <1>0, <1>4
  <2> QED BY <1>0, <1>4, <1>5, <2>1, <2>2
<1>7. t \in Times
  BY <1>0, <1>6 DEF Times
<1>8. \E n \in 1..(MaxTime + 1) : t = from + n * I
  BY <1>4
<1> HIDE DEF t
<1> QED BY <1>6, <1>7, <1>8 DEF NextFire, I

\* The slot of a copy is a slot.
LEMMA CopySlot ==
  ASSUME NEW i \in Rows, NEW c \in RowRecord
  PROVE  /\ Slot(i, c) \in Slots
         /\ Slot(i, c)[1] = i /\ Slot(i, c)[2] = c.edit /\ Slot(i, c)[3] = c.at
BY DEF Slot, Slots, RowRecord

\* Nothing is in hand at the start, and nothing has been sent.
LEMMA ScheduleInitially == ScheduleInit => ScheduleInv
<1> SUFFICES ASSUME ScheduleInit PROVE ScheduleInv
  OBVIOUS
<1>0. /\ MaxTime \in Nat /\ MaxInterval \in Nat /\ MaxEdits \in Nat /\ MaxFailures \in Nat
      /\ Due \in [Rows -> 0..MaxTime]
  BY RuleAssumption, ScheduleBounds
<1>1. row \in [Rows -> RowRecord] /\ \A i \in Rows : row[i] = [status |-> "pending", at |-> Due[i], count |-> 0, edit |-> 0]
  BY <1>0 DEF ScheduleInit, RowRecord, Times
<1>2. /\ now = 0 /\ edits = 0 /\ failures = 0 /\ active = TRUE
      /\ sends = [s \in Slots |-> 0] /\ lastSent = [i \in Rows |-> 0] /\ late = [i \in Rows |-> NotStopped]
      /\ \A k \in Kinds : batch[k] = <<>> /\ current[k] = Nothing
      /\ batch = [k \in Kinds |-> batch[k]] /\ current = [k \in Kinds |-> current[k]]
  BY DEF ScheduleInit
<1>3. \A i \in Rows : sends[Slot(i, row[i])] = 0
  BY <1>1, <1>2, CopySlot
<1>4. ScheduleTypeOK
  <2>1. \A i \in Rows : Due[i] \in Times
    BY <1>0 DEF Times
  <2> QED BY <1>0, <1>1, <1>2, <2>1 DEF ScheduleTypeOK, NotStopped
<1>5. \A k \in Kinds : Copies(k)
  BY <1>2 DEF Copies
<1>6. \A i \in Rows : Unsent(i) /\ GoesOnLater(i) /\ Stopped(i)
  BY <1>2, <1>3 DEF Unsent, GoesOnLater, Stopped, NotStopped
<1>7. \A i \in Rows : row[i].count <= row[i].at /\ row[i].edit <= edits /\ row[i].count = 0
  BY <1>0, <1>1, <1>2
<1>8. (\A s \in Slots : sends[s] > 0 => s[3] <= now /\ s[2] <= row[s[1]].edit) /\ SlotSentOnce
  BY <1>2 DEF SlotSentOnce
<1> QED BY <1>1, <1>2, <1>4, <1>5, <1>6, <1>7, <1>8 DEF ScheduleInv

\* What a dispatcher handles is a row of its kind, and a row is of one kind.
LEMMA OneDispatcher ==
  ASSUME ScheduleInv, NEW k \in Kinds, NEW l \in Kinds, NEW i \in Rows,
         i \in DOMAIN batch[k] \/ (current[k] # Nothing /\ current[k].id = i),
         i \in DOMAIN batch[l] \/ (current[l] # Nothing /\ current[l].id = i)
  PROVE  k = l /\ i \in RowsOf(k)
<1>1. i \in RowsOf(k) /\ i \in RowsOf(l)
  BY DEF ScheduleInv, Copies
<1> QED BY <1>1, RuleAssumption DEF Kinds, RowsOf

\* The types of the numbers that the lemmas below compute with.
LEMMA ScheduleNumbers ==
  ASSUME ScheduleInv
  PROVE  /\ MaxTime \in Nat /\ MaxInterval \in Nat /\ MaxEdits \in Nat /\ MaxFailures \in Nat
         /\ now \in 0..MaxTime /\ edits \in 0..MaxEdits /\ failures \in 0..MaxFailures
         /\ sends \in [Slots -> Nat] /\ lastSent \in [Rows -> 0..MaxTime]
         /\ late \in [Rows -> [stopped : BOOLEAN, sends : Nat]]
         /\ row \in [Rows -> RowRecord] /\ active \in BOOLEAN
BY ScheduleBounds DEF ScheduleInv, ScheduleTypeOK

\* Time passes, the channel is switched: nothing becomes less true.
LEMMA CalmStep0 ==
  ASSUME ScheduleInv, Tick \/ SwitchChannel \/ UNCHANGED scheduleVars
  PROVE  ScheduleInv'
<1>0. /\ UNCHANGED <<row, batch, current, failures, sends, lastSent, late>> /\ now' \in Nat /\ now' >= now
      /\ now' \in 0..MaxTime /\ active' \in BOOLEAN /\ edits' \in 0..MaxEdits /\ edits' >= edits
  <2>1. CASE Tick
    BY <2>1, ScheduleNumbers DEF Tick
  <2>2. CASE SwitchChannel
    <3>1. active' \in BOOLEAN /\ UNCHANGED <<now, row, batch, current, failures, sends, lastSent, late>>
      BY <2>2 DEF SwitchChannel
    <3>2. edits' \in 0..MaxEdits /\ edits' >= edits
      BY <2>2, ScheduleNumbers DEF SwitchChannel, Edit
    <3> QED BY <3>1, <3>2, ScheduleNumbers
  <2>3. CASE UNCHANGED scheduleVars
    BY <2>3, ScheduleNumbers DEF scheduleVars
  <2> QED BY <2>1, <2>2, <2>3
<1> USE ScheduleNumbers
<1>1. ScheduleTypeOK'
  BY <1>0 DEF ScheduleInv, ScheduleTypeOK
<1>2. \A i \in Rows : \A c, n : CopyOf(i, c, n) => CopyOf(i, c, n)'
  <2> SUFFICES ASSUME NEW i \in Rows, NEW c, NEW n, CopyOf(i, c, n) PROVE CopyOf(i, c, n)'
    OBVIOUS
  <2>1. c.at \in Nat
    BY DEF CopyOf, RowRecord, Times
  <2> QED BY <1>0, <2>1 DEF CopyOf, Slot
<1>3. \A k \in Kinds : Copies(k)'
  BY <1>0, <1>2 DEF ScheduleInv, Copies, RowsOf, Rows
<1>4. \A i \in Rows : (Unsent(i) /\ GoesOnLater(i) /\ Stopped(i))'
  <2> SUFFICES ASSUME NEW i \in Rows PROVE (Unsent(i) /\ GoesOnLater(i) /\ Stopped(i))'
    OBVIOUS
  <2>1. Unsent(i) /\ GoesOnLater(i) /\ Stopped(i)
    BY DEF ScheduleInv
  <2>2. Unsent(i)' /\ Stopped(i)'
    BY <1>0, <2>1 DEF Unsent, Stopped, Handled, Handles, Slot
  <2>3. GoesOnLater(i)'
    BY <1>0, <2>1 DEF GoesOnLater, Handled, Handles
  <2> QED BY <2>2, <2>3
<1>5. \A s \in Slots : sends'[s] > 0 => s[3] <= now' /\ s[2] <= row'[s[1]].edit
  <2> SUFFICES ASSUME NEW s \in Slots, sends[s] > 0 PROVE s[3] <= now' /\ s[2] <= row[s[1]].edit
    BY <1>0
  <2>1. s[3] <= now /\ s[2] <= row[s[1]].edit /\ s[3] \in Nat
    BY DEF ScheduleInv, Slots, Times
  <2> QED BY <1>0, <2>1
<1>6. \A i \in Rows : row'[i].count <= row'[i].at /\ row'[i].edit <= edits' /\ (i \in Reminders => row'[i].count = 0)
  <2> SUFFICES ASSUME NEW i \in Rows PROVE row[i].count <= row[i].at /\ row[i].edit <= edits' /\ (i \in Reminders => row[i].count = 0)
    BY <1>0
  <2>1. /\ row[i].edit \in Nat /\ row[i].edit <= edits /\ row[i].count <= row[i].at
        /\ (i \in Reminders => row[i].count = 0)
    BY DEF ScheduleInv, RowRecord
  <2> QED BY <1>0, <2>1
<1> QED
  <2>1. SlotSentOnce'
    BY <1>0 DEF ScheduleInv, SlotSentOnce
  <2>2. row' \in [Rows -> RowRecord] /\ batch' = [k \in Kinds |-> batch'[k]] /\ current' = [k \in Kinds |-> current'[k]]
    BY <1>0 DEF ScheduleInv
  <2> QED BY <1>1, <1>3, <1>4, <1>5, <1>6, <2>1, <2>2 DEF ScheduleInv

\* FetchDueReminders, FetchDueScheduledMessages: the copies are of rows that are pending, and in
\* nobody's hand.
LEMMA FetchStep ==
  ASSUME ScheduleInv, NEW k \in Kinds, Fetch(k)
  PROVE  ScheduleInv'
<1> USE ScheduleNumbers
<1>0. /\ UNCHANGED <<now, row, active, current, edits, failures, sends, lastSent, late>>
      /\ batch[k] = <<>> /\ current[k] = Nothing
  BY DEF Fetch
<1> DEFINE due == {i \in RowsOf(k) : Selected(i)}
<1>1. \A l \in Kinds : batch'[l] = IF l = k THEN [i \in due |-> row[i]] ELSE batch[l]
  BY DEF Fetch, ScheduleInv
<1>2. due \subseteq Rows /\ \A i \in due : row[i].status = "pending" /\ row[i].at <= now
  BY DEF Selected, IsDue, RowsOf, Rows
<1>3. \A i \in due : ~Handled(i, "send") /\ ~Handled(i, "record")
  <2> SUFFICES ASSUME NEW i \in due, NEW l \in Kinds, current[l] # Nothing, current[l].id = i
               PROVE  FALSE
    BY DEF Handled, Handles
  <2>1. i \in RowsOf(l) /\ i \in RowsOf(k)
    BY DEF ScheduleInv, Copies
  <2>2. k = l
    BY <2>1, RuleAssumption DEF Kinds, RowsOf
  <2> QED BY <1>0, <2>2
<1> HIDE DEF due
<1>4. \A i \in due : CopyOf(i, row[i], failures)
  <2> SUFFICES ASSUME NEW i \in due PROVE CopyOf(i, row[i], failures)
    OBVIOUS
  <2>1. Unsent(i) /\ row[i] \in RowRecord /\ row[i].count <= row[i].at
    BY <1>2 DEF ScheduleInv
  <2>2. sends[Slot(i, row[i])] <= failures
    BY <1>2, <1>3, <2>1 DEF Unsent
  <2> QED BY <1>2, <2>1, <2>2 DEF CopyOf, RowRecord
<1>5. \A i, c, n : CopyOf(i, c, n)' = CopyOf(i, c, n)
  BY <1>0 DEF CopyOf, Slot
<1>6. \A l \in Kinds : Copies(l)'
  <2> SUFFICES ASSUME NEW l \in Kinds PROVE Copies(l)'
    OBVIOUS
  <2>1. CASE l = k
    <3>1. \A i \in DOMAIN batch'[k] : i \in RowsOf(k) /\ CopyOf(i, batch'[k][i], failures)
      BY <1>1, <1>4 DEF due
    <3> QED BY <1>0, <1>5, <2>1, <3>1 DEF Copies
  <2>2. CASE l # k
    BY <1>0, <1>1, <1>5, <2>2 DEF ScheduleInv, Copies
  <2> QED BY <2>1, <2>2
<1>7. \A i \in Rows : (Unsent(i) /\ GoesOnLater(i) /\ Stopped(i))'
  <2> SUFFICES ASSUME NEW i \in Rows PROVE (Unsent(i) /\ GoesOnLater(i) /\ Stopped(i))'
    OBVIOUS
  <2>1. Unsent(i) /\ GoesOnLater(i) /\ Stopped(i)
    BY DEF ScheduleInv
  <2>2. \A step : Handled(i, step)' = Handled(i, step)
    BY <1>0 DEF Handled, Handles
  <2>3. Stopped(i)'
    <3> SUFFICES ASSUME late[i].stopped, NEW l \in Kinds, i \in DOMAIN batch'[l] \/ Handles(l, i, "send")'
                 PROVE  late[i].sends = 0
      BY <1>0, <2>1 DEF Stopped
    <3>1. i \notin due
      BY <1>2, <2>1 DEF Stopped
    <3>2. i \in DOMAIN batch[l] \/ Handles(l, i, "send")
      BY <1>0, <1>1, <3>1 DEF Handles
    <3> QED BY <2>1, <3>2 DEF Stopped
  <2> QED BY <1>0, <2>1, <2>2, <2>3 DEF Unsent, GoesOnLater, Slot
<1> QED
  <2>1. ScheduleTypeOK' /\ SlotSentOnce' /\ row' \in [Rows -> RowRecord]
    BY <1>0 DEF ScheduleInv, ScheduleTypeOK, SlotSentOnce
  <2>2. batch' = [l \in Kinds |-> batch'[l]] /\ current' = [l \in Kinds |-> current'[l]]
    BY <1>0 DEF ScheduleInv, Fetch
  <2>3. /\ \A i \in Rows : row'[i].count <= row'[i].at /\ row'[i].edit <= edits'
                           /\ (i \in Reminders => row'[i].count = 0)
        /\ \A s \in Slots : sends'[s] > 0 => s[3] <= now' /\ s[2] <= row'[s[1]].edit
    BY <1>0 DEF ScheduleInv
  <2> QED BY <1>6, <1>7, <2>1, <2>2, <2>3 DEF ScheduleInv

\* A dispatcher takes the first copy in hand, or drops it.
LEMMA TakeStep ==
  ASSUME ScheduleInv, NEW k \in Kinds, Take(k)
  PROVE  ScheduleInv'
<1> USE ScheduleNumbers
<1>0. /\ UNCHANGED <<now, row, active, edits, failures, sends, lastSent, late>>
      /\ current[k] = Nothing
  BY DEF Take
<1>1. PICK i \in DOMAIN batch[k] :
        /\ batch' = [batch EXCEPT ![k] = LET rest == DOMAIN batch[k] \ {i} IN
                       IF rest = {} THEN <<>> ELSE Restrict(batch[k], rest)]
        /\ current' = IF active THEN [current EXCEPT ![k] = [at |-> "send", id |-> i, copy |-> batch[k][i]]]
                      ELSE current
  BY DEF Take
<1>2. /\ DOMAIN batch'[k] = DOMAIN batch[k] \ {i}
      /\ \A j \in DOMAIN batch'[k] : batch'[k][j] = batch[k][j]
      /\ \A l \in Kinds \ {k} : batch'[l] = batch[l] /\ current'[l] = current[l]
      /\ current'[k] \in {Nothing, [at |-> "send", id |-> i, copy |-> batch[k][i]]}
  BY <1>0, <1>1 DEF Restrict, ScheduleInv
<1>3. /\ i \in RowsOf(k) /\ i \in Rows /\ CopyOf(i, batch[k][i], failures)
      /\ \A j \in DOMAIN batch[k] : j \in RowsOf(k) /\ CopyOf(j, batch[k][j], failures)
  BY DEF ScheduleInv, Copies, RowsOf, Rows
<1>4. \A j, c, n : CopyOf(j, c, n)' = CopyOf(j, c, n)
  BY <1>0 DEF CopyOf, Slot
<1>5. [at |-> "send", id |-> i, copy |-> batch[k][i]] # Nothing
  <2>1. DOMAIN [at |-> "send", id |-> i, copy |-> batch[k][i]] = {"at", "id", "copy"} /\ DOMAIN Nothing = {"at"}
    BY DEF Nothing
  <2>2. "id" \in {"at", "id", "copy"} /\ "id" \notin {"at"}
    OBVIOUS
  <2> QED BY <2>1, <2>2
<1>6. \A l \in Kinds : Copies(l)'
  <2> SUFFICES ASSUME NEW l \in Kinds PROVE Copies(l)'
    OBVIOUS
  <2>1. CASE l = k
    <3>1. \A j \in DOMAIN batch'[k] : j \in RowsOf(k) /\ CopyOf(j, batch'[k][j], failures)
      BY <1>2, <1>3
    <3>2. ASSUME current'[k] # Nothing
          PROVE  /\ current'[k] \in [at : {"send", "record"}, id : RowsOf(k), copy : RowRecord]
                 /\ current'[k].id \notin DOMAIN batch'[k] /\ current'[k].at = "send"
                 /\ CopyOf(current'[k].id, current'[k].copy, failures)
      <4>1. batch[k][i] \in RowRecord
        BY <1>3 DEF CopyOf
      <4>2. current'[k] = [at |-> "send", id |-> i, copy |-> batch[k][i]]
        BY <1>2, <3>2
      <4> QED BY <1>2, <1>3, <4>1, <4>2
    <3> QED BY <1>0, <1>4, <2>1, <3>1, <3>2 DEF Copies
  <2>2. CASE l # k
    BY <1>0, <1>2, <1>4, <2>2 DEF ScheduleInv, Copies
  <2> QED BY <2>1, <2>2
<1>7. \A j \in Rows : (Unsent(j) /\ GoesOnLater(j) /\ Stopped(j))'
  <2> SUFFICES ASSUME NEW j \in Rows PROVE (Unsent(j) /\ GoesOnLater(j) /\ Stopped(j))'
    OBVIOUS
  <2>1. Unsent(j) /\ GoesOnLater(j) /\ Stopped(j)
    BY DEF ScheduleInv
  <2>2. (Handled(j, "send") => Handled(j, "send")') /\ (Handled(j, "record")' <=> Handled(j, "record"))
    BY <1>0, <1>2 DEF Handled, Handles
  <2>3. Stopped(j)'
    <3> SUFFICES ASSUME late[j].stopped, NEW l \in Kinds, j \in DOMAIN batch'[l] \/ Handles(l, j, "send")'
                 PROVE  late[j].sends = 0
      BY <1>0, <2>1 DEF Stopped
    <3>1. j \in DOMAIN batch[l] \/ Handles(l, j, "send")
      BY <1>2 DEF Handles
    <3> QED BY <2>1, <3>1 DEF Stopped
  <2>4. Unsent(j)'
    BY <1>0, <2>1, <2>2 DEF Unsent, Slot
  <2>5. GoesOnLater(j)'
    BY <1>0, <2>1, <2>2 DEF GoesOnLater
  <2> QED BY <2>3, <2>4, <2>5
<1> QED
  <2>1. ScheduleTypeOK' /\ SlotSentOnce' /\ row' \in [Rows -> RowRecord]
    BY <1>0 DEF ScheduleInv, ScheduleTypeOK, SlotSentOnce
  <2>2. batch' = [l \in Kinds |-> batch'[l]] /\ current' = [l \in Kinds |-> current'[l]]
    BY <1>0, <1>1 DEF ScheduleInv
  <2>3. /\ \A j \in Rows : row'[j].count <= row'[j].at /\ row'[j].edit <= edits'
                           /\ (j \in Reminders => row'[j].count = 0)
        /\ \A s \in Slots : sends'[s] > 0 => s[3] <= now' /\ s[2] <= row'[s[1]].edit
    BY <1>0 DEF ScheduleInv
  <2> QED BY <1>6, <1>7, <2>1, <2>2, <2>3 DEF ScheduleInv

\* A copy stays one as long as its row has not been sent, whatever the row becomes.
LEMMA CopyStays ==
  ASSUME ScheduleInv, NEW i \in Rows, NEW c, NEW n \in Nat, NEW m \in Nat, n <= m, CopyOf(i, c, n),
         now' = now, sends'[Slot(i, c)] = sends[Slot(i, c)],
         row'[i].edit \in Nat, row'[i].edit >= row[i].edit
  PROVE  CopyOf(i, c, m)'
<1>1. c.edit \in Nat /\ row[i].edit \in Nat /\ sends[Slot(i, c)] \in Nat
  BY ScheduleNumbers, CopySlot DEF CopyOf, RowRecord
<1> QED BY <1>1 DEF CopyOf, Slot, RowRecord, Times

\* A row is written, and with it its dispatcher may let go of it: what this takes to keep the
\* invariant.
LEMMA RowWrite ==
  ASSUME ScheduleInv, NEW i \in Rows, NEW r \in RowRecord,
         row' = [row EXCEPT ![i] = r],
         r.status \in {"pending", "failed", "cancelled"} \cup (IF i \in Messages THEN {"sent"} ELSE {"completed"}),
         r.edit >= row[i].edit, r.edit <= edits', r.count <= r.at, i \in Reminders => r.count = 0,
         UNCHANGED <<now, active, batch, failures, sends>>,
         edits' \in 0..MaxEdits, edits' >= edits,
         current' = [k \in Kinds |-> current'[k]],
         \A k \in Kinds : current'[k] = current[k]
                          \/ (current'[k] = Nothing /\ current[k] # Nothing /\ current[k].id = i),
         lastSent' \in [Rows -> 0..MaxTime], \A j \in Rows \ {i} : lastSent'[j] = lastSent[j],
         late' \in [Rows -> [stopped : BOOLEAN, sends : Nat]], \A j \in Rows \ {i} : late'[j] = late[j],
         Unsent(i)', GoesOnLater(i)', Stopped(i)'
  PROVE  ScheduleInv'
<1> USE ScheduleNumbers
<1>1. \A j \in Rows : row'[j] = IF j = i THEN r ELSE row[j]
  OBVIOUS
<1>2. row' \in [Rows -> RowRecord] /\ \A j \in Rows : row'[j].edit \in Nat /\ row'[j].edit >= row[j].edit
  BY <1>1 DEF RowRecord
<1>3. ScheduleTypeOK'
  <2>1. \A j \in Rows : row'[j] \in
          [status : {"pending", "failed", "cancelled"} \cup (IF j \in Messages THEN {"sent"} ELSE {"completed"}),
           at : Times, count : 0..(MaxTime + 1), edit : 0..MaxEdits]
    BY <1>1 DEF ScheduleInv, ScheduleTypeOK, RowRecord
  <2> QED BY <2>1 DEF ScheduleTypeOK
<1>4. \A k \in Kinds : Copies(k)'
  <2> SUFFICES ASSUME NEW k \in Kinds PROVE Copies(k)'
    OBVIOUS
  <2>0. Copies(k) /\ RowsOf(k) \subseteq Rows /\ failures \in Nat
    BY DEF ScheduleInv, RowsOf, Rows
  <2>1. \A j \in DOMAIN batch[k] : j \in RowsOf(k) /\ CopyOf(j, batch[k][j], failures)'
    BY <1>2, <2>0, CopyStays DEF Copies
  <2>2. ASSUME current'[k] # Nothing
        PROVE  /\ current'[k] = current[k]
               /\ current[k] \in [at : {"send", "record"}, id : RowsOf(k), copy : RowRecord]
               /\ current[k].id \notin DOMAIN batch[k]
               /\ CopyOf(current[k].id, current[k].copy, IF current[k].at = "send" THEN failures ELSE failures + 1)'
    <3>1. current'[k] = current[k]
      BY <2>2
    <3>2. /\ current[k] \in [at : {"send", "record"}, id : RowsOf(k), copy : RowRecord]
          /\ current[k].id \notin DOMAIN batch[k] /\ current[k].id \in Rows
          /\ CopyOf(current[k].id, current[k].copy, IF current[k].at = "send" THEN failures ELSE failures + 1)
      BY <2>0, <2>2, <3>1 DEF Copies
    <3>3. PICK j \in Rows : j = current[k].id
      BY <3>2
    <3>4. PICK c : c = current[k].copy
      OBVIOUS
    <3>5. PICK n \in Nat : n = IF current[k].at = "send" THEN failures ELSE failures + 1
      BY <2>0
    <3>6. CopyOf(j, c, n)'
      BY <1>2, <3>2, <3>3, <3>4, <3>5, CopyStays
    <3>7. n = (IF current[k].at = "send" THEN failures ELSE failures + 1)' /\ c = current'[k].copy /\ j = current'[k].id
      BY <3>1, <3>3, <3>4, <3>5
    <3> QED BY <3>1, <3>2, <3>6, <3>7
  <2> QED BY <2>1, <2>2 DEF Copies
<1>5. ASSUME NEW j \in Rows PROVE Unsent(j)' /\ GoesOnLater(j)' /\ Stopped(j)'
  <2>1. CASE j # i
    <3>1. Unsent(j) /\ GoesOnLater(j) /\ Stopped(j)
      BY DEF ScheduleInv
    <3>2. \A k \in Kinds : \A step : Handles(k, j, step)' = Handles(k, j, step)
      BY <2>1 DEF Handles
    <3>3. \A step : Handled(j, step)' = Handled(j, step)
      BY <3>2 DEF Handled
    <3>4. row'[j] = row[j] /\ lastSent'[j] = lastSent[j] /\ late'[j] = late[j]
      BY <1>1, <2>1
    <3> QED BY <3>1, <3>2, <3>3, <3>4 DEF Unsent, GoesOnLater, Stopped, Slot
  <2> QED BY <2>1
<1>6. \A s \in Slots : sends'[s] > 0 => s[3] <= now' /\ s[2] <= row'[s[1]].edit
  <2> SUFFICES ASSUME NEW s \in Slots, sends[s] > 0 PROVE s[3] <= now /\ s[2] <= row'[s[1]].edit
    OBVIOUS
  <2>1. s[3] <= now /\ s[2] <= row[s[1]].edit /\ s[1] \in Rows /\ s[2] \in Nat
    BY DEF ScheduleInv, Slots
  <2>2. row[s[1]].edit \in Nat
    BY <2>1 DEF RowRecord
  <2> QED BY <1>2, <2>1, <2>2
<1>7. \A j \in Rows : row'[j].count <= row'[j].at /\ row'[j].edit <= edits' /\ (j \in Reminders => row'[j].count = 0)
  <2> SUFFICES ASSUME NEW j \in Rows, j # i
               PROVE  row[j].count <= row[j].at /\ row[j].edit <= edits' /\ (j \in Reminders => row[j].count = 0)
    BY <1>1
  <2>1. row[j].count <= row[j].at /\ row[j].edit <= edits /\ (j \in Reminders => row[j].count = 0)
        /\ row[j].edit \in Nat
    BY DEF ScheduleInv, RowRecord
  <2> QED BY <2>1
<1> QED
  <2>1. SlotSentOnce' /\ batch' = [k \in Kinds |-> batch'[k]]
    BY DEF ScheduleInv, SlotSentOnce
  <2> QED BY <1>2, <1>3, <1>4, <1>5, <1>6, <1>7, <2>1 DEF ScheduleInv

\* What a dispatcher has in hand: a copy of a row of its kind.
LEMMA InHandCopy ==
  ASSUME ScheduleInv, NEW k \in Kinds, current[k] # Nothing
  PROVE  /\ current[k].id \in RowsOf(k) /\ current[k].id \in Rows /\ current[k].copy \in RowRecord
         /\ current[k].at \in {"send", "record"} /\ current[k].id \notin DOMAIN batch[k]
         /\ CopyOf(current[k].id, current[k].copy, IF current[k].at = "send" THEN failures ELSE failures + 1)
         /\ current[k].copy.at \in Nat /\ current[k].copy.at <= now
         /\ current[k].copy.count \in Nat /\ current[k].copy.count <= current[k].copy.at
<1>1. Copies(k)
  BY DEF ScheduleInv
<1>2. /\ current[k].id \in RowsOf(k) /\ current[k].id \in Rows /\ current[k].copy \in RowRecord
      /\ current[k].at \in {"send", "record"} /\ current[k].id \notin DOMAIN batch[k]
      /\ CopyOf(current[k].id, current[k].copy, IF current[k].at = "send" THEN failures ELSE failures + 1)
  BY <1>1 DEF Copies, RowsOf, Rows
<1> QED BY <1>2 DEF CopyOf, RowRecord, Times

\* A dispatcher at a step has something in hand.
LEMMA AtStep ==
  ASSUME NEW k \in Kinds, current[k].at \in {"send", "record"} PROVE current[k] # Nothing
BY DEF Nothing

\* A row in the future has not been sent.
LEMMA FutureUnsent ==
  ASSUME ScheduleInv, NEW i \in Rows, NEW r \in RowRecord, r.at > now \/ r.edit > row[i].edit
  PROVE  sends[Slot(i, r)] = 0
<1>1. Slot(i, r) \in Slots /\ Slot(i, r)[1] = i /\ Slot(i, r)[2] = r.edit /\ Slot(i, r)[3] = r.at
  BY CopySlot
<1>2. sends[Slot(i, r)] \in Nat /\ now \in Nat /\ r.at \in Nat /\ r.edit \in Nat /\ row[i].edit \in Nat
  BY <1>1, ScheduleNumbers DEF RowRecord, Times
<1>3. sends[Slot(i, r)] > 0 => r.at <= now /\ r.edit <= row[i].edit
  BY <1>1 DEF ScheduleInv
<1> QED BY <1>2, <1>3

\* RescheduleMessage: the next slot lies in the future, and after the send.
LEMMA RescheduleStep ==
  ASSUME ScheduleInv, NEW k \in Kinds, Reschedule(k)
  PROVE  ScheduleInv'
<1> USE ScheduleNumbers
<1>0. current[k] # Nothing
  BY AtStep DEF Reschedule
<1>1. PICK i : i = current[k].id
  OBVIOUS
<1>2. PICK c : c = current[k].copy
  OBVIOUS
<1>3. PICK t : t = NextFire(i, c.at)
  OBVIOUS
<1>4. /\ k = "messages" /\ Interval[i] > 0
      /\ row' = [row EXCEPT ![i] = [row[i] EXCEPT !.at = t, !.count = c.count + 1, !.status = row[i].status]]
      /\ current' = [current EXCEPT ![k] = Nothing]
      /\ UNCHANGED <<now, active, batch, edits, failures, sends, lastSent, late>>
  BY <1>1, <1>2, <1>3 DEF Reschedule, SeriesGoesOn, SetRow, RescheduledStatus
<1>5. /\ i \in Messages /\ i \in Rows /\ i \notin Reminders /\ row[i] \in RowRecord
      /\ c.at \in Nat /\ c.at <= now /\ c.count \in Nat /\ c.count <= c.at
  BY <1>0, <1>1, <1>2, <1>4, InHandCopy, RuleAssumption DEF RowsOf
<1>6. t \in Times /\ t > now
  BY <1>3, <1>4, <1>5, NextFireLater
<1>7. PICK r : r = [row[i] EXCEPT !.at = t, !.count = c.count + 1, !.status = row[i].status]
  OBVIOUS
<1>8. /\ r \in RowRecord /\ r.edit = row[i].edit /\ r.at = t /\ r.status = row[i].status
      /\ r.count <= r.at
  <2>1. c.count + 1 \in 0..(MaxTime + 1) /\ t \in Nat /\ c.count + 1 <= t
    BY <1>5, <1>6 DEF Times
  <2>2. r \in RowRecord
    BY <1>5, <1>6, <1>7, <2>1 DEF RowRecord
  <2>3. r.edit = row[i].edit /\ r.at = t /\ r.status = row[i].status /\ r.count = c.count + 1
    BY <1>5, <1>7 DEF RowRecord
  <2> QED BY <2>1, <2>2, <2>3
<1>9. /\ row' = [row EXCEPT ![i] = r] /\ row'[i] = r
      /\ r.status \in {"pending", "failed", "cancelled", "sent"}
      /\ r.edit \in Nat /\ r.edit <= edits
  <2>1. row[i].status \in {"pending", "failed", "cancelled", "sent"} /\ row[i].edit \in Nat /\ row[i].edit <= edits
    BY <1>5 DEF ScheduleInv, ScheduleTypeOK
  <2> QED BY <1>4, <1>5, <1>7, <1>8, <2>1
<1>10. \A l \in Kinds : current'[l] = IF l = k THEN Nothing ELSE current[l]
  BY <1>4 DEF ScheduleInv
<1>11. Unsent(i)'
  <2>1. sends[Slot(i, r)] = 0
    BY <1>5, <1>6, <1>8, FutureUnsent
  <2>2. sends'[Slot(i, row'[i])] = 0
    BY <1>4, <1>9, <2>1
  <2> QED BY <1>4, <1>9, <2>2 DEF Unsent, Slot
<1>12. GoesOnLater(i)'
  <2>1. lastSent[i] <= now
    BY <1>5 DEF ScheduleInv, GoesOnLater
  <2>2. row'[i].at > lastSent'[i] /\ lastSent'[i] <= now'
    BY <1>4, <1>5, <1>6, <1>8, <1>9, <2>1 DEF Times
  <2> QED BY <2>2 DEF GoesOnLater
<1>13. Stopped(i)'
  <2>1. Stopped(i)
    BY <1>5 DEF ScheduleInv
  <2>2. \A l \in Kinds : Handles(l, i, "send")' => Handles(l, i, "send")
    BY <1>10 DEF Handles
  <2> QED BY <1>4, <1>8, <1>9, <2>1, <2>2 DEF Stopped
<1> QED
  <2>1. current' = [l \in Kinds |-> current'[l]]
    BY <1>4 DEF ScheduleInv
  <2>2. r.edit >= row[i].edit /\ r.edit <= edits' /\ edits' \in 0..MaxEdits /\ edits' >= edits
    BY <1>4, <1>8, <1>9
  <2> QED BY <1>0, <1>1, <1>4, <1>5, <1>8, <1>9, <1>10, <1>11, <1>12, <1>13, <2>1, <2>2, RowWrite

\* A row that is pending no more: completed, failed or cancelled, it is not sent again.
LEMMA ClosedRow ==
  ASSUME ScheduleInv, NEW i \in Rows, row'[i].status # "pending",
         now' = now, lastSent'[i] = lastSent[i]
  PROVE  Unsent(i)' /\ GoesOnLater(i)'
BY DEF ScheduleInv, Unsent, GoesOnLater

\* MarkSent, CompleteReminder: the row is done with.
LEMMA CompleteStep ==
  ASSUME ScheduleInv, NEW k \in Kinds, Complete(k)
  PROVE  ScheduleInv'
<1> USE ScheduleNumbers
<1>0. current[k] # Nothing
  BY AtStep DEF Complete
<1>1. PICK i : i = current[k].id
  OBVIOUS
<1>2. PICK s : s = IF k = "messages" THEN "sent" ELSE "completed"
  OBVIOUS
<1>3. /\ row' = [row EXCEPT ![i] = [row[i] EXCEPT !.status = s]]
      /\ current' = [current EXCEPT ![k] = Nothing]
      /\ UNCHANGED <<now, active, batch, edits, failures, sends, lastSent, late>>
  BY <1>1, <1>2 DEF Complete, SetRow
<1>4. i \in Rows /\ i \in RowsOf(k) /\ row[i] \in RowRecord
  BY <1>0, <1>1, InHandCopy
<1>5. PICK r : r = [row[i] EXCEPT !.status = s]
  OBVIOUS
<1>6. /\ r \in RowRecord /\ r.edit = row[i].edit /\ r.count = row[i].count /\ r.at = row[i].at
      /\ r.status = s /\ s # "pending"
  BY <1>2, <1>4, <1>5 DEF RowRecord
<1>7. s \in IF i \in Messages THEN {"sent"} ELSE {"completed"}
  BY <1>2, <1>4, RuleAssumption DEF RowsOf, Kinds
<1>8. /\ row' = [row EXCEPT ![i] = r] /\ row'[i] = r
      /\ r.edit \in Nat /\ r.edit <= edits /\ r.count <= r.at /\ (i \in Reminders => r.count = 0)
  <2>1. row[i].edit \in Nat /\ row[i].edit <= edits /\ row[i].count <= row[i].at
        /\ (i \in Reminders => row[i].count = 0)
    BY <1>4 DEF ScheduleInv, RowRecord
  <2> QED BY <1>3, <1>4, <1>5, <1>6, <2>1
<1>9. \A l \in Kinds : current'[l] = IF l = k THEN Nothing ELSE current[l]
  BY <1>3 DEF ScheduleInv
<1>10. Unsent(i)' /\ GoesOnLater(i)'
  BY <1>3, <1>4, <1>6, <1>8, ClosedRow
<1>11. Stopped(i)'
  <2>1. Stopped(i)
    BY <1>4 DEF ScheduleInv
  <2>2. \A l \in Kinds : Handles(l, i, "send")' => Handles(l, i, "send")
    BY <1>9 DEF Handles
  <2> QED BY <1>3, <1>6, <1>8, <2>1, <2>2 DEF Stopped
<1> QED
  <2>1. current' = [l \in Kinds |-> current'[l]]
    BY <1>3 DEF ScheduleInv
  <2>2. /\ r.edit >= row[i].edit /\ r.edit <= edits' /\ edits' \in 0..MaxEdits /\ edits' >= edits
        /\ r.status \in {"pending", "failed", "cancelled"} \cup (IF i \in Messages THEN {"sent"} ELSE {"completed"})
    BY <1>3, <1>6, <1>7, <1>8
  <2> QED BY <1>0, <1>1, <1>3, <1>4, <1>6, <1>8, <1>9, <1>10, <1>11, <2>1, <2>2, RowWrite

\* Pages and tools: what is edited starts anew, what is cancelled is stopped.
LEMMA EditStep ==
  ASSUME ScheduleInv, NEW i \in Rows,
         CancelRow(i) \/ \E t \in 1..MaxTime : EditReminder(i, t) \/ EditMessage(i, t)
  PROVE  ScheduleInv'
<1> USE ScheduleNumbers
<1>0. /\ row[i] \in RowRecord /\ row[i].edit \in 0..MaxEdits /\ row[i].edit <= edits
      /\ row[i].count \in Nat /\ row[i].count <= row[i].at /\ (i \in Reminders => row[i].count = 0)
      /\ row[i].status \in {"pending", "failed", "cancelled"} \cup (IF i \in Messages THEN {"sent"} ELSE {"completed"})
  BY DEF ScheduleInv, ScheduleTypeOK, RowRecord
<1>1. /\ UNCHANGED <<now, active, batch, current, failures, sends>>
      /\ edits' = edits + 1 /\ edits < MaxEdits
  BY DEF CancelRow, EditReminder, EditMessage, Edit
<1>2. edits' \in 0..MaxEdits /\ edits' >= edits /\ edits' >= row[i].edit + 1
  BY <1>0, <1>1
<1>3. CASE CancelRow(i)
  <2>1. PICK r : r = [row[i] EXCEPT !.status = "cancelled"]
    OBVIOUS
  <2>2. /\ row' = [row EXCEPT ![i] = r] /\ row'[i] = r /\ lastSent' = lastSent
        /\ late' = [late EXCEPT ![i] = [stopped |-> TRUE, sends |-> 0]]
    BY <1>3, <2>1 DEF CancelRow, SetRow
  <2>3. /\ r \in RowRecord /\ r.edit = row[i].edit /\ r.count = row[i].count /\ r.at = row[i].at
        /\ r.status = "cancelled"
    BY <1>0, <2>1 DEF RowRecord
  <2>4. Unsent(i)' /\ GoesOnLater(i)'
    BY <1>1, <2>2, <2>3, ClosedRow
  <2>5. Stopped(i)'
    BY <2>2, <2>3 DEF Stopped
  <2>6. r.edit >= row[i].edit /\ r.edit <= edits' /\ r.count <= r.at /\ (i \in Reminders => r.count = 0)
    BY <1>0, <1>2, <2>3
  <2>7. late' \in [Rows -> [stopped : BOOLEAN, sends : Nat]] /\ \A j \in Rows \ {i} : late'[j] = late[j]
    BY <2>2
  <2>8. current' = [k \in Kinds |-> current'[k]] /\ \A k \in Kinds : current'[k] = current[k]
    BY <1>1 DEF ScheduleInv
  <2> QED BY <1>1, <1>2, <2>2, <2>3, <2>4, <2>5, <2>6, <2>7, <2>8, RowWrite
<1>4. ASSUME NEW t \in 1..MaxTime, EditReminder(i, t) \/ EditMessage(i, t) PROVE ScheduleInv'
  <2>1. PICK r : r = IF i \in Reminders THEN [row[i] EXCEPT !.at = t, !.edit = row[i].edit + 1]
                     ELSE [status |-> "pending", at |-> t, count |-> 0, edit |-> row[i].edit + 1]
    OBVIOUS
  <2>2. /\ row' = [row EXCEPT ![i] = r] /\ row'[i] = r
        /\ lastSent' = [lastSent EXCEPT ![i] = 0]
        /\ late' = [late EXCEPT ![i] = NotStopped] \/ (i \in Reminders /\ late' = late)
    BY <1>4, <2>1, RuleAssumption DEF EditReminder, EditMessage, SetRow
  <2>3. /\ r \in RowRecord /\ r.edit = row[i].edit + 1 /\ r.count = (IF i \in Reminders THEN row[i].count ELSE 0)
        /\ r.at = t /\ r.status = (IF i \in Reminders THEN row[i].status ELSE "pending")
    <3>1. t \in Times /\ row[i].edit + 1 \in 0..MaxEdits
      BY <1>0, <1>1 DEF Times
    <3>2. 0 \in 0..(MaxTime + 1)
      OBVIOUS
    <3>3. CASE i \in Reminders
      <4>1. r = [row[i] EXCEPT !.at = t, !.edit = row[i].edit + 1]
        BY <2>1, <3>3
      <4> QED BY <1>0, <3>1, <3>3, <4>1 DEF RowRecord
    <3>4. CASE i \notin Reminders
      <4>1. r = [status |-> "pending", at |-> t, count |-> 0, edit |-> row[i].edit + 1]
        BY <2>1, <3>4
      <4> QED BY <1>0, <3>1, <3>2, <3>4, <4>1 DEF RowRecord
    <3> QED BY <3>3, <3>4
  <2>4. Unsent(i)'
    <3>1. sends[Slot(i, r)] = 0
      BY <1>0, <2>3, FutureUnsent
    <3>2. sends'[Slot(i, row'[i])] = 0
      BY <1>1, <2>2, <3>1
    <3> QED BY <1>1, <2>2, <3>2 DEF Unsent, Slot
  <2>5. GoesOnLater(i)'
    BY <1>1, <2>2 DEF GoesOnLater
  <2>6. Stopped(i)'
    <3>1. Stopped(i) /\ \A k \in Kinds : Handles(k, i, "send")' = Handles(k, i, "send")
      BY <1>1 DEF ScheduleInv, Handles
    <3>2. CASE late'[i] = NotStopped
      BY <3>2 DEF Stopped, NotStopped
    <3>3. CASE i \in Reminders /\ late' = late
      BY <1>1, <2>2, <2>3, <3>1, <3>3 DEF Stopped
    <3> QED BY <2>2, <3>2, <3>3
  <2>7. /\ r.edit >= row[i].edit /\ r.edit <= edits' /\ r.count <= r.at /\ (i \in Reminders => r.count = 0)
        /\ r.status \in {"pending", "failed", "cancelled"} \cup (IF i \in Messages THEN {"sent"} ELSE {"completed"})
    BY <1>0, <1>2, <2>3
  <2>8. /\ late' \in [Rows -> [stopped : BOOLEAN, sends : Nat]] /\ \A j \in Rows \ {i} : late'[j] = late[j]
        /\ lastSent' \in [Rows -> 0..MaxTime] /\ \A j \in Rows \ {i} : lastSent'[j] = lastSent[j]
    <3>1. NotStopped \in [stopped : BOOLEAN, sends : Nat] /\ 0 \in 0..MaxTime
      BY DEF NotStopped
    <3>2. late' \in [Rows -> [stopped : BOOLEAN, sends : Nat]] /\ \A j \in Rows \ {i} : late'[j] = late[j]
      BY <2>2, <3>1
    <3>3. lastSent' \in [Rows -> 0..MaxTime] /\ \A j \in Rows \ {i} : lastSent'[j] = lastSent[j]
      BY <2>2, <3>1
    <3> QED BY <3>2, <3>3
  <2>9. current' = [k \in Kinds |-> current'[k]] /\ \A k \in Kinds : current'[k] = current[k]
    BY <1>1 DEF ScheduleInv
  <2> QED BY <1>1, <1>2, <2>2, <2>3, <2>4, <2>5, <2>6, <2>7, <2>8, <2>9, RowWrite
<1> QED BY <1>3, <1>4

\* SendWhatsApp has gone through: the copy is out once more, and is recorded next.
LEMMA SentStep ==
  ASSUME ScheduleInv, NEW k \in Kinds, current[k].at = "send",
         current' = [current EXCEPT ![k].at = "record"],
         sends' = [sends EXCEPT ![Slot(current[k].id, current[k].copy)] = @ + 1],
         lastSent' = IF current[k].copy.edit = row[current[k].id].edit
                     THEN [lastSent EXCEPT ![current[k].id] = now] ELSE lastSent,
         late' = IF late[current[k].id].stopped THEN [late EXCEPT ![current[k].id].sends = @ + 1] ELSE late,
         UNCHANGED <<now, active, batch, edits, row, failures>>
  PROVE  ScheduleInv'
<1> USE ScheduleNumbers
<1>0. current[k] # Nothing
  BY AtStep
<1>1. PICK i : i = current[k].id
  OBVIOUS
<1>2. PICK c : c = current[k].copy
  OBVIOUS
<1>3. /\ i \in RowsOf(k) /\ i \in Rows /\ c \in RowRecord /\ i \notin DOMAIN batch[k]
      /\ CopyOf(i, c, failures) /\ c.at <= now /\ c.edit <= row[i].edit
  BY <1>0, <1>1, <1>2, InHandCopy DEF CopyOf
<1>4. /\ Slot(i, c) \in Slots /\ Slot(i, c)[1] = i /\ Slot(i, c)[2] = c.edit /\ Slot(i, c)[3] = c.at
  BY <1>3, CopySlot
<1>5. /\ sends' \in [Slots -> Nat] /\ sends'[Slot(i, c)] <= failures + 1
      /\ \A s \in Slots : s # Slot(i, c) => sends'[s] = sends[s]
  <2>1. sends' = [sends EXCEPT ![Slot(i, c)] = sends[Slot(i, c)] + 1] /\ sends[Slot(i, c)] \in Nat
    BY <1>1, <1>2, <1>4
  <2>2. sends[Slot(i, c)] <= failures
    BY <1>3 DEF CopyOf
  <2> QED BY <1>4, <2>1, <2>2
<1>6. \A j \in Rows, d \in RowRecord : j # i => sends'[Slot(j, d)] = sends[Slot(j, d)]
  BY <1>4, <1>5, CopySlot
<1>7. /\ \A l \in Kinds : l # k => current'[l] = current[l]
      /\ current'[k] \in [at : {"send", "record"}, id : RowsOf(k), copy : RowRecord]
      /\ current'[k].at = "record" /\ current'[k].id = i /\ current'[k].copy = c /\ current'[k] # Nothing
      /\ current' = [l \in Kinds |-> current'[l]]
  <2>1. current[k] \in [at : {"send", "record"}, id : RowsOf(k), copy : RowRecord] /\ current = [l \in Kinds |-> current[l]]
    BY <1>0 DEF ScheduleInv, Copies
  <2>2. current'[k] = [current[k] EXCEPT !.at = "record"] /\ \A l \in Kinds : l # k => current'[l] = current[l]
    BY <2>1
  <2>3. current'[k] \in [at : {"send", "record"}, id : RowsOf(k), copy : RowRecord]
        /\ current'[k].at = "record" /\ current'[k].id = i /\ current'[k].copy = c
    BY <1>1, <1>2, <2>1, <2>2
  <2> QED BY <2>1, <2>2, <2>3 DEF Nothing
<1>8. /\ lastSent' \in [Rows -> 0..MaxTime] /\ lastSent'[i] <= now
      /\ \A j \in Rows : j # i => lastSent'[j] = lastSent[j]
  <2>1. lastSent[i] <= now
    BY <1>3 DEF ScheduleInv, GoesOnLater
  <2> QED BY <1>1, <1>3, <2>1
<1>9. /\ late' \in [Rows -> [stopped : BOOLEAN, sends : Nat]] /\ late'[i].stopped = late[i].stopped
      /\ late'[i].sends <= 1
      /\ \A j \in Rows : j # i => late'[j] = late[j]
  <2>1. Stopped(i) /\ Handles(k, i, "send")
    BY <1>0, <1>1, <1>3 DEF ScheduleInv, Handles
  <2>2. CASE late[i].stopped
    <3>1. late[i].sends = 0
      BY <2>1, <2>2 DEF Stopped
    <3>2. late' = [late EXCEPT ![i] = [late[i] EXCEPT !.sends = late[i].sends + 1]]
      BY <1>1, <2>2
    <3>3. [late[i] EXCEPT !.sends = late[i].sends + 1] \in [stopped : BOOLEAN, sends : Nat]
          /\ [late[i] EXCEPT !.sends = late[i].sends + 1].sends = 1
          /\ [late[i] EXCEPT !.sends = late[i].sends + 1].stopped = late[i].stopped
      BY <1>3, <3>1
    <3> QED BY <1>3, <3>2, <3>3
  <2>3. CASE ~late[i].stopped
    BY <1>1, <1>3, <2>1, <2>3 DEF Stopped
  <2> QED BY <2>2, <2>3
<1>10. \A l \in Kinds : Copies(l)'
  <2> SUFFICES ASSUME NEW l \in Kinds PROVE Copies(l)'
    OBVIOUS
  <2>0. Copies(l) /\ RowsOf(l) \subseteq Rows
    BY DEF ScheduleInv, RowsOf, Rows
  <2>1. \A j \in Rows : \A d, n : j # i /\ CopyOf(j, d, n) => CopyOf(j, d, n)'
    BY <1>6 DEF CopyOf, Slot
  <2>2. CASE l = k
    <3>1. \A j \in DOMAIN batch[k] : j \in RowsOf(k) /\ CopyOf(j, batch[k][j], failures)'
      <4> SUFFICES ASSUME NEW j \in DOMAIN batch[k] PROVE j \in RowsOf(k) /\ CopyOf(j, batch[k][j], failures)'
        OBVIOUS
      <4>1. j \in RowsOf(k) /\ j \in Rows /\ j # i /\ CopyOf(j, batch[k][j], failures)
        BY <1>3, <2>0, <2>2 DEF Copies
      <4>2. PICK d : d = batch[k][j]
        OBVIOUS
      <4>3. PICK n : n = failures
        OBVIOUS
      <4>4. CopyOf(j, d, n)'
        BY <2>1, <4>1, <4>2, <4>3
      <4> QED BY <4>1, <4>2, <4>3, <4>4
    <3>2. PICK n : n = failures + 1
      OBVIOUS
    <3>3. CopyOf(i, c, n)'
      BY <1>3, <1>5, <3>2 DEF CopyOf, Slot
    <3>4. n = (IF current[k].at = "send" THEN failures ELSE failures + 1)'
      BY <1>7, <3>2
    <3> QED BY <1>3, <1>7, <2>2, <3>1, <3>3, <3>4 DEF Copies
  <2>3. CASE l # k
    <3>1. i \notin RowsOf(l)
      BY <1>3, <2>3, RuleAssumption DEF RowsOf, Kinds
    <3>2. \A j \in DOMAIN batch[l] : j \in RowsOf(l) /\ CopyOf(j, batch[l][j], failures)'
      BY <2>0, <2>1, <3>1 DEF Copies
    <3>3. ASSUME current[l] # Nothing
          PROVE  /\ current[l] \in [at : {"send", "record"}, id : RowsOf(l), copy : RowRecord]
                 /\ current[l].id \notin DOMAIN batch[l]
                 /\ CopyOf(current[l].id, current[l].copy, IF current[l].at = "send" THEN failures ELSE failures + 1)'
      <4>1. /\ current[l] \in [at : {"send", "record"}, id : RowsOf(l), copy : RowRecord]
            /\ current[l].id \notin DOMAIN batch[l]
            /\ CopyOf(current[l].id, current[l].copy, IF current[l].at = "send" THEN failures ELSE failures + 1)
        BY <2>0, <3>3 DEF Copies
      <4>2. PICK j \in Rows : j = current[l].id /\ j # i
        BY <2>0, <3>1, <4>1
      <4>3. PICK d : d = current[l].copy
        OBVIOUS
      <4>4. PICK n : n = IF current[l].at = "send" THEN failures ELSE failures + 1
        OBVIOUS
      <4>5. CopyOf(j, d, n)'
        BY <2>1, <4>1, <4>2, <4>3, <4>4
      <4>6. j = current'[l].id /\ d = current'[l].copy /\ n = (IF current[l].at = "send" THEN failures ELSE failures + 1)'
        BY <1>7, <2>3, <4>2, <4>3, <4>4
      <4> QED BY <4>1, <4>5, <4>6
    <3>4. current'[l] = current[l]
      BY <1>7, <2>3
    <3> QED BY <3>2, <3>3, <3>4 DEF Copies
  <2> QED BY <2>2, <2>3
<1>11. ASSUME NEW j \in Rows PROVE Unsent(j)' /\ GoesOnLater(j)' /\ Stopped(j)'
  <2>1. Unsent(j) /\ GoesOnLater(j) /\ Stopped(j)
    BY DEF ScheduleInv
  <2>2. CASE j = i
    <3>1. Handled(i, "record")'
      BY <1>7 DEF Handled, Handles
    <3>2. Unsent(j)' /\ GoesOnLater(j)'
      BY <1>8, <2>2, <3>1 DEF Unsent, GoesOnLater
    <3>3. \A l \in Kinds : i \notin DOMAIN batch'[l] /\ ~Handles(l, i, "send")'
      <4> SUFFICES ASSUME NEW l \in Kinds PROVE i \notin DOMAIN batch[l] /\ ~Handles(l, i, "send")'
        OBVIOUS
      <4>1. CASE l = k
        BY <1>3, <1>7, <4>1 DEF Handles
      <4>2. CASE l # k
        BY <1>0, <1>1, <1>3, <1>7, <4>2, OneDispatcher DEF Handles
      <4> QED BY <4>1, <4>2
    <3> QED BY <1>9, <2>1, <2>2, <3>2, <3>3 DEF Stopped
  <2>3. CASE j # i
    <3>1. \A l \in Kinds : \A step : Handles(l, j, step)' = Handles(l, j, step)
      BY <1>1, <1>7, <2>3 DEF Handles
    <3>2. \A step : Handled(j, step)' = Handled(j, step)
      BY <3>1 DEF Handled
    <3>3. sends'[Slot(j, row[j])] = sends[Slot(j, row[j])]
      BY <1>6, <2>3
    <3> QED BY <1>8, <1>9, <2>1, <2>3, <3>1, <3>2, <3>3 DEF Unsent, GoesOnLater, Stopped, Slot
  <2> QED BY <2>2, <2>3
<1>12. \A s \in Slots : sends'[s] > 0 => s[3] <= now' /\ s[2] <= row'[s[1]].edit
  BY <1>3, <1>4, <1>5 DEF ScheduleInv
<1>13. SlotSentOnce'
  <2> SUFFICES ASSUME NEW s \in Slots PROVE sends'[s] <= 1 + failures
    BY DEF SlotSentOnce
  <2>1. sends[s] <= 1 + failures
    BY DEF ScheduleInv, SlotSentOnce
  <2> QED BY <1>4, <1>5, <2>1
<1>14. ScheduleTypeOK'
  BY <1>5, <1>8, <1>9 DEF ScheduleInv, ScheduleTypeOK
<1> QED
  <2>1. /\ row' \in [Rows -> RowRecord] /\ batch' = [l \in Kinds |-> batch'[l]]
        /\ \A j \in Rows : row'[j].count <= row'[j].at /\ row'[j].edit <= edits'
                           /\ (j \in Reminders => row'[j].count = 0)
    BY DEF ScheduleInv
  <2> QED BY <1>7, <1>10, <1>11, <1>12, <1>13, <1>14, <2>1 DEF ScheduleInv

\* The process stops: what was in hand may go out again, and one more failure accounts for it.
LEMMA StopStep ==
  ASSUME ScheduleInv, Crash
  PROVE  ScheduleInv'
<1> USE ScheduleNumbers
<1>0. /\ UNCHANGED <<now, row, active, edits, sends, lastSent, late>>
      /\ failures' = failures + 1 /\ failures < MaxFailures
      /\ batch' = [k \in Kinds |-> <<>>] /\ current' = [k \in Kinds |-> Nothing]
  BY DEF Crash, Failure
<1>1. \A s \in Slots : sends[s] <= failures'
  <2> SUFFICES ASSUME NEW s \in Slots PROVE sends[s] <= failures'
    OBVIOUS
  <2>1. sends[s] <= 1 + failures
    BY DEF ScheduleInv, SlotSentOnce
  <2> QED BY <1>0, <2>1
<1>2. SlotSentOnce'
  <2> SUFFICES ASSUME NEW s \in Slots PROVE sends[s] <= 1 + failures'
    BY <1>0 DEF SlotSentOnce
  <2> QED BY <1>0, <1>1
<1>3. \A k \in Kinds : Copies(k)'
  BY <1>0 DEF Copies
<1>4. ASSUME NEW i \in Rows PROVE Unsent(i)' /\ GoesOnLater(i)' /\ Stopped(i)'
  <2>1. Unsent(i)'
    <3>1. sends[Slot(i, row[i])] <= failures'
      BY <1>1, CopySlot
    <3> QED BY <1>0, <3>1 DEF Unsent, Slot
  <2>2. GoesOnLater(i)'
    <3>1. lastSent[i] <= now /\ failures' # 0
      BY <1>0 DEF ScheduleInv, GoesOnLater
    <3> QED BY <1>0, <3>1 DEF GoesOnLater
  <2>3. Stopped(i)'
    <3>1. Stopped(i)
      BY DEF ScheduleInv
    <3>2. \A k \in Kinds : i \notin DOMAIN batch'[k] /\ ~Handles(k, i, "send")'
      BY <1>0 DEF Handles
    <3> QED BY <1>0, <3>1, <3>2 DEF Stopped
  <2> QED BY <2>1, <2>2, <2>3
<1>5. ScheduleTypeOK' /\ row' \in [Rows -> RowRecord]
  BY <1>0 DEF ScheduleInv, ScheduleTypeOK
<1>6. /\ \A j \in Rows : row'[j].count <= row'[j].at /\ row'[j].edit <= edits'
                         /\ (j \in Reminders => row'[j].count = 0)
      /\ \A s \in Slots : sends'[s] > 0 => s[3] <= now' /\ s[2] <= row'[s[1]].edit
  BY <1>0 DEF ScheduleInv
<1>7. batch' = [k \in Kinds |-> batch'[k]] /\ current' = [k \in Kinds |-> current'[k]]
  BY <1>0
<1> QED BY <1>2, <1>3, <1>4, <1>5, <1>6, <1>7 DEF ScheduleInv

\* A send fails, and may have gone out all the same: the row is done with.
LEMMA FailedStep ==
  ASSUME ScheduleInv, NEW k \in Kinds, current[k].at = "send",
         failures < MaxFailures, failures' = failures + 1,
         current' = [current EXCEPT ![k] = Nothing],
         row' = [row EXCEPT ![current[k].id] = [row[current[k].id] EXCEPT !.status = "failed"]],
         sends' \in {sends, [sends EXCEPT ![Slot(current[k].id, current[k].copy)] = @ + 1]},
         UNCHANGED <<now, active, batch, edits, lastSent, late>>
  PROVE  ScheduleInv'
<1> USE ScheduleNumbers
<1>0. current[k] # Nothing
  BY AtStep
<1>1. PICK i : i = current[k].id
  OBVIOUS
<1>2. PICK c : c = current[k].copy
  OBVIOUS
<1>3. /\ i \in RowsOf(k) /\ i \in Rows /\ c \in RowRecord /\ i \notin DOMAIN batch[k]
      /\ CopyOf(i, c, failures) /\ c.at <= now /\ c.edit <= row[i].edit
  BY <1>0, <1>1, <1>2, InHandCopy DEF CopyOf
<1>4. /\ Slot(i, c) \in Slots /\ Slot(i, c)[1] = i /\ Slot(i, c)[2] = c.edit /\ Slot(i, c)[3] = c.at
  BY <1>3, CopySlot
<1>5. /\ sends' \in [Slots -> Nat] /\ sends'[Slot(i, c)] <= failures + 1
      /\ \A s \in Slots : s # Slot(i, c) => sends'[s] = sends[s]
  <2>1. sends' \in {sends, [sends EXCEPT ![Slot(i, c)] = sends[Slot(i, c)] + 1]} /\ sends[Slot(i, c)] \in Nat
    BY <1>1, <1>2, <1>4
  <2>2. sends[Slot(i, c)] <= failures
    BY <1>3 DEF CopyOf
  <2> QED BY <1>4, <2>1, <2>2
<1>6. \A j \in Rows, d \in RowRecord : j # i => sends'[Slot(j, d)] = sends[Slot(j, d)]
  BY <1>4, <1>5, CopySlot
<1>7. /\ \A l \in Kinds : l # k => current'[l] = current[l]
      /\ current'[k] = Nothing
      /\ current' = [l \in Kinds |-> current'[l]]
  BY DEF ScheduleInv
<1>8. /\ row' \in [Rows -> RowRecord] /\ row'[i].status = "failed"
      /\ \A j \in Rows : j # i => row'[j] = row[j]
      /\ row'[i].at = row[i].at /\ row'[i].count = row[i].count /\ row'[i].edit = row[i].edit
  <2> DEFINE r == [row[i] EXCEPT !.status = "failed"]
  <2>1. row \in [Rows -> RowRecord] /\ row[i] \in RowRecord
    BY <1>3 DEF ScheduleInv
  <2>2. r \in RowRecord /\ r.status = "failed" /\ r.at = row[i].at /\ r.count = row[i].count /\ r.edit = row[i].edit
    BY <2>1 DEF RowRecord
  <2>3. row' = [row EXCEPT ![i] = r]
    BY <1>1
  <2> HIDE DEF r
  <2>4. row'[i] = r /\ row' \in [Rows -> RowRecord] /\ \A j \in Rows : j # i => row'[j] = row[j]
    BY <1>3, <2>1, <2>2, <2>3
  <2> QED BY <2>2, <2>4
<1>9. \A j \in Rows : j # i => \A d : \A n, m \in Nat : n <= m /\ CopyOf(j, d, n) => CopyOf(j, d, m)'
  <2> SUFFICES ASSUME NEW j \in Rows, j # i, NEW d, NEW n \in Nat, NEW m \in Nat, n <= m, CopyOf(j, d, n)
               PROVE  CopyOf(j, d, m)'
    OBVIOUS
  <2>1. d \in RowRecord /\ sends'[Slot(j, d)] = sends[Slot(j, d)] /\ sends[Slot(j, d)] \in Nat
    BY <1>6, CopySlot DEF CopyOf
  <2> QED BY <1>8, <2>1 DEF CopyOf, Slot
<1>10. \A l \in Kinds : Copies(l)'
  <2> SUFFICES ASSUME NEW l \in Kinds PROVE Copies(l)'
    OBVIOUS
  <2>0. Copies(l) /\ RowsOf(l) \subseteq Rows /\ i \notin DOMAIN batch[l]
    BY <1>0, <1>1, <1>3, OneDispatcher DEF ScheduleInv, RowsOf, Rows
  <2>1. \A j \in DOMAIN batch[l] : j \in RowsOf(l) /\ CopyOf(j, batch[l][j], failures)'
    <3> SUFFICES ASSUME NEW j \in DOMAIN batch[l] PROVE j \in RowsOf(l) /\ CopyOf(j, batch[l][j], failures)'
      OBVIOUS
    <3>1. j \in RowsOf(l) /\ j \in Rows /\ j # i /\ CopyOf(j, batch[l][j], failures)
      BY <2>0 DEF Copies
    <3>2. PICK d : d = batch[l][j]
      OBVIOUS
    <3>3. PICK n \in Nat : n = failures'
      OBVIOUS
    <3>4. CopyOf(j, d, n)'
      BY <1>9, <3>1, <3>2, <3>3
    <3> QED BY <3>1, <3>2, <3>3, <3>4
  <2>2. CASE l = k
    BY <1>7, <2>1, <2>2 DEF Copies
  <2>3. CASE l # k
    <3>1. ASSUME current[l] # Nothing
          PROVE  /\ current[l] \in [at : {"send", "record"}, id : RowsOf(l), copy : RowRecord]
                 /\ current[l].id \notin DOMAIN batch[l]
                 /\ CopyOf(current[l].id, current[l].copy, IF current[l].at = "send" THEN failures ELSE failures + 1)'
      <4>1. /\ current[l] \in [at : {"send", "record"}, id : RowsOf(l), copy : RowRecord]
            /\ current[l].id \notin DOMAIN batch[l]
            /\ CopyOf(current[l].id, current[l].copy, IF current[l].at = "send" THEN failures ELSE failures + 1)
        BY <2>0, <3>1 DEF Copies
      <4>2. PICK j \in Rows : j = current[l].id /\ j # i
        BY <1>3, <2>0, <2>3, <4>1, RuleAssumption DEF RowsOf, Kinds
      <4>3. PICK d : d = current[l].copy
        OBVIOUS
      <4>4. PICK n \in Nat : n = (IF current[l].at = "send" THEN failures ELSE failures + 1)'
        OBVIOUS
      <4>5. CopyOf(j, d, n)'
        BY <1>7, <1>9, <2>3, <4>1, <4>2, <4>3, <4>4
      <4>6. j = current'[l].id /\ d = current'[l].copy
        BY <1>7, <2>3, <4>2, <4>3
      <4> QED BY <4>1, <4>4, <4>5, <4>6
    <3>2. current'[l] = current[l]
      BY <1>7, <2>3
    <3> QED BY <2>1, <3>1, <3>2 DEF Copies
  <2> QED BY <2>2, <2>3
<1>11. ASSUME NEW j \in Rows PROVE Unsent(j)' /\ GoesOnLater(j)' /\ Stopped(j)'
  <2>1. Unsent(j) /\ GoesOnLater(j) /\ Stopped(j)
    BY DEF ScheduleInv
  <2>2. \A l \in Kinds : Handles(l, j, "send")' => Handles(l, j, "send")
    BY <1>7 DEF Handles
  <2>3. Stopped(j)'
    BY <1>8, <2>1, <2>2 DEF Stopped
  <2>4. GoesOnLater(j)'
    <3>1. failures' # 0
      OBVIOUS
    <3> QED BY <2>1, <3>1 DEF GoesOnLater
  <2>5. CASE j = i
    <3>1. Unsent(j)'
      BY <1>8, <2>5 DEF Unsent
    <3> QED BY <2>3, <2>4, <3>1
  <2>6. CASE j # i
    <3>1. \A l \in Kinds : \A step : Handles(l, j, step)' = Handles(l, j, step)
      BY <1>1, <1>7, <2>6 DEF Handles
    <3>2. \A step : Handled(j, step)' = Handled(j, step)
      BY <3>1 DEF Handled
    <3>3. sends'[Slot(j, row[j])] = sends[Slot(j, row[j])] /\ row'[j] = row[j] /\ sends[Slot(j, row[j])] \in Nat
      BY <1>6, <1>8, <2>6, CopySlot
    <3>4. Slot(j, row[j])' = Slot(j, row[j])
      BY <3>3 DEF Slot
    <3>5. ASSUME row[j].status = "pending", ~Handled(j, "send"), ~Handled(j, "record")
          PROVE  sends'[Slot(j, row[j])] <= failures'
      <4>1. sends[Slot(j, row[j])] <= failures
        BY <2>1, <3>5 DEF Unsent
      <4> HIDE DEF Slot
      <4> QED BY <3>3, <4>1
    <3>6. Unsent(j)'
      BY <3>2, <3>3, <3>4, <3>5 DEF Unsent
    <3> QED BY <2>3, <2>4, <3>6
  <2> QED BY <2>5, <2>6
<1>12. \A s \in Slots : sends'[s] > 0 => s[3] <= now' /\ s[2] <= row'[s[1]].edit
  <2> SUFFICES ASSUME NEW s \in Slots, sends'[s] > 0 PROVE s[3] <= now /\ s[2] <= row'[s[1]].edit
    OBVIOUS
  <2>1. row'[s[1]].edit = row[s[1]].edit
    BY <1>8 DEF Slots
  <2> QED BY <1>3, <1>4, <1>5, <2>1 DEF ScheduleInv
<1>13. SlotSentOnce'
  <2> SUFFICES ASSUME NEW s \in Slots PROVE sends'[s] <= 1 + failures'
    BY DEF SlotSentOnce
  <2>1. sends[s] <= 1 + failures /\ sends[s] \in Nat
    BY DEF ScheduleInv, SlotSentOnce
  <2>2. CASE s = Slot(i, c)
    BY <1>5, <2>2
  <2>3. CASE s # Slot(i, c)
    BY <1>5, <2>1, <2>3
  <2> QED BY <2>2, <2>3
<1>14. ScheduleTypeOK'
  <2>1. \A j \in Rows : row'[j] \in
          [status : {"pending", "failed", "cancelled"} \cup (IF j \in Messages THEN {"sent"} ELSE {"completed"}),
           at : Times, count : 0..(MaxTime + 1), edit : 0..MaxEdits]
    BY <1>1 DEF ScheduleInv, ScheduleTypeOK
  <2> QED BY <1>5, <2>1 DEF ScheduleInv, ScheduleTypeOK
<1> QED
  <2>1. /\ batch' = [l \in Kinds |-> batch'[l]]
        /\ \A j \in Rows : row'[j].count <= row'[j].at /\ row'[j].edit <= edits'
                           /\ (j \in Reminders => row'[j].count = 0)
    BY <1>8 DEF ScheduleInv
  <2> QED BY <1>7, <1>8, <1>10, <1>11, <1>12, <1>13, <1>14, <2>1 DEF ScheduleInv

\* Reminders and scheduled messages: for any number of rows, edits, failures and any rules.
THEOREM ScheduleInvariant == ScheduleSpec => []ScheduleInv
<1>1. ScheduleInit => ScheduleInv
  BY ScheduleInitially
<1>2. ScheduleInv /\ [ScheduleNext]_scheduleVars => ScheduleInv'
  <2> SUFFICES ASSUME ScheduleInv, [ScheduleNext]_scheduleVars PROVE ScheduleInv'
    OBVIOUS
  <2>1. ASSUME NEW k \in Kinds, Send(k) PROVE ScheduleInv'
    <3>1. CASE failures' = failures + 1
      <4>1. failures \in Nat
        BY ScheduleNumbers
      <4>2. failures < MaxFailures /\ current[k].at = "send"
            /\ current' = [current EXCEPT ![k] = Nothing]
            /\ row' = [row EXCEPT ![current[k].id] = [row[current[k].id] EXCEPT !.status = "failed"]]
            /\ sends' \in {sends, [sends EXCEPT ![Slot(current[k].id, current[k].copy)] = @ + 1]}
            /\ UNCHANGED <<now, active, batch, edits, lastSent, late>>
        BY <2>1, <3>1, <4>1 DEF Send, Failure, SetRow
      <4> QED BY <3>1, <4>2, FailedStep
    <3>2. CASE failures' # failures + 1
      BY <2>1, <3>2, SentStep DEF Send, Failure
    <3> QED BY <3>1, <3>2
  <2>2. ASSUME NEW k \in Kinds, DispatchDue(k) PROVE ScheduleInv'
    BY <2>1, <2>2, FetchStep, TakeStep, RescheduleStep, CompleteStep DEF DispatchDue
  <2>3. ASSUME NEW i \in Rows,
               CancelRow(i) \/ \E t \in 1..MaxTime : EditReminder(i, t) \/ EditMessage(i, t)
        PROVE  ScheduleInv'
    BY <2>3, EditStep
  <2> QED BY <2>2, <2>3, CalmStep0, StopStep DEF ScheduleNext
<1> QED BY <1>1, <1>2, PTL DEF ScheduleSpec

\* Every variable of the two dispatchers and their rows keeps its shape.
THEOREM ScheduleTypeCorrect == ScheduleSpec => []ScheduleTypeOK
<1>1. ScheduleInv => ScheduleTypeOK
  BY DEF ScheduleInv
<1> QED BY <1>1, ScheduleInvariant, PTL

\* A slot is sent once, and once more only for a failure; a series does not catch up on what it
\* missed (nextScheduledFireAt is repeated until the fire lies in the future); and of what was
\* cancelled the one copy that was fetched before goes out at most, for any number of reminders and
\* messages, any intervals, and any edits, switches, failures and restarts in between.
THEOREM SentAsScheduled == ScheduleSpec => []SendsAsScheduled
<1>1. ScheduleInv => SendsAsScheduled
  <2> SUFFICES ASSUME ScheduleInv PROVE SendsAsScheduled
    OBVIOUS
  <2>1. NoCatchUp
    <3> SUFFICES ASSUME NEW i \in Messages, row[i].status = "pending", lastSent[i] # 0, ~InHand(i), failures = 0
                 PROVE  row[i].at > lastSent[i]
      BY DEF NoCatchUp
    <3>1. GoesOnLater(i)
      BY DEF ScheduleInv, Rows
    <3>2. ~Handled(i, "record")
      BY DEF Handled, Handles, InHand
    <3> QED BY <3>1, <3>2 DEF GoesOnLater
  <2>2. SlotSentOnce /\ CancelStopsSeries
    BY DEF ScheduleInv, Stopped, CancelStopsSeries
  <2> QED BY <2>1, <2>2 DEF SendsAsScheduled
<1> QED BY <1>1, ScheduleInvariant, PTL
(* ---------------- The parts side by side, as TLC runs them ------------------- *)

\* Each part of MCGateway behaves as its own specification says, so that what is proved of
\* it holds of the behaviours that TLC checks.
THEOREM GatewayPartsBehave == FairSpec => InboxSpec /\ ScheduleSpec /\ ContactsSpec
<1>1. Init => InboxInit /\ ScheduleInit /\ ContactsInit
  BY DEF Init
<1>2. [Next]_vars => [InboxNext]_inboxVars /\ [ScheduleNext]_scheduleVars /\ [ContactsNext]_contactsVars
  BY DEF Next, vars
<1> QED BY <1>1, <1>2, PTL DEF FairSpec, InboxSpec, ScheduleSpec, ContactsSpec

\* Every variable of the three parts keeps its shape in the behaviours that TLC checks.
THEOREM GatewayTypeCorrect == FairSpec => []TypeOK
<1>1. InboxSpec /\ ScheduleSpec /\ ContactsSpec => [](InboxTypeOK /\ ScheduleTypeOK /\ ContactsTypeOK)
  BY InboxTypeCorrect, ScheduleTypeCorrect, ContactsTypeCorrect, PTL
<1>2. InboxTypeOK /\ ScheduleTypeOK /\ ContactsTypeOK => TypeOK
  BY DEF TypeOK
<1> QED BY <1>1, <1>2, GatewayPartsBehave, PTL
===============================================================================
