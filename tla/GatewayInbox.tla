---------------------------- MODULE GatewayInbox ----------------------------
(***************************************************************************)
(* A WhatsApp channel of the gateway: the adapter posts an inbound event,  *)
(* handleInbound claims and screens it and dispatches a run (or hands it   *)
(* to a run that waits for the user's answer), the run takes its turn in   *)
(* the chat's conversation, and a poller sends its outcome back.           *)
(*                                                                         *)
(* An event is a message somebody typed, or the echo of a text the channel *)
(* itself sent to its own account.  The adapter is external: it may post   *)
(* an event more than once, and its own echo filter may fail.              *)
(***************************************************************************)
EXTENDS Naturals, FiniteSets

CONSTANTS
  Names,      \* the messages people type
  Peers,      \* the chats, one person each
  Self,       \* the chat of the account with itself
  From,       \* the chat a message is typed in
  Says,       \* what a message says: an owner's command, or "talk"
  Loads,      \* what the adapter may post: how often it posts each event
  Roles,      \* the contacts the channel starts with
  DMPolicy,   \* the channel's dm_policy
  MaxAsks,    \* questions a run may ask its user
  MaxFaults   \* faults per behaviour

Typed == {<<m, "typed">> : m \in Names}
Echoes == {<<m, kind>> : m \in {x \in Names : From[x] = Self}, kind \in {"answer", "apology"}}
Events == Typed \cup Echoes
Commands == {"stop assistant", "start assistant", "enable bot mode", "disable bot mode"}

ASSUME ShapeAssumption ==
  /\ Self \in Peers /\ From \in [Names -> Peers]
  /\ Says \in [Names -> Commands \cup {"talk"}] /\ Loads \subseteq [Events -> 0..2]
  /\ Roles \in [Peers -> {"none", "owner", "trusted", "blocked"}]
  /\ DMPolicy \in {"open", "allowlist", "pairing", "disabled"}
ASSUME BoundAssumption == MaxAsks \in Nat /\ MaxFaults \in Nat

None == "none"
NoEvent == <<>>

VARIABLES
  (* PostgreSQL *)
  channel,    \* the switches of gateway_channels.config
  role,       \* gateway_contacts: a chat's role, or None
  claimed,    \* gateway_events: the events with a message_received row
  outbound,   \* gateway_outbound_messages of the last two minutes
  pairing,    \* chats with a pending pairing request
  session,    \* channel_sessions: the conversation of a chat, or None
  status,     \* runs.status of the run an event started, or None
  conv,       \* runs.conversation_id
  (* memory of the API process *)
  call,       \* a webhook request: <<event, copy>>
  alive,      \* runs with a goroutine in executeRun
  waiting,    \* userInputRegistry: runs that registered for an answer
  answer,     \* what is in a run's channel
  poller,     \* deliverWhenComplete of a run
  (* the adapter: how often it posts an event in this behaviour *)
  copies,
  (* history *)
  sent,       \* <<run, text>>: what the adapter delivered
  used,       \* <<request, run>>: the run a request started or answered
  asks, parked, faults

rowVars == <<channel, role, claimed, outbound, pairing, session>>
runVars == <<status, conv, alive, waiting, answer, asks, parked>>
inboxVars == <<rowVars, runVars, call, poller, copies, sent, used, faults>>

Requests == Events \X (1..2)
Posted == {d \in Requests : d[2] <= copies[d[1]]}
Runs == {e \in Events : status[e] # None}
Chat(e) == From[e[1]]
FromMe(e) == Chat(e) = Self
NoCall == [at |-> "idle", channel |-> [assistant |-> TRUE, bot |-> FALSE], role |-> None, conv |-> NoEvent]
Executing == {"running", "user_input_wait"}

InboxInit ==
  /\ channel = [assistant |-> TRUE, bot |-> FALSE] /\ role = Roles
  /\ claimed = {} /\ outbound = {} /\ pairing = {} /\ session = [p \in Peers |-> NoEvent]
  /\ status = [e \in Events |-> None] /\ conv = [e \in Events |-> NoEvent]
  /\ call = [d \in Requests |-> NoCall]
  /\ alive = {} /\ waiting = {} /\ answer = [e \in Events |-> NoEvent]
  /\ poller = [e \in Events |-> "off"]
  /\ copies \in Loads
  /\ sent = {} /\ used = {} /\ asks = [e \in Events |-> 0] /\ parked = {} /\ faults = 0

Goto(d, from, to) == call[d].at = from /\ call' = [call EXCEPT ![d].at = to]
Fault == faults < MaxFaults /\ faults' = faults + 1

-----------------------------------------------------------------------------
(* Faulty variants: bugs this code could plausibly have. *)

(* HasEventForProviderMessage and a later insert, the check-then-insert    *)
(* that the atomic claim replaced: two requests may both find no event.    *)
FindsNoEvent(e) == \A n \in 1..2 : call[<<e, n>>].at # "dispatch"

(* The outbound row is written once the adapter has sent the text. *)
RecordLater(r, kind) == UNCHANGED outbound

(* UpsertSession takes the caller's conversation over the stored one. *)
LastConversation(d) == call[d].conv

(* A question waits for its answer, however long it takes. *)
WaitForAnswer(r) == status[r] = "user_input_wait" /\ answer[r] # NoEvent

(* A cancelled run leaves its channel in the registry. *)
LeakChannel(r) ==
  /\ status[r] \in {"pending", "running", "user_input_wait", "session_wait"}
  /\ Fault
  /\ status' = [status EXCEPT ![r] = "cancelled"]
  /\ alive' = alive \ {r}
  /\ UNCHANGED <<rowVars, conv, waiting, answer, asks, parked, call, poller, copies, sent, used>>

-----------------------------------------------------------------------------
(* WhatsAppReceive and handleInbound, one action per database round trip *)

Receive(d) ==
  /\ d[1] \in Echoes => <<<<d[1][1], "typed">>, d[1][2]>> \in sent
  /\ call[d].at = "idle"
  /\ call' = [call EXCEPT ![d].at = "claim", ![d].channel = channel]
  /\ UNCHANGED <<rowVars, runVars, poller, copies, sent, used, faults>>

NewEvent(e) == e \notin claimed

(* resolveContact, then the insert whose ON CONFLICT DO NOTHING is the lock. *)
Claim(d) ==
  LET e == d[1] IN
  /\ call[d].at = "claim"
  /\ call' = [call EXCEPT ![d].at = IF NewEvent(e) THEN "screen" ELSE "done",
                          ![d].role = role[Chat(e)]]
  /\ claimed' = claimed \cup {e}
  /\ UNCHANGED <<channel, role, outbound, pairing, session, runVars, poller, copies, sent, used, faults>>

IsEcho(e) == FromMe(e) /\ <<Chat(e), e>> \in outbound
FromOwner(d) == call[d].role = "owner" \/ FromMe(d[1]) \/ role[Chat(d[1])] = "owner"
IsCommand(d) == d[1] \in Typed /\ Says[d[1][1]] \in Commands /\ FromOwner(d)
Unmatched(d) == call[d].role = None
Admitted(d) == FromMe(d[1]) \/ call[d].role \in {"owner", "trusted"} \/ DMPolicy = "open"

(* handleInbound after the claim, for what does not lead to a run. *)
DropEcho(d) ==
  /\ IsEcho(d[1])
  /\ Goto(d, "screen", "done")
  /\ UNCHANGED <<rowVars, runVars, poller, copies, sent, used, faults>>

(* setAssistantEnabled and setBotMode write the row the request read. *)
OwnerCommand(d) ==
  /\ ~IsEcho(d[1]) /\ IsCommand(d)
  /\ Goto(d, "screen", "done")
  /\ channel' = LET c == call[d].channel IN
       CASE Says[d[1][1]] = "stop assistant"   -> [c EXCEPT !.assistant = FALSE]
         [] Says[d[1][1]] = "start assistant"  -> [c EXCEPT !.assistant = TRUE]
         [] Says[d[1][1]] = "enable bot mode"  -> [c EXCEPT !.bot = TRUE]
         [] Says[d[1][1]] = "disable bot mode" -> [c EXCEPT !.bot = FALSE]
  /\ UNCHANGED <<role, claimed, outbound, pairing, session, runVars, poller, copies, sent, used, faults>>

Passes(d) == ~IsEcho(d[1]) /\ ~IsCommand(d) /\ call[d].channel.assistant

(* autoApproveBotSender creates a trusted contact, or finds the one that a *)
(* concurrent request created.                                            *)
AutoApprove(d) ==
  /\ Passes(d) /\ Unmatched(d) /\ call[d].channel.bot
  /\ Goto(d, "screen", "route")
  /\ role' = [role EXCEPT ![Chat(d[1])] = IF @ = None THEN "trusted" ELSE @]
  /\ UNCHANGED <<channel, claimed, outbound, pairing, session, runVars, poller, copies, sent, used, faults>>

Admit(d) ==
  /\ Passes(d) /\ ~(Unmatched(d) /\ call[d].channel.bot)
  /\ call[d].role # "blocked" /\ Admitted(d)
  /\ Goto(d, "screen", "route")
  /\ UNCHANGED <<rowVars, runVars, poller, copies, sent, used, faults>>

Refuse(d) ==
  /\ ~IsEcho(d[1]) /\ ~IsCommand(d)
  /\ \/ ~call[d].channel.assistant
     \/ call[d].role = "blocked"
     \/ ~Admitted(d) /\ ~(Unmatched(d) /\ call[d].channel.bot)
  /\ Goto(d, "screen", "done")
  /\ pairing' = IF /\ call[d].channel.assistant /\ call[d].role # "blocked"
                   /\ DMPolicy = "pairing"
                THEN pairing \cup {Chat(d[1])} ELSE pairing
  /\ UNCHANGED <<channel, role, claimed, outbound, session, runVars, poller, copies, sent, used, faults>>

(* dispatchGatewayRun: the run of this chat that waits for an answer. *)
WaitingHere(p) == {r \in Events : Chat(r) = p /\ status[r] = "user_input_wait"}

(* SendUserInput: LoadAndDelete, and the send into the buffered channel. *)
AnswerRun(d) ==
  \E r \in WaitingHere(Chat(d[1])) \cap waiting :
    /\ Goto(d, "route", "done")
    /\ waiting' = waiting \ {r}
    /\ answer' = [answer EXCEPT ![r] = d[1]]
    /\ used' = used \cup {<<d, r>>}
    /\ UNCHANGED <<rowVars, status, conv, alive, asks, parked, poller, copies, sent, faults>>

(* ensureGatewayConversation: the session's conversation, or a new one. *)
EnsureConversation(d) ==
  LET e == d[1] IN
  /\ WaitingHere(Chat(e)) \cap waiting = {}
  /\ call[d].at = "route"
  /\ call' = [call EXCEPT ![d].at = "dispatch",
                          ![d].conv = IF session[Chat(e)] = NoEvent THEN e ELSE session[Chat(e)]]
  /\ UNCHANGED <<rowVars, runVars, poller, copies, sent, used, faults>>

(* UpsertSession keeps the conversation of a row it finds. *)
SessionConversation(d) ==
  IF session[Chat(d[1])] = NoEvent THEN call[d].conv ELSE session[Chat(d[1])]

(* The session, the user's message and the run; its goroutine and poller.  *)
(* When the agent cannot be loaded the pending run stays behind.           *)
Dispatch(d) ==
  LET e == d[1] IN
  /\ Goto(d, "dispatch", "done")
  /\ session' = [session EXCEPT ![Chat(e)] = IF @ = NoEvent THEN call[d].conv ELSE @]
  /\ conv' = [conv EXCEPT ![e] = SessionConversation(d)]
  /\ status' = [status EXCEPT ![e] = "pending"]
  /\ used' = used \cup {<<d, e>>}
  /\ \/ /\ alive' = alive \cup {e}
        /\ poller' = [poller EXCEPT ![e] = "polling"]
        /\ UNCHANGED faults
     \/ Fault /\ UNCHANGED <<alive, poller>>
  /\ UNCHANGED <<channel, role, claimed, outbound, pairing, waiting, answer, asks, parked, copies, sent>>

-----------------------------------------------------------------------------
(* executeRun, as far as the gateway sees it *)

(* The conversation's mutex, then the claim of the row. *)
MyTurn(r) == \A x \in alive \ {r} : conv[x] = conv[r] => status[x] \notin Executing
StartRun(r) ==
  /\ r \in alive /\ status[r] = "pending" /\ MyTurn(r)
  /\ status' = [status EXCEPT ![r] = "running"]
  /\ UNCHANGED <<rowVars, conv, alive, waiting, answer, asks, parked, call, poller, copies, sent, used, faults>>

EndRun(r) ==
  /\ r \in alive /\ status[r] = "running" /\ r \notin waiting
  /\ \E s \in {"success", "failed"} : status' = [status EXCEPT ![r] = s]
  /\ alive' = alive \ {r}
  /\ UNCHANGED <<rowVars, conv, waiting, answer, asks, parked, call, poller, copies, sent, used, faults>>

(* A run that waits for a coding session returns; ResumeSessionRun starts  *)
(* a goroutine for it when the session ends.  A run parks once here.       *)
ParkRun(r) ==
  /\ r \in alive /\ status[r] = "running" /\ r \notin waiting
  /\ r \notin parked /\ parked' = parked \cup {r}
  /\ status' = [status EXCEPT ![r] = "session_wait"] /\ alive' = alive \ {r}
  /\ UNCHANGED <<rowVars, conv, waiting, answer, asks, call, poller, copies, sent, used, faults>>
ResumeRun(r) ==
  /\ status[r] = "session_wait" /\ MyTurn(r)
  /\ status' = [status EXCEPT ![r] = "running"] /\ alive' = alive \cup {r}
  /\ UNCHANGED <<rowVars, conv, waiting, answer, asks, parked, call, poller, copies, sent, used, faults>>

(* WaitForUserInput sends the question, registers its channel, and then    *)
(* sets the status by which dispatchGatewayRun finds it.                   *)
AskUser(r) ==
  /\ r \in alive /\ status[r] = "running" /\ r \notin waiting /\ asks[r] < MaxAsks
  /\ asks' = [asks EXCEPT ![r] = @ + 1]
  /\ waiting' = waiting \cup {r} /\ answer' = [answer EXCEPT ![r] = NoEvent]
  /\ UNCHANGED <<rowVars, status, conv, alive, parked, call, poller, copies, sent, used, faults>>
MarkAsking(r) ==
  /\ r \in alive /\ status[r] = "running" /\ r \in waiting
  /\ status' = [status EXCEPT ![r] = "user_input_wait"]
  /\ UNCHANGED <<rowVars, conv, alive, waiting, answer, asks, parked, call, poller, copies, sent, used, faults>>
TakeAnswer(r) ==
  /\ status[r] = "user_input_wait" /\ answer[r] # NoEvent
  /\ status' = [status EXCEPT ![r] = "running"]
  /\ answer' = [answer EXCEPT ![r] = NoEvent]
  /\ UNCHANGED <<rowVars, conv, alive, waiting, asks, parked, call, poller, copies, sent, used, faults>>
TimesOut(r) == status[r] = "user_input_wait"
AskTimesOut(r) ==
  /\ TimesOut(r)
  /\ waiting' = waiting \ {r} /\ answer' = [answer EXCEPT ![r] = NoEvent]
  /\ status' = [status EXCEPT ![r] = "running"]
  /\ UNCHANGED <<rowVars, conv, alive, asks, parked, call, poller, copies, sent, used, faults>>

(* Cancel writes the status and cancels the goroutine's context, which     *)
(* takes its channel back; a queued goroutine returns at its turn.         *)
CancelRun(r) ==
  /\ status[r] \in {"pending", "running", "user_input_wait", "session_wait"}
  /\ Fault
  /\ status' = [status EXCEPT ![r] = "cancelled"]
  /\ alive' = alive \ {r} /\ waiting' = waiting \ {r}
  /\ UNCHANGED <<rowVars, conv, answer, asks, parked, call, poller, copies, sent, used>>

-----------------------------------------------------------------------------
(* deliverWhenComplete and SendWhatsApp *)

StillRuns(r) == status[r] \in {"pending", "running", "user_input_wait"}

(* SendWhatsApp records the text, and then posts it to the adapter. *)
RecordOutbound(r, kind) == outbound' = outbound \cup {<<Chat(r), <<r[1], kind>>>>}
Deliver(r, kind) ==
  /\ poller[r] = "polling"
  /\ poller' = [poller EXCEPT ![r] = kind]
  /\ RecordOutbound(r, kind)
  /\ UNCHANGED <<channel, role, claimed, pairing, session, runVars, call, copies, sent, used, faults>>

PollSuccess(r) == status[r] = "success" /\ Deliver(r, "answer")
PollFailure(r) == ~StillRuns(r) /\ status[r] # "success" /\ Deliver(r, "apology")
(* The deadline is armed anew while the run is pending. *)
PollTimeout(r) == status[r] # "pending" /\ Deliver(r, "apology")

Return(r) == poller[r] \in {"answer", "apology"} /\ poller' = [poller EXCEPT ![r] = "done"]
PostReply(r) ==
  /\ Return(r)
  /\ \/ sent' = sent \cup {<<r, poller[r]>>} /\ UNCHANGED faults
     \/ Fault /\ UNCHANGED sent     \* the adapter reports an error
  /\ UNCHANGED <<rowVars, runVars, call, copies, used>>

(* The API restarts: requests, goroutines, pollers and the registry are    *)
(* gone, and the boot sweep fails what they left (module RunLifecycle).    *)
Restart ==
  /\ Fault
  /\ call' = [d \in Requests |-> IF call[d].at = "idle" THEN call[d] ELSE [call[d] EXCEPT !.at = "done"]]
  /\ alive' = {} /\ waiting' = {} /\ answer' = [e \in Events |-> NoEvent]
  /\ poller' = [e \in Events |-> IF poller[e] = "off" THEN "off" ELSE "done"]
  /\ status' = [e \in Events |-> IF status[e] \in {"pending"} \cup Executing THEN "failed" ELSE status[e]]
  /\ UNCHANGED <<rowVars, conv, asks, parked, copies, sent, used>>

-----------------------------------------------------------------------------
Serve(d) ==
  \/ Claim(d) \/ DropEcho(d) \/ OwnerCommand(d) \/ AutoApprove(d) \/ Admit(d) \/ Refuse(d)
  \/ AnswerRun(d) \/ EnsureConversation(d) \/ Dispatch(d)
Progress(r) ==
  \/ StartRun(r) \/ EndRun(r) \/ MarkAsking(r) \/ TakeAnswer(r) \/ AskTimesOut(r) \/ ResumeRun(r)
Poll(r) == PollSuccess(r) \/ PollFailure(r) \/ PollTimeout(r) \/ PostReply(r)

InboxNext ==
  \/ \E d \in Posted : Receive(d) \/ Serve(d)
  \/ \E r \in Runs : Progress(r) \/ ParkRun(r) \/ AskUser(r) \/ CancelRun(r) \/ Poll(r)
  \/ Restart

InboxSpec == InboxInit /\ [][InboxNext]_inboxVars

(* The server serves its requests to the end, the steps of runs end        *)
(* (modules RunLifecycle and SessionWait), and pollers tick every 200 ms.  *)
(* Each kind of work is finite, so no request, run or poller can starve    *)
(* the others of its kind.                                                 *)
InboxFairness ==
  /\ WF_inboxVars(\E d \in Posted : Serve(d))
  /\ WF_inboxVars(\E r \in Runs : Progress(r))
  /\ WF_inboxVars(\E r \in Runs : Poll(r))

-----------------------------------------------------------------------------
(* Properties *)

Statuses == {"pending", "session_wait", "success", "failed", "cancelled"} \cup Executing

(* Types; only runs that execute or queue have a goroutine, and only they  *)
(* are in the registry of runs that wait for an answer.                    *)
InboxTypeOK ==
  /\ channel \in [assistant : BOOLEAN, bot : BOOLEAN]
  /\ role \in [Peers -> {None, "owner", "trusted", "blocked"}]
  /\ claimed \subseteq Events /\ pairing \subseteq Peers
  /\ session \in [Peers -> Events \cup {NoEvent}] /\ conv \in [Events -> Events \cup {NoEvent}]
  /\ status \in [Events -> Statuses \cup {None}]
  /\ alive \subseteq {e \in Events : status[e] \in {"pending"} \cup Executing}
  /\ waiting \subseteq alive /\ answer \in [Events -> Events \cup {NoEvent}]
  /\ copies \in Loads /\ poller \in [Events -> {"off", "polling", "answer", "apology", "done"}]
  /\ sent \subseteq Events \X {"answer", "apology"} /\ used \subseteq Requests \X Events
  /\ asks \in [Events -> 0..MaxAsks] /\ parked \subseteq Events /\ faults \in 0..MaxFaults

(* However often the adapter posts a message, and however the requests     *)
(* overlap, it starts one run or answers one question, never both          *)
(* (CreateEvent's claim, before the run is dispatched).                    *)
OneUsePerMessage == \A u, v \in used : u[1][1] = v[1][1] => u = v

(* A text the channel sent comes back as an event of the account itself    *)
(* and is never dispatched: the outbound row is there before the text      *)
(* leaves (handleInbound's echo guard).                                    *)
EchoStartsNothing == \A u \in used : u[1][1] \in Typed

(* The runs of one chat take turns: its first messages may race for the    *)
(* session and still share a conversation, whose mutex executeRun holds.   *)
RunsTakeTurns ==
  \A p \in Peers : Cardinality({r \in alive : Chat(r) = p /\ status[r] \in Executing}) <= 1

(* The pollers end: a run that queues behind one that waits for an answer  *)
(* nobody gives still gets its turn, and its sender an outcome.            *)
Busy == \E r \in Events : poller[r] \notin {"off", "done"}
PollersEnd == Busy ~> ~Busy

=============================================================================
