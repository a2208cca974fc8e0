------------------------------ MODULE MCGateway ------------------------------
(* The parts of the gateway, each in behaviours of its own: `part` says which  *)
(* one moves, the others stay at their first state.                            *)
EXTENDS GatewayInbox, GatewaySchedule, GatewayContacts
VARIABLE part

(* A channel in dm_policy "pairing" with a stranger, a blocked contact, and *)
(* an owner who turns bot mode on and talks to the assistant in the chat of *)
(* the account with itself.  Each load lets a few requests overlap: the     *)
(* command and the others' messages; the echo of an answer to the owner;    *)
(* two messages of the owner; one that the adapter posts twice.             *)
MCNames == {"b1", "b2", "s1", "s2", "bot"}
MCPeers == {"stranger", "foe", "self"}
MCFrom == [m \in MCNames |-> CASE m = "b1" -> "stranger" [] m = "b2" -> "foe" [] OTHER -> "self"]
MCSays == [m \in MCNames |-> IF m = "bot" THEN "enable bot mode" ELSE "talk"]
MCRoles == [p \in MCPeers |-> IF p = "foe" THEN "blocked" ELSE "none"]
Load(once, twice) ==
  [e \in Events |-> IF e \in twice THEN 2 ELSE IF e \in once THEN 1 ELSE 0]
T(m) == <<m, "typed">>
TwoOfTheOwner == Load({T("s1"), T("s2")}, {})
MCLoads == {
  Load({T("bot"), T("b1"), T("b2")}, {}),
  Load({T("b1"), T("s1"), <<"s1", "answer">>, <<"s1", "apology">>}, {}),
  TwoOfTheOwner,
  Load({T("b2")}, {T("s1")})}

\* A reminder, and a series of at most two messages that ends at 4.
MCInterval == [i \in {"series"} |-> 1]
MCMax == [i \in {"series"} |-> 2]
MCEnd == [i \in {"series"} |-> 4]
MCDue == [i \in {"rem", "series"} |-> 1]

\* Decisions on a stranger against other writes of contacts, sends against blocks,
\* switches and the adapter, escalations and their answers.
MCFirst == [p \in {"own", "foe", "new"} |->
              CASE p = "own" -> "owner" [] p = "foe" -> "blocked" [] OTHER -> "none"]
MCTasks == {<<"message", "decide", "decide">>, <<"decide", "edit", "toggle">>, <<"decide", "remove", "message">>,
            <<"decide", "add", "import">>, <<"send", "toggle", "none">>, <<"delete", "decide", "send">>,
            <<"command", "approve", "none">>, <<"ask", "approve", "resolve">>, <<"login", "logout", "none">>,
            <<"page", "boot", "none">>}

Init ==
  /\ InboxInit /\ ScheduleInit /\ ContactsInit /\ part \in {"inbox", "schedule", "contacts"}
  /\ part = "inbox" \/ copies = TwoOfTheOwner
  /\ part = "contacts" \/ (desk[1].kind = "message" /\ Cardinality(pairings) = 1 /\ ~adapter.in /\ "self" \in settings)

Next ==
  \/ part = "inbox" /\ InboxNext /\ UNCHANGED <<part, scheduleVars, contactsVars>>
  \/ part = "schedule" /\ ScheduleNext /\ UNCHANGED <<part, inboxVars, contactsVars>>
  \/ part = "contacts" /\ ContactsNext /\ UNCHANGED <<part, inboxVars, scheduleVars>>

vars == <<part, inboxVars, scheduleVars, contactsVars>>
\* Fair to the part that moves: InboxFairness and ScheduleFairness.
FairSpec ==
  /\ Init /\ [][Next]_vars
  /\ WF_inboxVars(part = "inbox" /\ \E d \in Posted : Serve(d))
  /\ WF_inboxVars(part = "inbox" /\ \E r \in Runs : Progress(r))
  /\ WF_inboxVars(part = "inbox" /\ \E r \in Runs : Poll(r))
  /\ \A k \in Kinds : WF_scheduleVars(part = "schedule" /\ DispatchDue(k))

TypeOK == InboxTypeOK /\ ScheduleTypeOK /\ ContactsTypeOK
=============================================================================
