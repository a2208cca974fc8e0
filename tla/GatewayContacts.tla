---------------------------- MODULE GatewayContacts ----------------------------
(* Who may talk on a WhatsApp channel, and who decides: its contacts, pairing      *)
(* requests and escalations, and its switches, changed by pages, owner commands    *)
(* and agents' tools at the same time, and what of them is pushed to the adapter.  *)
(* Source: handler/gateway.go, repository/gateway.go, tools/native/whatsapp.go,    *)
(* gateway/service.go.  The adapter is external.                                   *)
EXTENDS Naturals, FiniteSets

CONSTANTS
  Senders,        \* people, each with one phone number and JID
  FirstRoles,     \* the contacts the channel starts with
  Tasks,          \* HTTP requests, owner commands and tool calls
  TaskLoads,      \* bound: the kinds of tasks that overlap
  SearchCap,      \* SearchContacts' cap: 10 in the code
  MaxSlips        \* bound: failed statements and restarts

Flags == {"approvals", "bot", "assistant", "self"}
Decisions == {"approved", "rejected"}
Errands == {"message", "decide", "edit", "add", "remove", "toggle", "import", "command", "page",
            "login", "logout", "boot", "delete", "ask", "approve", "resolve", "send", "none"}
ContactRoles == {"owner", "trusted", "blocked"}
ASSUME ContactsAssumption ==
  /\ IsFiniteSet(Senders) /\ FirstRoles \in [Senders -> ContactRoles \cup {"none"}]
  /\ Tasks \subseteq Nat \ {0} /\ TaskLoads \subseteq [Tasks -> Errands]
  /\ SearchCap \in Nat \ {0} /\ MaxSlips \in Nat

VARIABLES
  open,         \* the row of gateway_channels is there
  settings,     \* the switches that are on in its config
  contact,      \* gateway_contacts: sender -> [id, role, reply], id 0 for none
  pairings,     \* gateway_pairing_requests: [id, of, status]
  escalation,   \* gateway_escalations by the task that asked: [status, told]
  outbox,       \* gateway_outbound_messages: [by, to, source, status, barred]
  adapter,      \* the adapter's account: [in, self, phones]
  desk,         \* a task: [kind, at, who, row, flags, sees]
  lastId,
  barred,       \* history: senders blocked ever since a send began
  verdict,      \* history: the role that the last pairing decision has given, unless contested
  slips

contactRows == <<open, settings, contact, pairings, escalation, outbox, lastId>>
contactHist == <<barred, verdict, slips>>
contactsVars == <<contactRows, adapter, desk, contactHist>>

NoContact == [id |-> 0, role |-> "none", reply |-> FALSE]
NewTask(kind) == [kind |-> kind, at |-> "idle", who |-> "none", row |-> NoContact, flags |-> {}, sees |-> {}]

\* A request of somebody who is no contact, perhaps not the first one.
ContactsInit ==
  /\ open = TRUE /\ settings \in {{"approvals", "assistant", "self"}, {"bot", "assistant"}}
  /\ contact = [p \in Senders |-> IF FirstRoles[p] = "none" THEN NoContact
                                  ELSE [id |-> 1, role |-> FirstRoles[p], reply |-> FirstRoles[p] # "blocked"]]
  /\ \E p \in {x \in Senders : FirstRoles[x] = "none"} :
       pairings \in {{[id |-> 1, of |-> p, status |-> "pending"]},
                     {[id |-> 1, of |-> p, status |-> "pending"], [id |-> 2, of |-> p, status |-> "approved"]}}
  /\ escalation = [t \in Tasks \cup {0} |-> [status |-> IF t = 0 THEN "pending" ELSE "none", told |-> {}]]
  /\ outbox = {} /\ adapter = [in |-> "bot" \in settings, self |-> FALSE, phones |-> {}]
  /\ \E kinds \in TaskLoads : desk = [t \in Tasks |-> NewTask(kinds[t])]
  /\ lastId = 2 /\ barred = [t \in Tasks |-> {}] /\ verdict = [p \in Senders |-> "none"] /\ slips = 0

Stands(t, kind, at) == desk[t].kind = kind /\ desk[t].at = at
Step(t, to) == desk' = [desk EXCEPT ![t].at = to]
Close(t) == desk' = [desk EXCEPT ![t] = [NewTask(@.kind) EXCEPT !.at = "done"]]
Slip == slips < MaxSlips /\ slips' = slips + 1

Known == {p \in Senders : contact[p].id # 0}
Blocked == {p \in Senders : contact[p].role = "blocked"}
Owners == {p \in Senders : contact[p].role = "owner" /\ contact[p].reply}
Deciding(t) == desk[t].kind = "decide" /\ desk[t].at \in {"contact", "find", "flip"}

\* Every write of a contact.  One that is not the last decision's own leaves no verdict.
WriteContact(t, p, c) ==
  /\ contact' = [contact EXCEPT ![p] = c]
  /\ barred' = [u \in Tasks |-> IF c.role = "blocked" THEN barred[u] ELSE barred[u] \ {p}]
  /\ verdict' = IF Deciding(t) THEN verdict ELSE [verdict EXCEPT ![p] = "none"]

\* INSERT: a channel that is there, and nobody's number or JID.
Insertable(p) == open /\ contact[p].id = 0
CreateContact(t, p, role, reply) ==
  IF Insertable(p)
  THEN WriteContact(t, p, [id |-> lastId + 1, role |-> role, reply |-> reply]) /\ lastId' = lastId + 1
  ELSE UNCHANGED <<contact, barred, verdict, lastId>>

\* UPDATE by id, of all columns: nothing happens if the row has gone.
UpdateContact(t, p, c) ==
  IF contact[p].id = c.id THEN WriteContact(t, p, c) ELSE UNCHANGED <<contact, barred, verdict>>

(* ------------------------------ Faulty variants ------------------------------ *)

\* the page of contacts is taken in any order
SearchUnordered ==
  {S \in SUBSET Known : Cardinality(S) = SearchCap \/ (S = Known /\ Cardinality(S) < SearchCap)}

\* a sender who has a contact by now keeps it as it is
AddPairedOnly(t) ==
  /\ Stands(t, "decide", "contact") /\ Close(t)
  /\ CreateContact(t, desk[t].who, desk[t].row.role, desk[t].row.reply)
  /\ UNCHANGED <<open, settings, pairings, escalation, outbox, adapter, slips>>

(* -------------------------- Strangers and pairings --------------------------- *)

\* handleInbound finds no contact; what follows uses the switches it has read.
StrangerWrites(t) ==
  /\ Stands(t, "message", "idle") /\ open
  /\ \E p \in Senders \ Known : desk' = [desk EXCEPT ![t].who = p, ![t].flags = settings, ![t].at = "request"]
  /\ UNCHANGED <<contactRows, adapter, contactHist>>

AutoApproveBotSender(t) ==
  /\ Stands(t, "message", "request") /\ {"assistant", "bot"} \subseteq desk[t].flags
  /\ Close(t) /\ CreateContact(t, desk[t].who, "trusted", TRUE)
  /\ UNCHANGED <<open, settings, pairings, escalation, outbox, adapter, slips>>

\* CreatePairing: one pending row per sender (dm_policy "pairing").
RequestPairing(t) ==
  /\ Stands(t, "message", "request") /\ ~({"assistant", "bot"} \subseteq desk[t].flags)
  /\ Close(t)
  /\ IF /\ open /\ "assistant" \in desk[t].flags
        /\ ~\E r \in pairings : r.of = desk[t].who /\ r.status = "pending"
     THEN /\ pairings' = pairings \cup {[id |-> lastId + 1, of |-> desk[t].who, status |-> "pending"]}
          /\ lastId' = lastId + 1
     ELSE UNCHANGED <<pairings, lastId>>
  /\ UNCHANGED <<open, settings, contact, escalation, outbox, adapter, contactHist>>

\* UpdatePairingStatus, whatever the status; one row of a sender per status.
Decide(t) ==
  /\ Stands(t, "decide", "idle")
  /\ \E r \in pairings, s \in Decisions :
       LET role == IF s = "approved" THEN "trusted" ELSE "blocked" IN
       IF \E o \in pairings \ {r} : o.of = r.of /\ o.status = s
       THEN Close(t) /\ UNCHANGED <<pairings, verdict>>
       ELSE /\ pairings' = (pairings \ {r}) \cup {[r EXCEPT !.status = s]}
            /\ desk' = [desk EXCEPT ![t].who = r.of, ![t].at = "contact",
                                    ![t].row = [id |-> 0, role |-> role, reply |-> role = "trusted"]]
            /\ verdict' = [verdict EXCEPT ![r.of] = IF \E u \in Tasks : Deciding(u) /\ desk[u].who = r.of
                                                    THEN "none" ELSE role]
  /\ UNCHANGED <<open, settings, contact, escalation, outbox, lastId, adapter, barred, slips>>

\* createContactFromPairing: "the sender may already have a contact row", ...
AddPaired(t) ==
  /\ Stands(t, "decide", "contact")
  /\ LET p == desk[t].who IN
       /\ IF Insertable(p) THEN Close(t) ELSE Step(t, "find")
       /\ CreateContact(t, p, desk[t].row.role, desk[t].row.reply)
  /\ UNCHANGED <<open, settings, pairings, escalation, outbox, adapter, slips>>

\* ... which is matched, or is not (the error is logged), ...
FindPaired(t) ==
  /\ Stands(t, "decide", "find")
  /\ LET p == desk[t].who IN
       IF p \in Known THEN desk' = [desk EXCEPT ![t].row.id = contact[p].id, ![t].at = "flip"]
                           /\ UNCHANGED verdict
       ELSE Close(t) /\ verdict' = [verdict EXCEPT ![p] = "none"]
  /\ UNCHANGED <<contactRows, adapter, barred, slips>>

\* ... and gets the decision's role.
FlipPaired(t) ==
  /\ Stands(t, "decide", "flip") /\ Close(t) /\ UpdateContact(t, desk[t].who, desk[t].row)
  /\ UNCHANGED <<open, settings, pairings, escalation, outbox, lastId, adapter, slips>>

(* --------------------------------- Contacts ---------------------------------- *)

\* The page's GetContact: the role is sent or left out, auto_reply always set.
EditContact(t) ==
  /\ Stands(t, "edit", "idle")
  /\ \E p \in Known, reply \in BOOLEAN, role \in ContactRoles :
       desk' = [desk EXCEPT ![t].who = p, ![t].at = "write",
                            ![t].row = [id |-> contact[p].id, role |-> role, reply |-> reply]]
  /\ UNCHANGED <<contactRows, adapter, contactHist>>

\* handleOwnerContactToggle: one match is changed; several, or none to stop, are answered.
ToggleContact(t) ==
  /\ Stands(t, "toggle", "idle") /\ open /\ ("self" \in settings \/ Owners # {})
  /\ \E M \in SUBSET Known, enable \in BOOLEAN :
       \/ \E p \in M :
            /\ M = {p}
            /\ desk' = [desk EXCEPT ![t].who = p, ![t].at = "write",
                 ![t].row = [contact[p] EXCEPT !.reply = enable,
                                               !.role = IF enable /\ @ = "blocked" THEN "trusted" ELSE @]]
       \/ M = {} /\ enable /\ \E p \in Senders : desk' = [desk EXCEPT ![t].who = p, ![t].at = "insert"]
       \/ (Cardinality(M) > 1 \/ M = {}) /\ Close(t)
  /\ UNCHANGED <<contactRows, adapter, contactHist>>

\* The row as it was read, with the change; a page then pushes the phones.
SaveContact(t) ==
  /\ desk[t].kind \in {"edit", "toggle"} /\ desk[t].at = "write"
  /\ UpdateContact(t, desk[t].who, desk[t].row)
  /\ IF desk[t].kind = "edit" THEN Step(t, "phones") ELSE Close(t)
  /\ UNCHANGED <<open, settings, pairings, escalation, outbox, lastId, adapter, slips>>

\* "start Name +Phone" of an owner.
AddFromChat(t) ==
  /\ Stands(t, "toggle", "insert") /\ Close(t) /\ CreateContact(t, desk[t].who, "trusted", TRUE)
  /\ UNCHANGED <<open, settings, pairings, escalation, outbox, adapter, slips>>

AddContact(t) ==
  /\ Stands(t, "add", "idle") /\ open
  /\ \E p \in Senders, role \in ContactRoles, reply \in BOOLEAN :
       CreateContact(t, p, role, reply) /\ IF Insertable(p) THEN Step(t, "phones") ELSE Close(t)
  /\ UNCHANGED <<open, settings, pairings, escalation, outbox, adapter, slips>>

RemoveContact(t) ==
  /\ Stands(t, "remove", "idle") /\ Close(t)
  /\ \E p \in Known : WriteContact(t, p, NoContact)
  /\ UNCHANGED <<open, settings, pairings, escalation, outbox, lastId, adapter, slips>>

\* AdapterSyncContacts: those of the adapter that nobody has yet, without replies.
FetchContacts(t) ==
  /\ Stands(t, "import", "idle") /\ open
  /\ \/ \E S \in SUBSET Senders : desk' = [desk EXCEPT ![t].sees = S, ![t].at = "each"]
     \/ Close(t)
  /\ UNCHANGED <<contactRows, adapter, contactHist>>
ImportContact(t) ==
  /\ Stands(t, "import", "each")
  /\ \/ \E p \in desk[t].sees :
          /\ CreateContact(t, p, "trusted", FALSE)
          /\ desk' = [desk EXCEPT ![t].sees = @ \ {p}]
     \/ desk[t].sees = {} /\ Close(t) /\ UNCHANGED <<contact, barred, verdict, lastId>>
  /\ UNCHANGED <<open, settings, pairings, escalation, outbox, adapter, slips>>

(* -------------------------- Switches and the adapter -------------------------- *)

Toggled(F, f) == IF f \in F THEN F \ {f} ELSE F \cup {f}
ReadSettings(t) ==
  /\ desk[t].kind \in {"command", "page"} /\ desk[t].at = "idle" /\ open
  /\ desk[t].kind = "command" => "self" \in settings \/ Owners # {}
  /\ \E f \in IF desk[t].kind = "page" THEN Flags ELSE Flags \ {"self"} :
       desk' = [desk EXCEPT ![t].flags = Toggled(settings, f), ![t].at = "store"]
  /\ UNCHANGED <<contactRows, adapter, contactHist>>

\* The whole row; a page then pushes the configuration.
UpdateChannel(t) ==
  /\ desk[t].kind \in {"command", "page"} /\ desk[t].at = "store"
  /\ settings' = IF open THEN desk[t].flags ELSE settings
  /\ IF desk[t].kind = "page" THEN Step(t, "push") ELSE Close(t)
  /\ UNCHANGED <<open, contact, pairings, escalation, outbox, lastId, adapter, contactHist>>

\* ListContactPhones: not the owners'.
Phones == {p \in Known : contact[p].role # "owner"}

\* login/start takes self_chat_enabled for a new connection only; config takes it always.
PushPhones(t) ==
  /\ desk[t].at = "phones" /\ Close(t)
  /\ adapter' \in {adapter, [adapter EXCEPT !.phones = @ \cup Phones]}
  /\ UNCHANGED <<contactRows, contactHist>>
AdapterLoginStart(t) ==
  /\ desk[t].kind \in {"login", "boot"} /\ desk[t].at = "idle"
  /\ desk' = [desk EXCEPT ![t].flags = settings, ![t].at = IF open THEN "connect" ELSE "done"]
  /\ UNCHANGED <<contactRows, adapter, contactHist>>
LoginStart(t) ==
  /\ desk[t].at = "connect"
  /\ adapter' \in {adapter, [in |-> TRUE, phones |-> adapter.phones \cup Phones,
                             self |-> IF adapter.in THEN adapter.self ELSE "self" \in desk[t].flags]}
  /\ IF desk[t].kind = "boot" THEN Step(t, "push") ELSE Close(t)
  /\ UNCHANGED <<contactRows, contactHist>>
SyncAdapterConfig(t) ==
  /\ desk[t].at = "push" /\ Close(t)
  /\ adapter' \in {adapter, [adapter EXCEPT !.self = "self" \in desk[t].flags]}
  /\ UNCHANGED <<contactRows, contactHist>>
\* The page's button, or DeleteChannel's first step, which goes on whatever the answer.
AdapterLogout(t) ==
  /\ desk[t].kind \in {"logout", "delete"} /\ desk[t].at = "idle" /\ open
  /\ adapter' \in {adapter, [adapter EXCEPT !.in = FALSE]}
  /\ IF desk[t].kind = "delete" THEN Step(t, "delete") ELSE Close(t)
  /\ UNCHANGED <<contactRows, contactHist>>
\* Everything of the channel goes with it (ON DELETE CASCADE).
DeleteChannel(t) ==
  /\ Stands(t, "delete", "delete") /\ Close(t)
  /\ open' = FALSE /\ settings' = {} /\ contact' = [p \in Senders |-> NoContact]
  /\ pairings' = {} /\ outbox' = {} /\ escalation' = [e \in DOMAIN escalation |-> [status |-> "none", told |-> {}]]
  /\ barred' = [u \in Tasks |-> {}] /\ verdict' = [p \in Senders |-> "none"]
  /\ UNCHANGED <<lastId, adapter, slips>>

(* -------------------------------- Escalations --------------------------------- *)

\* whatsapp_request_owner_approval: the row first, ...
CreateEscalation(t) ==
  /\ Stands(t, "ask", "idle") /\ open /\ Step(t, "owners")
  /\ escalation' = [escalation EXCEPT ![t].status = "pending"]
  /\ UNCHANGED <<open, settings, contact, pairings, outbox, lastId, adapter, contactHist>>
\* ... then a message to each owner.
ListOwnerContacts(t) ==
  /\ Stands(t, "ask", "owners")
  /\ desk' = [desk EXCEPT ![t].sees = Owners, ![t].at = "next"]
  /\ UNCHANGED <<contactRows, adapter, contactHist>>
NextOwner(t) ==
  /\ Stands(t, "ask", "next")
  /\ \/ \E p \in desk[t].sees : desk' = [desk EXCEPT ![t].who = p, ![t].sees = @ \ {p}, ![t].at = "record"]
     \/ desk[t].sees = {} /\ Close(t)
  /\ UNCHANGED <<contactRows, adapter, contactHist>>

\* UPDATE ... WHERE status='pending' RETURNING: the page by id, an owner by code.
ResolveEscalation(t, e, s) ==
  IF escalation[e].status = "pending"
  THEN escalation' = [escalation EXCEPT ![e].status = s, ![e].told = @ \cup {s}]
  ELSE UNCHANGED escalation
\* "approve CODE": the switch is that of the row read when the message came in.
OwnerAnswers(t) ==
  /\ Stands(t, "approve", "idle") /\ open /\ ("self" \in settings \/ Owners # {})
  /\ IF "approvals" \in settings THEN Step(t, "resolve") ELSE Close(t)
  /\ UNCHANGED <<contactRows, adapter, contactHist>>
Resolve(t) ==
  /\ Stands(t, "approve", "resolve") \/ Stands(t, "resolve", "idle")
  /\ Close(t) /\ \E e \in DOMAIN escalation, s \in Decisions : ResolveEscalation(t, e, s)
  /\ UNCHANGED <<open, settings, contact, pairings, outbox, lastId, adapter, contactHist>>

(* --------------------------- An agent's own messages --------------------------- *)

\* SearchContacts without a query: blocked, owner, trusted, whichever come first.
Rank(p) == CASE contact[p].role = "blocked" -> 0 [] contact[p].role = "owner" -> 1 [] OTHER -> 2
SearchContacts ==
  {S \in SUBSET Known : /\ Cardinality(S) = SearchCap \/ (S = Known /\ Cardinality(S) < SearchCap)
                        /\ \A p \in S, q \in Known \ S : Rank(p) <= Rank(q)}

\* contextFor: the channel is there.  From now on no blocked sender may be reached.
BeginSend(t) ==
  /\ Stands(t, "send", "idle") /\ open /\ Step(t, "resolve")
  /\ barred' = [barred EXCEPT ![t] = Blocked]
  /\ UNCHANGED <<contactRows, adapter, verdict, slips>>

\* resolveRecipient, by contact id, by the one of a name's matches that is not blocked, ...
ResolveContact(t) ==
  /\ Stands(t, "send", "resolve")
  /\ \/ \E S \in SUBSET Known : /\ Cardinality(S) <= SearchCap
                                /\ \E p \in S : /\ S \ Blocked = {p}
                                                /\ desk' = [desk EXCEPT ![t].who = p, ![t].at = "record"]
     \/ Close(t)
  /\ UNCHANGED <<contactRows, adapter, contactHist>>
\* ... or by number or JID, after a look at the page of contacts that blockedRecipient gets.
ResolveAddress(t) ==
  /\ Stands(t, "send", "resolve")
  /\ \E p \in Senders, S \in SearchContacts :
       IF p \in S \cap Blocked THEN Close(t)
       ELSE desk' = [desk EXCEPT ![t].who = p, ![t].at = "record"]
  /\ barred' = IF Cardinality(Blocked) > SearchCap THEN [barred EXCEPT ![t] = {}] ELSE barred
  /\ UNCHANGED <<contactRows, adapter, verdict, slips>>

\* SendWhatsApp: the row, the adapter (five attempts while it connects), the outcome.
RecordSend(t) ==
  /\ desk[t].at = "record"
  /\ IF open THEN /\ Step(t, "post")
                  /\ outbox' = outbox \cup {[by |-> t, to |-> desk[t].who, source |-> desk[t].kind,
                                             status |-> "pending", barred |-> desk[t].who \in barred[t]]}
     ELSE Close(t) /\ UNCHANGED outbox
  /\ UNCHANGED <<open, settings, contact, pairings, escalation, lastId, adapter, contactHist>>
PostSend(t) ==
  /\ desk[t].at = "post"
  /\ \E s \in {"sent", "failed"} :
       outbox' = {IF m.by = t /\ m.to = desk[t].who THEN [m EXCEPT !.status = s] ELSE m : m \in outbox}
  /\ IF desk[t].kind = "ask" THEN Step(t, "next") ELSE Close(t)
  /\ UNCHANGED <<open, settings, contact, pairings, escalation, lastId, adapter, contactHist>>

(* -------------------------------- Surroundings --------------------------------- *)

\* A restart ends what was under way; so does a failed statement, for one task.
ContactsSlip ==
  /\ Slip
  /\ \E S \in SUBSET {t \in Tasks : desk[t].at \notin {"idle", "done"}} :
       /\ S # {}
       /\ desk' = [t \in Tasks |-> IF t \in S THEN [NewTask(desk[t].kind) EXCEPT !.at = "done"] ELSE desk[t]]
       /\ verdict' = [p \in Senders |-> IF \E t \in S : Deciding(t) /\ desk[t].who = p THEN "none" ELSE verdict[p]]
  /\ UNCHANGED <<contactRows, adapter, barred>>

Work(t) ==
  \/ StrangerWrites(t) \/ AutoApproveBotSender(t) \/ RequestPairing(t)
  \/ Decide(t) \/ AddPaired(t) \/ FindPaired(t) \/ FlipPaired(t)
  \/ EditContact(t) \/ ToggleContact(t) \/ SaveContact(t) \/ AddFromChat(t) \/ AddContact(t) \/ RemoveContact(t)
  \/ FetchContacts(t) \/ ImportContact(t) \/ ReadSettings(t) \/ UpdateChannel(t)
  \/ PushPhones(t) \/ AdapterLoginStart(t) \/ LoginStart(t) \/ SyncAdapterConfig(t) \/ AdapterLogout(t) \/ DeleteChannel(t)
  \/ CreateEscalation(t) \/ ListOwnerContacts(t) \/ NextOwner(t) \/ OwnerAnswers(t) \/ Resolve(t)
  \/ BeginSend(t) \/ ResolveContact(t) \/ ResolveAddress(t) \/ RecordSend(t) \/ PostSend(t)

ContactsNext == ContactsSlip \/ \E t \in Tasks : Work(t)
ContactsSpec == ContactsInit /\ [][ContactsNext]_contactsVars

(* --------------------------------- Properties ---------------------------------- *)

\* Every variable keeps its shape, and a sender has one pairing request per status.
ContactsTypeOK ==
  /\ open \in BOOLEAN /\ settings \subseteq Flags
  /\ contact \in [Senders -> [id : 0..lastId, role : ContactRoles \cup {"none"}, reply : BOOLEAN]]
  /\ \A r, o \in pairings : r.of = o.of /\ r.status = o.status => r = o
  /\ adapter \in [in : BOOLEAN, self : BOOLEAN, phones : SUBSET Senders]
  /\ barred \in [Tasks -> SUBSET Senders] /\ verdict \in [Senders -> {"none", "trusted", "blocked"}]

\* What an owner has decided is what the channel goes by.  A pairing decision, once its
\* request has ended, has given the sender its role, even if the sender had a contact by
\* then ("flip the existing row's role instead of leaving it stuck out of sync with the
\* pairing decision", createContactFromPairing), as long as nobody else has written that
\* contact or decided at the same time.  And of the pages and commands that resolve one
\* escalation, one alone is told that it did.
DecisionsStand ==
  /\ \A p \in Senders : verdict[p] = "none" \/ (\E t \in Tasks : Deciding(t) /\ desk[t].who = p)
       \/ (contact[p].role = verdict[p] /\ contact[p].reply = (verdict[p] = "trusted"))
  /\ \A e \in DOMAIN escalation : escalation[e].told \subseteq {escalation[e].status}

\* An agent's message goes to nobody who has been blocked since before the tool call
\* (resolveRecipient: "recipient is blocked"), as long as the page of contacts that
\* blockedRecipient looks at has room for all blocked ones.
BlockedNotMessaged ==
  \A m \in outbox : m.source = "send" => ~m.barred
================================================================================
