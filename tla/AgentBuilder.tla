---------------------------- MODULE AgentBuilder ----------------------------
(* Building an agent and its workflow: the pages of the web application, the    *)
(* native tools of running agents and the assistant's chat all edit one agent   *)
(* (its row, its tools, skills and connectors) and one workflow (the nodes of    *)
(* its graph).  Some replace a whole collection in a transaction, some add or    *)
(* remove an item, some write the row.  Transactions are READ COMMITTED: a       *)
(* DELETE removes what was committed when it began.  Source: handler/nexus_ai.go, *)
(* handler/agents.go, handler/groups.go, tools/native, repository.  Edges follow  *)
(* the nodes of their save; settings, names and prompts are content.             *)
EXTENDS Naturals, Sequences, FiniteSets

CONSTANTS
  Requests,    \* HTTP requests, native tool calls and tool calls of the chat
  Names,       \* tools, skills, connectors; a node of a save
  MaxIter,     \* maxIter: rounds of the chat (10 in the code)
  MaxCalls,    \* bound: tool calls of a round
  Ops          \* bound: what this instance tries

Collections == {"tools", "skills", "connectors", "nodes"}
Items == ({0} \cup Requests) \X Names   \* <<0, n>> has been there, <<q, n>> is q's new node
Old(S) == {0} \X S

ASSUME BuilderAssumption ==
  /\ Requests \subseteq Nat \ {0} /\ MaxIter \in Nat \ {0} /\ MaxCalls \in Nat \ {0}

VARIABLES
  held,       \* rows of agent_tools, agent_skills, agent_connectors, workflow_nodes
  agentRow,   \* [there, edits]: the row, the changes it contains
  parts,       \* parts a request has still to do
  removes,       \* what the DELETE of a request's open transaction removes
  copy,       \* the row as a request has read it
  state,      \* of a request: new, open, tx (its DELETE has run), done, failed
  chat,       \* [at, iter, calls, req]: off, model, tools; round; calls to come; call going on
  last,       \* history: for each collection, [want, late, gone] of the last replacement
  late        \* history: what others have committed since a request's DELETE

reqVars == <<parts, removes, copy, state>>
builderHist == <<last, late>>
builderVars == <<held, agentRow, reqVars, chat, builderHist>>

NoAgent == [there |-> FALSE, edits |-> {}]
Quiet == [at |-> "off", iter |-> 0, calls |-> 0, req |-> 0]

BuilderInit ==
  /\ held = [c \in Collections |-> {}]
  /\ \E there \in BOOLEAN : agentRow = [NoAgent EXCEPT !.there = there]
  /\ parts = [q \in Requests |-> <<>>] /\ removes = [q \in Requests |-> {}]
  /\ copy = [q \in Requests |-> NoAgent] /\ state = [q \in Requests |-> "new"]
  /\ chat = [Quiet EXCEPT !.at = "model"]
  /\ last = [c \in Collections |-> [want |-> {}, late |-> {}, gone |-> {}]]
  /\ late = [q \in Requests |-> {}]

(* A request is a sequence of parts; each part is a statement or a transaction. *)
Add(c, S) == [do |-> "add", coll |-> c, want |-> S]
Drop(c, S) == [do |-> "drop", coll |-> c, want |-> S]
Replace(c, S) == [do |-> "replace", coll |-> c, want |-> S]
Patch == [do |-> "patch", coll |-> "row", want |-> {}]
Read == [do |-> "read", coll |-> "row", want |-> {}]
Write == [do |-> "write", coll |-> "row", want |-> {}]
Row == [do |-> "row", coll |-> "row", want |-> {}]

(* ------------------------- Faulty variants ------------------------------- *)
(* Plausible bugs, each a variant of one definition below.                     *)

\* a replacement that only adds, for the new items alone are inserted
Merged(q, c) == held[c] \cup parts[q][1].want

(* ------------------------------ Requests --------------------------------- *)

Start(q, todo) ==
  /\ state[q] = "new" /\ \A p \in Requests : p < q => state[p] # "new"
  /\ state' = [state EXCEPT ![q] = "open"]
  /\ parts' = [parts EXCEPT ![q] = todo]
  /\ UNCHANGED <<held, agentRow, removes, copy, builderHist>>

New(q, S) == {q} \X S

\* Pages: each request replaces one collection, or reads and writes the row.
SetTools(q, S) == agentRow.there /\ Start(q, <<Replace("tools", Old(S))>>)
SetForAgent(q, S) == agentRow.there /\ Start(q, <<Replace("skills", Old(S))>>)
SetConnectors(q, S) == agentRow.there /\ Start(q, <<Replace("connectors", Old(S))>>)
Update(q) == agentRow.there /\ Start(q, <<Read, Write>>)
\* The editor keeps the ids of nodes it has loaded and makes new ones.
SaveGraph(q, S) == \E keep \in SUBSET held["nodes"] : Start(q, <<Replace("nodes", keep \cup New(q, S))>>)
Create(q) == ~agentRow.there /\ Start(q, <<Row>>)

\* Native tools and the chat's tools: one item, or a graph with ids of its own.
AttachTool(q, n) == agentRow.there /\ Start(q, <<Add("tools", Old({n}))>>)
DetachTool(q, n) == agentRow.there /\ Start(q, <<Drop("tools", Old({n}))>>)
\* ... with the tools the skill requires, here those of its name
AttachSkill(q, n) == agentRow.there /\ Start(q, <<Add("skills", Old({n})), Add("tools", Old({n}))>>)
DetachSkill(q, n) == agentRow.there /\ Start(q, <<Drop("skills", Old({n}))>>)
AttachConnector(q, n) ==
  agentRow.there /\ Start(q, <<Add("connectors", Old({n})), Patch>>)
DetachConnector(q, n) == agentRow.there /\ Start(q, <<Drop("connectors", Old({n}))>>)
UpdateAgent(q) == agentRow.there /\ Start(q, <<Patch>>)
ReplaceGraph(q, S) == Start(q, <<Replace("nodes", New(q, S))>>)

\* The chat: the same changes one by one ...
ToolAttachToolToAgent(q, n) == AttachTool(q, n)
ToolDetachToolFromAgent(q, n) == DetachTool(q, n)
ToolAttachConnectorToAgent(q, n) == AttachConnector(q, n)
ToolDetachConnectorFromAgent(q, n) == DetachConnector(q, n)
ToolAttachSkills(q, S) == SetForAgent(q, S)
ToolSaveGraph(q, S) == ReplaceGraph(q, S)
\* ... and several transactions, one after another.
ToolCreateAgent(q, S) ==
  ~agentRow.there /\ Start(q, <<Row, Add("tools", Old(S)), Replace("connectors", Old(S))>>)
ToolUpdateAgent(q, S) ==
  agentRow.there /\ Start(q, <<Patch, Replace("connectors", Old(S)), Add("tools", Old(S))>>)

Page(q) ==
  \/ "update" \in Ops /\ (Update(q) \/ Create(q))
  \/ \E S \in SUBSET Names :
       \/ "set" \in Ops /\ (SetTools(q, S) \/ SetForAgent(q, S) \/ SetConnectors(q, S))
       \/ "graph" \in Ops /\ SaveGraph(q, S)

Tool(q) ==
  \/ "update" \in Ops /\ UpdateAgent(q)
  \/ \E n \in Names : \/ "attach" \in Ops /\ (AttachTool(q, n) \/ AttachSkill(q, n) \/ AttachConnector(q, n))
                      \/ "detach" \in Ops /\ (DetachTool(q, n) \/ DetachSkill(q, n) \/ DetachConnector(q, n))
  \/ \E S \in SUBSET Names : "graph" \in Ops /\ ReplaceGraph(q, S)

ChatTool(q) ==
  \/ \E n \in Names :
       \/ "attach" \in Ops /\ (ToolAttachToolToAgent(q, n) \/ ToolAttachConnectorToAgent(q, n))
       \/ "detach" \in Ops /\ (ToolDetachToolFromAgent(q, n) \/ ToolDetachConnectorFromAgent(q, n))
  \/ \E S \in SUBSET Names :
       \/ "set" \in Ops /\ ToolAttachSkills(q, S)
       \/ "graph" \in Ops /\ ToolSaveGraph(q, S)
       \/ "chat" \in Ops /\ (ToolCreateAgent(q, S) \/ ToolUpdateAgent(q, S))

(* --------------------------- Parts of a request -------------------------- *)

Doing(q, do) == state[q] = "open" /\ parts[q][1].do = do
NextPart(q) ==
  /\ parts' = [parts EXCEPT ![q] = Tail(@)]
  /\ state' = [state EXCEPT ![q] = IF Len(parts[q]) = 1 THEN "done" ELSE "open"]

\* What is committed to c now is late for every open replacement of c, and for the last.
LateFor(c, S) ==
  [p \in Requests |-> IF state[p] = "tx" /\ parts[p][1].coll = c THEN late[p] \cup S ELSE late[p]]
Committed(c, S, gone) ==
  /\ late' = LateFor(c, S)
  /\ last' = [last EXCEPT ![c].late = @ \cup S, ![c].gone = (@ \ S) \cup gone]

InsertItem(q) ==
  /\ Doing(q, "add") /\ NextPart(q)
  /\ LET part == parts[q][1] IN
       \/ held' = [held EXCEPT ![part.coll] = @ \cup part.want] /\ Committed(part.coll, part.want, {})
       \/ UNCHANGED <<held, builderHist>>   \* a failing statement aborts all of them, unnoticed
  /\ UNCHANGED <<agentRow, removes, copy, chat>>

RemoveItem(q) ==
  /\ Doing(q, "drop") /\ NextPart(q)
  /\ LET part == parts[q][1] IN
       /\ held' = [held EXCEPT ![part.coll] = @ \ part.want]
       /\ Committed(part.coll, {}, part.want)
  /\ UNCHANGED <<agentRow, removes, copy, chat>>
\* The transaction has begun: the DELETE sees what is committed.
Delete(q) ==
  /\ Doing(q, "replace")
  /\ removes' = [removes EXCEPT ![q] = held[parts[q][1].coll] \ parts[q][1].want]
  /\ late' = [late EXCEPT ![q] = {}]
  /\ state' = [state EXCEPT ![q] = "tx"]
  /\ UNCHANGED <<held, agentRow, parts, copy, chat, last>>

Contents(q, c) == (held[c] \ removes[q]) \cup parts[q][1].want

Commit(q) ==
  /\ state[q] = "tx" /\ NextPart(q)
  /\ LET c == parts[q][1].coll
         want == parts[q][1].want IN
       /\ held' = [held EXCEPT ![c] = Contents(q, c)]
       /\ last' = [last EXCEPT ![c] = [want |-> want, late |-> late[q], gone |-> {}]]
       /\ late' = [LateFor(c, want) EXCEPT ![q] = {}]
  /\ removes' = [removes EXCEPT ![q] = {}]
  /\ UNCHANGED <<agentRow, copy, chat>>

\* A failing statement, or a deadlock with another transaction.  The chat's tools that do
\* several things go on with the next; others report the error.
Rollback(q) ==
  /\ state[q] = "tx"
  /\ IF Len(parts[q]) > 1 THEN NextPart(q)
     ELSE parts' = [parts EXCEPT ![q] = <<>>] /\ state' = [state EXCEPT ![q] = "failed"]
  /\ removes' = [removes EXCEPT ![q] = {}] /\ late' = [late EXCEPT ![q] = {}]
  /\ UNCHANGED <<held, agentRow, copy, chat, last>>

\* Statements on the agent's row: create it, write some columns, read or write all of them.
InsertRow(q) ==
  /\ Doing(q, "row") /\ ~agentRow.there /\ NextPart(q)   \* ids are new: another row otherwise
  /\ agentRow' = [agentRow EXCEPT !.there = TRUE, !.edits = {q}]
  /\ UNCHANGED <<held, removes, copy, chat, builderHist>>

OtherRow(q) ==
  /\ Doing(q, "row") /\ agentRow.there
  /\ parts' = [parts EXCEPT ![q] = <<>>] /\ state' = [state EXCEPT ![q] = "done"]
  /\ UNCHANGED <<held, agentRow, removes, copy, chat, builderHist>>

PatchRow(q) ==
  /\ Doing(q, "patch") /\ NextPart(q)
  /\ agentRow' = [agentRow EXCEPT !.edits = @ \cup {q}]
  /\ UNCHANGED <<held, removes, copy, chat, builderHist>>

ReadRow(q) ==
  /\ Doing(q, "read") /\ NextPart(q)
  /\ copy' = [copy EXCEPT ![q] = agentRow]
  /\ UNCHANGED <<held, agentRow, removes, chat, builderHist>>

\* Every column, those the form does not have as they were read.
WriteRow(q) ==
  /\ Doing(q, "write") /\ NextPart(q)
  /\ agentRow' = [copy[q] EXCEPT !.edits = @ \cup {q}]
  /\ copy' = [copy EXCEPT ![q] = NoAgent]
  /\ UNCHANGED <<held, removes, chat, builderHist>>

WorkOn(q) ==
  \/ InsertItem(q) \/ RemoveItem(q) \/ Delete(q) \/ Commit(q) \/ Rollback(q) \/ InsertRow(q) \/ OtherRow(q)
  \/ PatchRow(q) \/ ReadRow(q) \/ WriteRow(q)

(* ------------------------------- The chat -------------------------------- *)

Stuck == chat.iter = MaxIter

\* The model answers: a text, or tools to call; after MaxIter rounds it is not asked again.
Complete(n) ==
  /\ chat.at = "model" /\ ~Stuck
  /\ chat' = [chat EXCEPT !.at = IF n = 0 THEN "off" ELSE "tools", !.calls = n, !.iter = IF n = 0 THEN 0 ELSE @ + 1]
  /\ UNCHANGED <<held, agentRow, reqVars, builderHist>>

GiveUp ==
  /\ chat.at = "model" /\ Stuck
  /\ chat' = Quiet
  /\ UNCHANGED <<held, agentRow, reqVars, builderHist>>

\* Calls are executed one after another.
ExecuteTool(q) ==
  /\ chat.at = "tools" /\ chat.req = 0 /\ chat.calls > 0
  /\ ChatTool(q)
  /\ chat' = [chat EXCEPT !.req = q, !.calls = @ - 1]

\* A tool that only reads, or makes something else than the agent and its workflow's
\* graph, or is refused; a proposal of an agent is for the user to look at.
ExecuteOther ==
  /\ chat.at = "tools" /\ chat.req = 0 /\ chat.calls > 0
  /\ chat' = [chat EXCEPT !.calls = @ - 1]
  /\ UNCHANGED <<held, agentRow, reqVars, builderHist>>
ToolListTools == ExecuteOther
ToolProposeAgent == ExecuteOther
\* These insert one row, of a table that nothing here reads, or start a run.
ToolCreateTrigger == ExecuteOther
ToolCreateGatewayChannel == ExecuteOther
ToolCreateSkill == ExecuteOther
ToolRunWorkflow == ExecuteOther
ToolCreateCodeTool == ExecuteOther

AppendResult ==
  /\ chat.req # 0 /\ state[chat.req] \in {"done", "failed"}
  /\ chat' = [chat EXCEPT !.req = 0]
  /\ UNCHANGED <<held, agentRow, reqVars, builderHist>>

NextRound ==
  /\ chat.at = "tools" /\ chat.req = 0 /\ chat.calls = 0
  /\ chat' = [chat EXCEPT !.at = "model"]
  /\ UNCHANGED <<held, agentRow, reqVars, builderHist>>

\* The browser closes the stream: statements fail from now on, what is committed stays.
Disconnect ==
  /\ chat.at # "off" /\ chat' = Quiet
  /\ parts' = IF chat.req = 0 THEN parts ELSE [parts EXCEPT ![chat.req] = <<>>]
  /\ state' = IF chat.req = 0 THEN state ELSE [state EXCEPT ![chat.req] = "failed"]
  /\ removes' = IF chat.req = 0 THEN removes ELSE [removes EXCEPT ![chat.req] = {}]
  /\ late' = IF chat.req = 0 THEN late ELSE [late EXCEPT ![chat.req] = {}]
  /\ UNCHANGED <<held, agentRow, copy, last>>

Chat ==
  \/ (\E n \in 0..MaxCalls : Complete(n)) \/ GiveUp \/ AppendResult \/ NextRound
  \/ ToolListTools \/ ToolProposeAgent \/ ToolCreateTrigger \/ ToolCreateGatewayChannel
  \/ ToolCreateSkill \/ ToolRunWorkflow \/ ToolCreateCodeTool
  \/ \E q \in Requests : ExecuteTool(q)

BuilderNext ==
  \/ Chat \/ Disconnect
  \/ \E q \in Requests : WorkOn(q) \/ ((Page(q) \/ Tool(q)) /\ UNCHANGED chat)

BuilderSpec == BuilderInit /\ [][BuilderNext]_builderVars

(* ----------------------------- Properties -------------------------------- *)

\* Every variable keeps its shape; a request that is open has something left to do.
BuilderTypeOK ==
  /\ held \in [Collections -> SUBSET Items]
  /\ agentRow \in [there : BOOLEAN, edits : SUBSET Requests]
  /\ state \in [Requests -> {"new", "open", "tx", "done", "failed"}]
  /\ \A q \in Requests : state[q] \in {"open", "tx"} <=> parts[q] # <<>>
  /\ removes \in [Requests -> SUBSET Items] /\ late \in [Requests -> SUBSET Items]
  /\ chat \in [at : {"off", "model", "tools"}, iter : 0..MaxIter, calls : 0..MaxCalls,
                req : Requests \cup {0}]
  /\ last \in [Collections -> [want : SUBSET Items, late : SUBSET Items, gone : SUBSET Items]]

\* What an agent or a workflow has is what the last replacement asked for, less what was
\* removed since, and, beyond it, only what others have committed since that
\* replacement's DELETE (SetTools, SetForAgent, SetAgentConnectors, SaveGraph).
HeldIsAccounted ==
  \A c \in Collections :
    /\ last[c].want \ last[c].gone \subseteq held[c]
    /\ held[c] \subseteq last[c].want \cup last[c].late

============================================================================
