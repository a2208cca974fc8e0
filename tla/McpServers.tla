------------------------------ MODULE McpServers ------------------------------
(* An MCP server of a workspace, behind HTTP or stdio: its row with the OAuth document, *)
(* the browser flow that authorises it, the tools a sync lists, their mirrored    *)
(* rows in `tools`, and the tool calls that need an access token, refreshed and   *)
(* stored under a mutex per server.  Source: handler/mcp_oauth.go, handler/mcp.go, *)
(* handler/mcp_executor.go, mcp/oauth.go, mcp/client.go.  The authorisation server *)
(* and the MCP server are external: they may refuse anything.                     *)
EXTENDS Naturals, FiniteSets

CONSTANTS
  Jobs,         \* HTTP requests and tool calls of runs
  JobStarts,    \* bound: the kinds of jobs this instance lets overlap
  Offered,      \* tools the MCP server may list
  MaxTokens,    \* bound: grants of the authorisation server
  MaxMishaps    \* bound: lost answers, failed statements, restarts

JobKinds == {"start", "callback", "call", "test", "sync", "risk", "delete", "none"}
ASSUME McpAssumption ==
  /\ Jobs \subseteq Nat \ {0} /\ JobStarts \subseteq [Jobs -> JobKinds]
  /\ MaxTokens \in Nat \ {0} /\ MaxMishaps \in Nat

VARIABLES
  server,     \* the row of mcp_servers: [there, auth, transport]
  oauth,      \* mcp_servers.oauth: [client, pending, access, refresh]
  mcpTools,   \* rows of mcp_tools: name -> [risk, id], id 0 for none
  mirror,     \* rows of `tools` of these names: [of, risk]
  syncs,      \* the last id: a sync gives all the rows it inserts a new one
  tokenLock,  \* mcpOAuthLocks: the job that holds the server's mutex, or 0
  job,        \* [kind, at, doc, was, name, lists]
  issued,     \* the authorisation server: how many grants,
  spent,      \* refresh tokens it has replaced,
  live,       \* access tokens with more than a minute to live,
  codes,      \* pending states the user has consented to, code not redeemed
  asked,      \* authorisation URLs handed out: the pending states
  reused,     \* history: spent refresh tokens that were presented again
  excused,    \* history: spent refresh tokens whose successor was not kept
  chosen,     \* history: the risk a user was told a tool now has
  crossed,    \* history: "delete", "risk": one a sync has crossed, or that failed half-way
  mishaps

asVars == <<issued, spent, live, codes>>
toolRows == <<mcpTools, mirror, syncs>>
mcpHist == <<asked, reused, excused, chosen, crossed, mishaps>>
mcpVars == <<server, oauth, toolRows, tokenLock, job, asVars, mcpHist>>

NoDoc == [client |-> FALSE, pending |-> 0, access |-> 0, refresh |-> 0]
NoMirror == [of |-> "none", risk |-> "none"]
NoTool == [risk |-> "none", id |-> 0]
ListedRisk == "medium"   \* parseToolsList
NewJob(kind) == [kind |-> kind, at |-> "idle", doc |-> NoDoc, was |-> 0, name |-> "none", lists |-> {}]

\* A server that has been synced: one that is authorised, its access token about to expire
\* or not, or one with a token in its configuration.  A tool of another server may have a
\* name this one lists.
McpInit ==
  /\ \/ /\ server = [there |-> TRUE, auth |-> "oauth", transport |-> "http"]
        /\ oauth = [client |-> TRUE, pending |-> 0, access |-> 1, refresh |-> 1]
        /\ issued = 1 /\ live \in {{}, {1}}
     \/ /\ \E by \in {"http", "stdio"} : server = [there |-> TRUE, auth |-> "config", transport |-> by]
        /\ oauth = NoDoc /\ issued = 0 /\ live = {}
  /\ \E S \in SUBSET Offered : \E other \in SUBSET (Offered \ S) :
       /\ mcpTools = [n \in Offered |-> IF n \in S THEN [risk |-> "medium", id |-> 1] ELSE NoTool]
       /\ mirror = [n \in Offered |-> CASE n \in S -> [of |-> "this", risk |-> "medium"]
                                        [] n \in other -> [of |-> "other", risk |-> "medium"]
                                        [] OTHER -> NoMirror]
  /\ syncs = 1 /\ tokenLock = 0
  /\ \E kinds \in JobStarts : job = [q \in Jobs |-> NewJob(kinds[q])]
  /\ spent = {} /\ codes = {} /\ asked = {}
  /\ reused = {} /\ excused = {} /\ crossed = {} /\ mishaps = 0
  /\ chosen = [n \in Offered |-> mirror[n].risk]

At(q, kind, at) == job[q].kind = kind /\ job[q].at = at
MoveTo(q, to) == job' = [job EXCEPT ![q].at = to]
Finish(q) == job' = [job EXCEPT ![q] = [NewJob(@.kind) EXCEPT !.at = "done"]]
Mishap == mishaps < MaxMishaps /\ mishaps' = mishaps + 1

\* saveMCPOAuthDoc: the whole document, whoever else has written it since; no row, no error.
SaveMCPOAuthDoc(doc) ==
  /\ oauth' = IF server.there THEN doc ELSE oauth
  /\ server' = IF server.there THEN [server EXCEPT !.auth = "oauth"] ELSE server

\* applyToken: the old refresh token stays unless the server sends another.
ApplyToken(doc, rotates) ==
  [doc EXCEPT !.access = issued + 1, !.refresh = IF rotates THEN issued + 1 ELSE @]

Grant(rotates) ==
  /\ issued < MaxTokens /\ issued' = issued + 1
  /\ live' = live \cup {issued + 1}

(* ------------------------- Faulty variants ------------------------------- *)

\* the mutex guards nothing any more
NoLock(q) == MoveTo(q, "load") /\ UNCHANGED <<server, oauth, toolRows, tokenLock, asVars, mcpHist>>

\* a sync sets the risk of the mirrored row too
Overwritten(n, S) ==
  IF n \in S THEN [of |-> "this", risk |-> ListedRisk] ELSE mirror[n]

(* --------------------------- The browser flow ---------------------------- *)

\* HTTP servers only; the metadata of the authorisation server is found, or not.
DiscoverAuthServer(q) ==
  /\ At(q, "start", "idle")
  /\ IF server.there /\ server.transport = "http"
     THEN MoveTo(q, "found") \/ Finish(q)
     ELSE Finish(q)
  /\ UNCHANGED <<server, oauth, toolRows, tokenLock, asVars, mcpHist>>

\* The document is loaded (an empty one if the row is gone), and the client registered when
\* it has none or the authorisation server has moved.
OAuthStart(q) ==
  /\ At(q, "start", "found")
  /\ LET doc == IF server.there THEN oauth ELSE NoDoc IN
       \E to \in {"register", "pend"} :
         /\ doc.client \/ to = "register"
         /\ job' = [job EXCEPT ![q].doc = doc, ![q].at = to]
  /\ UNCHANGED <<server, oauth, toolRows, tokenLock, asVars, mcpHist>>

RegisterClient(q) ==
  /\ At(q, "start", "register")
  /\ \/ job' = [job EXCEPT ![q].doc.client = TRUE, ![q].at = "pend"]
     \/ Finish(q)
  /\ UNCHANGED <<server, oauth, toolRows, tokenLock, asVars, mcpHist>>

\* The document as it was loaded, with a new state nonce; the URL goes to the browser.
SavePending(q) ==
  /\ At(q, "start", "pend") /\ Finish(q)
  /\ \/ /\ SaveMCPOAuthDoc([job[q].doc EXCEPT !.pending = q])
        /\ asked' = asked \cup {q} /\ codes' = codes \cup {q}
     \/ UNCHANGED <<server, oauth, asked, codes>>
  /\ UNCHANGED <<toolRows, tokenLock, issued, spent, live, reused, excused, chosen, crossed, mishaps>>

\* The browser comes back with the nonce of an URL and a code, perhaps twice.
OAuthCallback(q) ==
  /\ At(q, "callback", "idle")
  /\ \E n \in asked :
       IF server.there /\ oauth.pending = n
       THEN job' = [job EXCEPT ![q].doc = oauth, ![q].at = "exchange"]
       ELSE Finish(q)
  /\ UNCHANGED <<server, oauth, toolRows, tokenLock, asVars, mcpHist>>

\* A code is redeemed once.
ExchangeCode(q) ==
  /\ At(q, "callback", "exchange")
  /\ \/ /\ job[q].doc.pending \in codes /\ codes' = codes \ {job[q].doc.pending}
        /\ Grant(TRUE)
        /\ job' = [job EXCEPT ![q].doc = [ApplyToken(@, TRUE) EXCEPT !.pending = 0], ![q].at = "keep"]
     \/ Finish(q) /\ UNCHANGED <<issued, live, codes>>
  /\ UNCHANGED <<server, oauth, toolRows, tokenLock, spent, mcpHist>>

\* The tokens are stored, and a sync begins in the background.
SaveTokens(q) ==
  /\ At(q, "callback", "keep")
  /\ \/ SaveMCPOAuthDoc(job[q].doc) /\ job' = [job EXCEPT ![q] = NewJob("sync")]
     \/ Finish(q) /\ UNCHANGED <<server, oauth>>
  /\ UNCHANGED <<toolRows, tokenLock, asVars, mcpHist>>

(* ------------------- Tool calls, and the access token --------------------- *)

ReadsServer(q) == job[q].at = "idle" /\ job[q].kind \in {"call", "test", "sync"}
\* TestTool asks whether this workspace has the tool; executeMCPTool and Sync read the row.
ExecuteMCPTool(q) ==
  /\ ReadsServer(q)
  /\ IF server.there /\ (job[q].kind = "test" => \E n \in Offered : mcpTools[n].id # 0)
     THEN MoveTo(q, IF server.auth = "oauth" THEN "token" ELSE "connect")
     ELSE Finish(q)
  /\ UNCHANGED <<server, oauth, toolRows, tokenLock, asVars, mcpHist>>

Lock(q) ==
  /\ tokenLock = 0 /\ tokenLock' = q /\ MoveTo(q, "load")
  /\ UNCHANGED <<server, oauth, toolRows, asVars, mcpHist>>
AskForToken(q) == job[q].at = "token" /\ Lock(q)
Unlock(q) == tokenLock' = IF tokenLock = q THEN 0 ELSE tokenLock

\* mcpOAuthAccessToken: a token that lives for another minute, or the refresh grant.
LoadMCPOAuthDoc(q) ==
  /\ job[q].at = "load"
  /\ IF ~server.there \/ (oauth.access \notin live /\ oauth.refresh = 0)
     THEN Finish(q) /\ Unlock(q)
     ELSE IF oauth.access \in live THEN MoveTo(q, "connect") /\ Unlock(q)
     ELSE job' = [job EXCEPT ![q].doc = oauth, ![q].was = oauth.refresh, ![q].at = "refresh"]
          /\ UNCHANGED tokenLock
  /\ UNCHANGED <<server, oauth, toolRows, asVars, mcpHist>>

\* The authorisation server refuses, for one thing a token that it has replaced; or it
\* grants, and may replace the refresh token.  Its answer may be lost.
Refused(q) ==
  /\ reused' = reused \cup (spent \cap {job[q].was})
  /\ Finish(q) /\ Unlock(q)
  /\ UNCHANGED <<server, oauth, toolRows, asVars, asked, excused, chosen, crossed, mishaps>>
Granted(q, rotates) ==
  /\ job[q].was \notin spent /\ Grant(rotates)
  /\ spent' = IF rotates THEN spent \cup {job[q].was} ELSE spent
  /\ \/ /\ job' = [job EXCEPT ![q].doc = ApplyToken(@, rotates), ![q].at = "keep"]
        /\ UNCHANGED <<tokenLock, excused, mishaps>>
     \/ /\ Mishap /\ excused' = excused \cup {job[q].was} /\ Finish(q) /\ Unlock(q)
  /\ UNCHANGED <<server, oauth, toolRows, codes, asked, reused, chosen, crossed>>
RefreshToken(q) ==
  job[q].at = "refresh" /\ (Refused(q) \/ \E rotates \in BOOLEAN : Granted(q, rotates))

\* The pages of the browser flow do not take the mutex: one that has loaded the replaced
\* token may write it again.
HeldByAPage(t) == \E p \in Jobs : job[p].kind \in {"start", "callback"} /\ job[p].doc.refresh = t
SaveRefreshed(q) ==
  /\ job[q].at = "keep" /\ job[q].kind \in {"call", "test", "sync"} /\ Unlock(q)
  /\ \/ /\ SaveMCPOAuthDoc(job[q].doc) /\ MoveTo(q, "connect")
        /\ excused' = IF HeldByAPage(job[q].was) THEN excused \cup {job[q].was} ELSE excused
        /\ UNCHANGED mishaps
     \/ /\ Mishap /\ Finish(q) /\ excused' = excused \cup {job[q].was}
        /\ UNCHANGED <<server, oauth>>
  /\ UNCHANGED <<toolRows, asVars, asked, reused, chosen, crossed>>

\* Over HTTP the call goes on whatever initialize answers; a process must start and answer.
Handshake(q) ==
  /\ job[q].at = "connect"
  /\ MoveTo(q, "rpc") \/ (server.transport = "stdio" /\ Finish(q))
  /\ UNCHANGED <<server, oauth, toolRows, tokenLock, asVars, mcpHist>>

\* A result, an error status, an error of the protocol, a body that is neither JSON nor an
\* event, or the time limit; whatever it is, nothing is stored.
CallTool(q) ==
  /\ job[q].at = "rpc" /\ job[q].kind \in {"call", "test"} /\ Finish(q)
  /\ UNCHANGED <<server, oauth, toolRows, tokenLock, asVars, mcpHist>>

(* --------------------------------- Sync ----------------------------------- *)

\* The tools the server lists; or it does not answer, and the row's status says so.
ListTools(q) ==
  /\ At(q, "sync", "rpc")
  /\ \/ \E S \in SUBSET Offered : job' = [job EXCEPT ![q].lists = S, ![q].at = "replace"]
     \/ Finish(q)
  /\ UNCHANGED <<server, oauth, toolRows, tokenLock, asVars, mcpHist>>

\* Upsert by (workspace, name), whoever's row it was; the user's risk level stays.
Mirrored(n, S) ==
  IF n \notin S THEN mirror[n]
  ELSE [of |-> "this", risk |-> IF mirror[n].of = "none" THEN ListedRisk ELSE mirror[n].risk]

\* One transaction (READ COMMITTED): its DELETE removes the rows that are there, ...
DeleteTools(q) ==
  /\ At(q, "sync", "replace") /\ job' = [job EXCEPT ![q].was = syncs, ![q].at = "tx"]
  /\ UNCHANGED <<server, oauth, toolRows, tokenLock, asVars, mcpHist>>

Inserted(n, S, seen) ==
  CASE mcpTools[n].id > seen -> IF n \in S THEN [mcpTools[n] EXCEPT !.risk = ListedRisk] ELSE mcpTools[n]
    [] n \in S -> [risk |-> ListedRisk, id |-> syncs + 1]
    [] OTHER -> NoTool

\* ... the listed tools are inserted and mirrored, and it commits.  A failed statement is
\* ignored, but aborts it: so do the tools of a server that is gone (foreign key).
SyncServerTools(q) ==
  /\ At(q, "sync", "tx") /\ Finish(q)
  /\ LET S == job[q].lists IN
       \/ /\ server.there
          /\ mcpTools' = [n \in Offered |-> Inserted(n, S, job[q].was)]
          /\ mirror' = [n \in Offered |-> Mirrored(n, S)]
          /\ chosen' = [n \in Offered |-> IF n \in S /\ mirror[n].of = "none" THEN ListedRisk ELSE chosen[n]]
          /\ syncs' = syncs + 1
          /\ crossed' = crossed \cup {job[p].kind : p \in {x \in Jobs : job[x].at \in {"delete", "mirror"}}}
       \/ UNCHANGED <<toolRows, chosen, crossed>>
  /\ UNCHANGED <<server, oauth, tokenLock, asVars, asked, reused, excused, mishaps>>

(* ------------------------- Risk levels, deletion --------------------------- *)

\* The user picks a tool of a page, perhaps an old one: it is found by its id ...
UpdateToolRisk(q) ==
  /\ At(q, "risk", "idle")
  /\ \/ \E n \in Offered :
          /\ mcpTools[n].id # 0
          /\ mcpTools' = [mcpTools EXCEPT ![n].risk = "high"]
          /\ job' = [job EXCEPT ![q].name = n, ![q].was = mcpTools[n].id, ![q].at = "mirror"]
     \/ Finish(q) /\ UNCHANGED mcpTools
  /\ UNCHANGED <<server, oauth, mirror, syncs, tokenLock, asVars, mcpHist>>

\* ... and its mirrored row by the name that id has now.  The user is told it is done.
MirrorRisk(q) ==
  /\ At(q, "risk", "mirror") /\ Finish(q)
  /\ LET n == job[q].name
         done == mirror[n].of = "this" IN
       /\ \/ /\ mirror' = IF done /\ mcpTools[n].id = job[q].was THEN [mirror EXCEPT ![n].risk = "high"] ELSE mirror
             /\ UNCHANGED <<crossed, mishaps>>
          \/ Mishap /\ crossed' = crossed \cup {"risk"} /\ UNCHANGED mirror
       /\ chosen' = IF done THEN [chosen EXCEPT ![n] = "high"] ELSE chosen
  /\ UNCHANGED <<server, oauth, mcpTools, syncs, tokenLock, asVars, asked, reused, excused>>

\* First the mirrored rows, an error of which is ignored, ...
DeleteMirrors(q) ==
  /\ At(q, "delete", "idle") /\ MoveTo(q, "delete")
  /\ \/ /\ mirror' = [n \in Offered |-> IF mirror[n].of = "this" THEN NoMirror ELSE mirror[n]]
        /\ chosen' = [n \in Offered |-> IF mirror[n].of = "this" THEN "none" ELSE chosen[n]]
        /\ UNCHANGED <<crossed, mishaps>>
     \/ Mishap /\ crossed' = crossed \cup {"delete"} /\ UNCHANGED <<mirror, chosen>>
  /\ UNCHANGED <<server, oauth, mcpTools, syncs, tokenLock, asVars, asked, reused, excused>>

\* ... then the server, and with it its mcp_tools.
DeleteServer(q) ==
  /\ At(q, "delete", "delete") /\ Finish(q)
  /\ server' = [server EXCEPT !.there = FALSE, !.auth = "config"] /\ oauth' = NoDoc
  /\ mcpTools' = [n \in Offered |-> NoTool]
  /\ UNCHANGED <<mirror, syncs, tokenLock, asVars, mcpHist>>

(* ------------------------------- Surroundings ------------------------------ *)

Expire(t) ==
  /\ t \in live /\ live' = live \ {t}
  /\ UNCHANGED <<server, oauth, toolRows, tokenLock, job, issued, spent, codes, mcpHist>>

\* The API restarts: what it was doing is lost, the mutexes are new.
McpCrash ==
  /\ Mishap /\ \E q \in Jobs : job[q].at \notin {"idle", "done"}
  /\ job' = [q \in Jobs |-> IF job[q].at = "idle" THEN job[q] ELSE [NewJob(job[q].kind) EXCEPT !.at = "done"]]
  /\ tokenLock' = 0
  /\ excused' = excused \cup {job[q].was : q \in {p \in Jobs : job[p].at = "keep" /\ job[p].was # 0}}
  /\ UNCHANGED <<server, oauth, toolRows, asVars, asked, reused, chosen, crossed>>

JobStep(q) ==
  \/ DiscoverAuthServer(q) \/ OAuthStart(q) \/ RegisterClient(q) \/ SavePending(q) \/ OAuthCallback(q) \/ ExchangeCode(q) \/ SaveTokens(q)
  \/ ExecuteMCPTool(q) \/ AskForToken(q) \/ LoadMCPOAuthDoc(q) \/ RefreshToken(q) \/ SaveRefreshed(q) \/ Handshake(q) \/ CallTool(q)
  \/ ListTools(q) \/ DeleteTools(q) \/ SyncServerTools(q) \/ UpdateToolRisk(q) \/ MirrorRisk(q) \/ DeleteMirrors(q) \/ DeleteServer(q)

McpNext == McpCrash \/ (\E q \in Jobs : JobStep(q)) \/ \E t \in live : Expire(t)
McpSpec == McpInit /\ [][McpNext]_mcpVars
(* ------------------------------- Properties -------------------------------- *)

\* Every variable keeps its shape; the mutex is held by the job that refreshes.
McpTypeOK ==
  /\ server \in [there : BOOLEAN, auth : {"config", "oauth"}, transport : {"http", "stdio"}]
  /\ oauth \in [client : BOOLEAN, pending : Jobs \cup {0}, access : 0..MaxTokens, refresh : 0..MaxTokens]
  /\ mcpTools \in [Offered -> [risk : {"none", "medium", "high"}, id : 0..syncs]]
  /\ mirror \in [Offered -> [of : {"none", "this", "other"}, risk : {"none", "medium", "high"}]]
  /\ tokenLock \in Jobs \cup {0} /\ codes \subseteq asked /\ asked \subseteq Jobs
  /\ issued \in 0..MaxTokens /\ spent \cup live \cup reused \cup excused \subseteq 1..issued
  /\ crossed \subseteq {"delete", "risk"} /\ chosen \in [Offered -> {"none", "medium", "high"}]

\* A refresh token that the authorisation server has replaced is not presented again:
\* "serialized per server so concurrent tool calls don't race the refresh grant"
\* (mcpOAuthAccessToken).  Except where the replacement was never stored (a lost answer, a
\* failed save, a restart) or where a page of the browser flow held the old document.
GrantIsNotRaced == reused \subseteq excused

\* Once a server is deleted no mirrored row is left that an agent could call it by
\* (Delete), unless a sync committed between its two statements, or the first failed.
MirrorsGoWithServer ==
  server.there \/ "delete" \in crossed \/ \A n \in Offered : mirror[n].of # "this"

\* The risk level that the approval gate reads is the one the user was told: "Do NOT
\* overwrite risk_level on conflict - preserve user edits" (syncServerTools), unless a
\* sync committed between the two statements of UpdateToolRisk, or the second failed.
RiskIsKept ==
  server.there => "risk" \in crossed \/ \A n \in Offered : mirror[n].risk = chosen[n]

\* The mirrored rows follow the server: they go with it, and carry the risk level of the
\* user's choice for as long as it is there.
MirrorsAgree == MirrorsGoWithServer /\ RiskIsKept
===============================================================================
