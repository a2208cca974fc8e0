--------------------------- MODULE McpServersProofs ---------------------------
(* Refresh tokens of an MCP server are presented once, its mirrored tools follow it,  *)
(* for any number of requests, tool calls, tools and grants.                          *)
EXTENDS McpServers, TLAPS

Doc == [client : BOOLEAN, pending : Jobs \cup {0}, access : 0..MaxTokens, refresh : 0..MaxTokens]
Places == {"idle", "found", "register", "pend", "exchange", "keep", "token", "load", "refresh", "connect",
           "rpc", "replace", "tx", "mirror", "delete", "done"}
McpJob == [kind : JobKinds, at : Places, doc : Doc, was : Nat, name : Offered \cup {"none"},
           lists : SUBSET Offered]

Caller(w) == w.kind \in {"call", "test", "sync"}
FromPage(w) == w.kind \in {"start", "callback"}
\* A call whose refresh grant has been answered, and is not stored yet.
Storing(w) == Caller(w) /\ w.at = "keep"

\* Where the row w of job q can be, by its kind, and when the job holds the mutex.
Placed(q, w) ==
  /\ w.at \in {"token", "load", "refresh", "connect", "rpc", "replace", "tx"} => Caller(w)
  /\ w.at = "keep" => Caller(w) \/ w.kind = "callback"
  /\ w.at \in {"found", "register", "pend"} => w.kind = "start"
  /\ w.at = "exchange" => w.kind = "callback"
  /\ w.at = "mirror" => w.kind = "risk" /\ w.name \in Offered
  /\ w.at = "delete" => w.kind = "delete"
  /\ w.at \in {"load", "refresh"} \/ Storing(w) => tokenLock = q
  /\ w.at = "idle" => w.doc = NoDoc
  /\ w.kind = "callback" => w.was = 0

\* A refresh token that has been replaced is excused, or the job that had it replaced is about
\* to store the new one.
Accounted(t) == t \in spent => t \in excused \/ \E q \in Jobs : Storing(job[q]) /\ job[q].was = t

\* What a job may present or store: a token that is accounted for; what it refreshes is
\* what it will present; what the authorisation server gave it is not replaced.
Funded(w) ==
  /\ FromPage(w) => w.doc.refresh \in 0..issued /\ Accounted(w.doc.refresh)
  /\ w.at = "refresh" => /\ w.was \in 1..issued /\ w.doc.refresh = w.was
                         /\ w.was \in spent => w.was \in excused
  /\ Storing(w) => w.was \in 1..issued /\ w.doc.refresh \in 0..issued /\ w.doc.refresh \notin spent

\* A deletion has removed the mirrored rows, a change of a risk has its tool, or a sync has crossed it.
Mirroring(w) ==
  /\ w.at = "delete" => "delete" \in crossed \/ \A n \in Offered : mirror[n].of # "this"
  /\ w.at = "mirror" /\ server.there => "risk" \in crossed \/ mcpTools[w.name].id = w.was

InTheRow ==
  /\ oauth.refresh \in 0..issued /\ Accounted(oauth.refresh)
  /\ ~server.there => oauth = NoDoc

McpInv ==
  /\ McpTypeOK /\ syncs \in Nat /\ job \in [Jobs -> McpJob]
  /\ \A q \in Jobs : Placed(q, job[q]) /\ Funded(job[q]) /\ Mirroring(job[q])
  /\ InTheRow /\ GrantIsNotRaced /\ MirrorsAgree

-----------------------------------------------------------------------------
NullRow(k) == [NewJob(k) EXCEPT !.at = "done"]

\* The rows of jobs that have not begun or have ended.
LEMMA NullRows ==
  ASSUME NEW k \in JobKinds
  PROVE  /\ NullRow(k) \in McpJob /\ NewJob(k) \in McpJob /\ NoDoc \in Doc
         /\ NullRow(k).kind = k /\ NullRow(k).at = "done" /\ NullRow(k).doc = NoDoc /\ NullRow(k).was = 0
         /\ NewJob(k).kind = k /\ NewJob(k).at = "idle" /\ NewJob(k).doc = NoDoc /\ NewJob(k).was = 0
<1>1. NoDoc \in Doc
  BY McpAssumption DEF NoDoc, Doc
<1>2. {} \in SUBSET Offered
  OBVIOUS
<1>3. NewJob(k) \in McpJob
  BY <1>1, <1>2 DEF NewJob, McpJob, Places
<1>4. NullRow(k) \in McpJob
  BY <1>1, <1>2 DEF NullRow, NewJob, McpJob, Places
<1> QED BY <1>1, <1>3, <1>4 DEF NullRow, NewJob

\* A step of one job: the others keep their rows.
LEMMA OneRow ==
  ASSUME job \in [Jobs -> McpJob], NEW q \in Jobs, NEW w \in McpJob, job' = [job EXCEPT ![q] = w]
  PROVE  job' \in [Jobs -> McpJob] /\ job'[q] = w /\ \A p \in Jobs \ {q} : job'[p] = job[p]
OBVIOUS

\* What the end of a job does to its row.
LEMMA Ended ==
  ASSUME McpInv, NEW q \in Jobs, Finish(q)
  PROVE  /\ NullRow(job[q].kind) \in McpJob
         /\ job' = [job EXCEPT ![q] = NullRow(job[q].kind)]
<1>1. job[q].kind \in JobKinds
  BY DEF McpInv, McpJob
<1> QED BY <1>1, NullRows DEF Finish, NullRow

\* What going on does to a job's row.
LEMMA Moved ==
  ASSUME McpInv, NEW q \in Jobs, NEW to \in Places, MoveTo(q, to)
  PROVE  /\ [job[q] EXCEPT !.at = to] \in McpJob
         /\ job' = [job EXCEPT ![q] = [job[q] EXCEPT !.at = to]]
BY DEF MoveTo, McpInv, McpJob

\* The tokens that are accounted for stay so, when no job stops storing what it was granted.
LEMMA StillAccounted ==
  ASSUME McpInv, NEW q \in Jobs, NEW w \in McpJob, job' = [job EXCEPT ![q] = w],
         spent' = spent, excused \subseteq excused', ~Storing(job[q]), NEW t, Accounted(t)
  PROVE  Accounted(t)'
<1>1. job'[q] = w /\ \A p \in Jobs \ {q} : job'[p] = job[p]
  BY OneRow DEF McpInv
<1> QED BY <1>1 DEF Accounted

\* One job moves to a row that is in order, and leaves the mutex of others alone.
LEMMA PlacedStep ==
  ASSUME McpInv, NEW q \in Jobs, NEW w \in McpJob, job' = [job EXCEPT ![q] = w],
         tokenLock \notin {0, q} => tokenLock' = tokenLock,
         Placed(q, w)'
  PROVE  \A p \in Jobs : Placed(p, job[p])'
<1>1. job'[q] = w /\ \A p \in Jobs \ {q} : job'[p] = job[p]
  BY OneRow DEF McpInv
<1>2. ASSUME NEW p \in Jobs \ {q} PROVE Placed(p, job[p])'
  <2>1. Placed(p, job[p]) /\ p # 0
    BY McpAssumption DEF McpInv
  <2> QED BY <1>1, <2>1 DEF Placed, Storing, Caller
<1> QED BY <1>1, <1>2

\* One job moves, and only a job that holds the mutex can have replaced a token.
LEMMA FundedStep ==
  ASSUME McpInv, NEW q \in Jobs, NEW w \in McpJob, job' = [job EXCEPT ![q] = w],
         issued <= issued', issued' \in Nat, excused \subseteq excused',
         spent' = spent \/ tokenLock = q,
         \A t \in 0..issued : HeldByAPage(t) /\ Accounted(t) => Accounted(t)',
         Funded(w)'
  PROVE  \A p \in Jobs : Funded(job[p])'
<1>1. job'[q] = w /\ \A p \in Jobs \ {q} : job'[p] = job[p]
  BY OneRow DEF McpInv
<1>2. ASSUME NEW p \in Jobs \ {q} PROVE Funded(job[p])'
  <2>1. Placed(p, job[p]) /\ Funded(job[p]) /\ issued \in Nat
    BY DEF McpInv, McpTypeOK
  <2>2. PICK v \in 0..MaxTokens : v = job[p].doc.refresh
    BY DEF McpInv, McpJob, Doc
  <2>3. FromPage(job[p]) => v \in 0..issued /\ Accounted(v)'
    <3>1. FromPage(job[p]) => v \in 0..issued /\ Accounted(v) /\ HeldByAPage(v)
      BY <2>1, <2>2 DEF Funded, HeldByAPage, FromPage
    <3> QED BY <3>1
  <2>4. job[p].at = "refresh" \/ Storing(job[p]) => spent' = spent
    BY <2>1 DEF Placed
  <2>5. job'[p] = job[p]
    BY <1>1
  <2>6. 1..issued \subseteq 1..issued' /\ 0..issued \subseteq 0..issued'
    BY <2>1
  <2>7. FromPage(job[p])' => (job[p].doc.refresh \in 0..issued /\ Accounted(job[p].doc.refresh))'
    <3>1. job'[p].doc.refresh = v
      BY <2>2, <2>5
    <3>2. FromPage(job[p])' => v \in 0..issued' /\ Accounted(v)'
      BY <2>3, <2>5, <2>6 DEF FromPage
    <3> QED BY <3>1, <3>2 DEF Accounted
  <2> QED BY <2>1, <2>4, <2>5, <2>6, <2>7 DEF Funded, Storing, Caller, FromPage
<1> QED BY <1>1, <1>2

Elsewhere == <<server, oauth, toolRows, asVars, mcpHist>>
LockMoves(q) == (tokenLock' \in {0, q} /\ tokenLock \in {0, q}) \/ tokenLock' = tokenLock

\* A job goes on, and leaves everything but itself and the mutex as it is.
LEMMA QuietStep ==
  ASSUME McpInv, NEW q \in Jobs, NEW w \in McpJob, job' = [job EXCEPT ![q] = w], UNCHANGED Elsewhere,
         ~Storing(job[q]), LockMoves(q), Placed(q, w)', Funded(w), w.at \notin {"delete", "mirror"}
  PROVE  McpInv'
<1>1. job' \in [Jobs -> McpJob] /\ job'[q] = w /\ \A p \in Jobs \ {q} : job'[p] = job[p]
  BY OneRow DEF McpInv
<1>2. UNCHANGED <<server, oauth, mcpTools, mirror, syncs, issued, spent, live, codes, asked, reused, excused,
                  chosen, crossed, mishaps>>
  BY DEF Elsewhere, toolRows, asVars, mcpHist
<1>3. McpTypeOK' /\ syncs' \in Nat
  BY <1>2 DEF McpInv, McpTypeOK, LockMoves
<1>4. \A t : Accounted(t) => Accounted(t)'
  BY <1>2, StillAccounted
<1>5. \A p \in Jobs : Placed(p, job[p])'
  BY PlacedStep DEF LockMoves
<1>6. Funded(w)'
  BY <1>2, <1>4 DEF Funded
<1>7. \A p \in Jobs : Funded(job[p])'
  <2>1. issued \in Nat
    BY DEF McpInv, McpTypeOK
  <2>2. issued <= issued' /\ issued' \in Nat /\ excused \subseteq excused' /\ spent' = spent
    BY <1>2, <2>1
  <2>3. \A t \in 0..issued : Accounted(t) => Accounted(t)'
    BY <1>4
  <2> QED BY <1>6, <2>2, <2>3, FundedStep
<1>8. \A p \in Jobs : Mirroring(job[p])'
  BY <1>1, <1>2 DEF McpInv, Mirroring
<1>9. InTheRow' /\ GrantIsNotRaced' /\ MirrorsAgree'
  BY <1>2, <1>4 DEF McpInv, InTheRow, GrantIsNotRaced, MirrorsAgree, MirrorsGoWithServer, RiskIsKept
<1> QED BY <1>1, <1>3, <1>5, <1>7, <1>8, <1>9 DEF McpInv

\* No token is no loss.
LEMMA ZeroIsAccounted == ASSUME McpInv PROVE Accounted(0) /\ 0 \in 0..issued
BY DEF McpInv, McpTypeOK, Accounted

\* A job ends without a trace.
LEMMA EndQuietly ==
  ASSUME McpInv, NEW q \in Jobs, Finish(q), UNCHANGED Elsewhere, ~Storing(job[q]), LockMoves(q)
  PROVE  McpInv'
<1>1. PICK w \in McpJob : w = NullRow(job[q].kind)
  BY Ended
<1>2. job' = [job EXCEPT ![q] = w] /\ w.at = "done" /\ w.doc.refresh = 0 /\ w.was = 0
  BY <1>1, Ended, NullRows DEF NullRow, NewJob, NoDoc
<1>3. Placed(q, w)' /\ Funded(w)
  BY <1>2, ZeroIsAccounted DEF Placed, Storing, Funded
<1> QED BY <1>2, <1>3, QuietStep

\* A job goes to another place, where it neither presents nor stores anything.
LEMMA MoveQuietly ==
  ASSUME McpInv, NEW q \in Jobs, NEW to \in {"found", "token", "load", "connect", "rpc"}, MoveTo(q, to),
         UNCHANGED Elsewhere, ~Storing(job[q]), LockMoves(q),
         to = "found" => job[q].kind = "start", to # "found" => Caller(job[q]),
         to = "load" => tokenLock' = q
  PROVE  McpInv'
<1>1. PICK w \in McpJob : w = [job[q] EXCEPT !.at = to]
  BY Moved DEF Places
<1>2. job' = [job EXCEPT ![q] = w] /\ w.at = to /\ w.kind = job[q].kind /\ w.doc = job[q].doc
  <2>1. job[q] \in McpJob /\ to \in Places
    BY DEF McpInv, Places
  <2>2. job' = [job EXCEPT ![q] = w]
    BY <1>1, <2>1, Moved
  <2> QED BY <1>1, <2>1, <2>2 DEF McpJob
<1>3. Placed(q, w)'
  BY <1>2 DEF Placed, Storing, Caller
<1>4. Funded(w)
  BY <1>2 DEF McpInv, Funded, FromPage, Storing
<1> QED BY <1>2, <1>3, <1>4, QuietStep

\* A job loads the stored document, or an empty one.
LEMMA DocLoaded ==
  ASSUME McpInv
  PROVE  /\ oauth \in Doc /\ NoDoc \in Doc /\ oauth.refresh \in 0..issued /\ Accounted(oauth.refresh)
         /\ NoDoc.refresh = 0
<1>1. NoDoc \in Doc /\ NoDoc.refresh = 0
  BY McpAssumption DEF NoDoc, Doc
<1> QED BY <1>1 DEF McpInv, McpTypeOK, InTheRow, Doc

\* A page's request has read the row of tokens.
LEMMA PageLoads ==
  ASSUME McpInv, NEW q \in Jobs, NEW to \in {"register", "pend", "exchange"},
         NEW doc \in Doc, doc.refresh \in 0..issued, Accounted(doc.refresh),
         job' = [job EXCEPT ![q].doc = doc, ![q].at = to], UNCHANGED <<Elsewhere, tokenLock>>,
         ~Storing(job[q]), job[q].kind = IF to = "exchange" THEN "callback" ELSE "start"
  PROVE  McpInv'
<1>1. PICK w : w = [job[q] EXCEPT !.doc = doc, !.at = to]
  OBVIOUS
<1>2. w \in McpJob /\ w.at = to /\ w.kind = job[q].kind /\ w.doc = doc /\ w.was = job[q].was
  BY <1>1 DEF McpInv, McpJob, Places
<1>3. job' = [job EXCEPT ![q] = w]
  BY <1>1 DEF McpInv, McpJob
<1>4. Placed(q, w)' /\ Funded(w)
  BY <1>2 DEF McpInv, Placed, Storing, Caller, Funded
<1> QED BY <1>2, <1>3, <1>4, QuietStep DEF LockMoves

\* Steps that write neither a token nor a tool.
LEMMA QuietSteps ==
  ASSUME McpInv, NEW q \in Jobs,
         \/ DiscoverAuthServer(q) \/ OAuthStart(q) \/ RegisterClient(q) \/ OAuthCallback(q)
         \/ ExecuteMCPTool(q) \/ AskForToken(q) \/ LoadMCPOAuthDoc(q) \/ Handshake(q) \/ CallTool(q)
         \/ ListTools(q) \/ DeleteTools(q)
  PROVE  McpInv'
<1>0. Placed(q, job[q]) /\ Funded(job[q]) /\ job[q] \in McpJob
  BY DEF McpInv
<1>1. CASE DiscoverAuthServer(q)
  <2>1. UNCHANGED <<Elsewhere, tokenLock>> /\ At(q, "start", "idle")
    BY <1>1 DEF DiscoverAuthServer, Elsewhere
  <2>2. CASE Finish(q)
    BY <2>1, <2>2, EndQuietly DEF LockMoves, At, Storing
  <2>3. CASE MoveTo(q, "found")
    BY <2>1, <2>3, MoveQuietly DEF LockMoves, At, Storing
  <2> QED BY <1>1, <2>2, <2>3 DEF DiscoverAuthServer
<1>2. CASE OAuthStart(q)
  <2>1. PICK doc \in {oauth, NoDoc}, to \in {"register", "pend"} :
          job' = [job EXCEPT ![q].doc = doc, ![q].at = to]
    BY <1>2 DEF OAuthStart
  <2>2. UNCHANGED <<Elsewhere, tokenLock>> /\ At(q, "start", "found")
    BY <1>2 DEF OAuthStart, Elsewhere
  <2>3. doc \in Doc /\ doc.refresh \in 0..issued /\ Accounted(doc.refresh)
    BY DocLoaded, ZeroIsAccounted
  <2> QED BY <2>1, <2>2, <2>3, PageLoads DEF At, Storing
<1>3. CASE RegisterClient(q)
  <2>1. UNCHANGED <<Elsewhere, tokenLock>> /\ At(q, "start", "register")
    BY <1>3 DEF RegisterClient, Elsewhere
  <2>2. CASE Finish(q)
    BY <2>1, <2>2, EndQuietly DEF LockMoves, At, Storing
  <2>3. CASE job' = [job EXCEPT ![q].doc.client = TRUE, ![q].at = "pend"]
    <3>1. PICK doc : doc = [job[q].doc EXCEPT !.client = TRUE]
      OBVIOUS
    <3>2. doc \in Doc /\ doc.refresh = job[q].doc.refresh
      BY <1>0, <3>1 DEF McpJob, Doc
    <3>3. job' = [job EXCEPT ![q].doc = doc, ![q].at = "pend"]
      BY <2>3, <3>1 DEF McpInv, McpJob
    <3>4. doc.refresh \in 0..issued /\ Accounted(doc.refresh)
      BY <1>0, <2>1, <3>2 DEF Funded, FromPage, At
    <3> QED BY <2>1, <3>2, <3>3, <3>4, PageLoads DEF At, Storing
  <2> QED BY <1>3, <2>2, <2>3 DEF RegisterClient
<1>4. CASE OAuthCallback(q)
  <2>1. UNCHANGED <<Elsewhere, tokenLock>> /\ At(q, "callback", "idle")
    BY <1>4 DEF OAuthCallback, Elsewhere
  <2>2. CASE Finish(q)
    BY <2>1, <2>2, EndQuietly DEF LockMoves, At, Storing
  <2>3. CASE job' = [job EXCEPT ![q].doc = oauth, ![q].at = "exchange"]
    <3>1. PICK doc : doc = oauth
      OBVIOUS
    <3>2. doc \in Doc /\ doc.refresh \in 0..issued /\ Accounted(doc.refresh)
      BY <3>1, DocLoaded
    <3>3. job' = [job EXCEPT ![q].doc = doc, ![q].at = "exchange"]
      BY <2>3, <3>1
    <3> QED BY <2>1, <3>2, <3>3, PageLoads DEF At, Storing
  <2> QED BY <1>4, <2>2, <2>3 DEF OAuthCallback
<1>5. CASE ExecuteMCPTool(q)
  <2>1. UNCHANGED <<Elsewhere, tokenLock>> /\ ReadsServer(q)
    BY <1>5 DEF ExecuteMCPTool, Elsewhere
  <2>2. CASE Finish(q)
    BY <2>1, <2>2, EndQuietly DEF LockMoves, ReadsServer, Storing
  <2>3. ASSUME NEW to \in {"token", "connect"}, MoveTo(q, to) PROVE McpInv'
    BY <2>1, <2>3, MoveQuietly DEF LockMoves, ReadsServer, Storing, Caller
  <2> QED BY <1>5, <2>2, <2>3 DEF ExecuteMCPTool
<1>6. CASE AskForToken(q)
  <2>1. UNCHANGED Elsewhere /\ tokenLock = 0 /\ tokenLock' = q /\ MoveTo(q, "load") /\ job[q].at = "token"
    BY <1>6 DEF AskForToken, Lock, Elsewhere
  <2> QED BY <1>0, <2>1, MoveQuietly DEF LockMoves, Storing, Placed
<1>7. CASE LoadMCPOAuthDoc(q)
  <2>1. UNCHANGED Elsewhere /\ job[q].at = "load" /\ tokenLock = q /\ Caller(job[q])
    BY <1>0, <1>7 DEF LoadMCPOAuthDoc, Elsewhere, Placed
  <2>2. CASE Unlock(q) /\ (Finish(q) \/ MoveTo(q, "connect"))
    <3>1. LockMoves(q) /\ ~Storing(job[q])
      BY <2>1, <2>2 DEF Unlock, LockMoves, Storing
    <3> QED BY <2>1, <2>2, <3>1, EndQuietly, MoveQuietly
  <2>3. CASE /\ server.there /\ oauth.refresh # 0 /\ tokenLock' = tokenLock
             /\ job' = [job EXCEPT ![q].doc = oauth, ![q].was = oauth.refresh, ![q].at = "refresh"]
    <3>1. PICK w : w = [job[q] EXCEPT !.doc = oauth, !.was = oauth.refresh, !.at = "refresh"]
      OBVIOUS
    <3>2. oauth \in Doc /\ oauth.refresh \in Nat /\ Accounted(oauth.refresh) /\ oauth.refresh \in 1..issued
      BY <2>3, DocLoaded DEF McpInv, McpTypeOK
    <3>3. w \in McpJob /\ w.at = "refresh" /\ w.kind = job[q].kind /\ w.doc = oauth /\ w.was = oauth.refresh
      BY <1>0, <3>1, <3>2 DEF McpJob, Places
    <3>4. job' = [job EXCEPT ![q] = w]
      BY <2>3, <3>1 DEF McpInv, McpJob
    <3>5. Placed(q, w)'
      BY <2>1, <2>3, <3>3 DEF Placed, Storing, Caller
    <3>6. ~\E p \in Jobs : Storing(job[p])
      BY <2>1 DEF McpInv, Placed, Storing
    <3>7. Funded(w)
      BY <2>1, <3>2, <3>3, <3>6 DEF Funded, FromPage, Caller, Storing, Accounted
    <3> QED BY <2>1, <2>3, <3>3, <3>4, <3>5, <3>7, QuietStep DEF LockMoves, Storing
  <2> QED BY <1>7, <2>2, <2>3 DEF LoadMCPOAuthDoc
<1>8. CASE Handshake(q)
  <2>1. UNCHANGED <<Elsewhere, tokenLock>> /\ job[q].at = "connect"
    BY <1>8 DEF Handshake, Elsewhere
  <2>2. CASE Finish(q)
    BY <2>1, <2>2, EndQuietly DEF LockMoves, Storing
  <2>3. CASE MoveTo(q, "rpc")
    BY <1>0, <2>1, <2>3, MoveQuietly DEF LockMoves, Storing, Placed
  <2> QED BY <1>8, <2>2, <2>3 DEF Handshake
<1>9. CASE CallTool(q)
  BY <1>9, EndQuietly DEF CallTool, Elsewhere, LockMoves, Storing
<1>10. CASE ListTools(q)
  <2>1. UNCHANGED <<Elsewhere, tokenLock>> /\ At(q, "sync", "rpc")
    BY <1>10 DEF ListTools, Elsewhere
  <2>2. CASE Finish(q)
    BY <2>1, <2>2, EndQuietly DEF LockMoves, At, Storing
  <2>3. ASSUME NEW S \in SUBSET Offered, job' = [job EXCEPT ![q].lists = S, ![q].at = "replace"] PROVE McpInv'
    <3>1. PICK w : w = [job[q] EXCEPT !.lists = S, !.at = "replace"]
      OBVIOUS
    <3>2. w \in McpJob /\ w.at = "replace" /\ w.kind = "sync"
      BY <1>0, <2>1, <3>1 DEF McpJob, Places, At
    <3>3. job' = [job EXCEPT ![q] = w]
      BY <2>3, <3>1 DEF McpInv, McpJob
    <3>4. Placed(q, w)' /\ Funded(w)
      BY <3>2 DEF Placed, Storing, Caller, FromPage, Funded
    <3> QED BY <2>1, <3>2, <3>3, <3>4, QuietStep DEF LockMoves, At, Storing
  <2> QED BY <1>10, <2>2, <2>3 DEF ListTools
<1>11. CASE DeleteTools(q)
  <2>1. UNCHANGED <<Elsewhere, tokenLock>> /\ At(q, "sync", "replace")
    BY <1>11 DEF DeleteTools, Elsewhere
  <2>2. PICK w : w = [job[q] EXCEPT !.was = syncs, !.at = "tx"]
    OBVIOUS
  <2>3. w \in McpJob /\ w.at = "tx" /\ w.kind = "sync"
    BY <1>0, <2>1, <2>2 DEF McpInv, McpJob, Places, At
  <2>4. job' = [job EXCEPT ![q] = w]
    BY <1>11, <2>2 DEF DeleteTools, McpInv, McpJob
  <2>5. Placed(q, w)' /\ Funded(w)
    BY <2>3 DEF Placed, Storing, Caller, FromPage, Funded
  <2> QED BY <2>1, <2>3, <2>4, <2>5, QuietStep DEF LockMoves, At, Storing
<1> QED BY <1>1, <1>2, <1>3, <1>4, <1>5, <1>6, <1>7, <1>8, <1>9, <1>10, <1>11

\* A step that has to do with the tokens alone.
LEMMA TokenStep ==
  ASSUME McpInv, NEW q \in Jobs, NEW w \in McpJob, job' = [job EXCEPT ![q] = w],
         UNCHANGED <<toolRows, chosen, crossed>>, server'.there = server.there, LockMoves(q),
         issued <= issued', issued' \in Nat, excused \subseteq excused',
         spent' = spent \/ tokenLock = q,
         \A t \in 0..issued : HeldByAPage(t) /\ Accounted(t) => Accounted(t)',
         Placed(q, w)', Funded(w)', w.at \notin {"delete", "mirror"},
         InTheRow', GrantIsNotRaced', McpTypeOK'
  PROVE  McpInv'
<1>1. job' \in [Jobs -> McpJob] /\ job'[q] = w /\ \A p \in Jobs \ {q} : job'[p] = job[p]
  BY OneRow DEF McpInv
<1>2. UNCHANGED <<mcpTools, mirror, syncs, chosen, crossed>>
  BY DEF toolRows
<1>3. \A p \in Jobs : Placed(p, job[p])'
  BY PlacedStep DEF LockMoves
<1>4. \A p \in Jobs : Funded(job[p])'
  BY FundedStep
<1>5. \A p \in Jobs : Mirroring(job[p])'
  BY <1>1, <1>2 DEF McpInv, Mirroring
<1>6. MirrorsAgree'
  BY <1>2 DEF McpInv, MirrorsAgree, MirrorsGoWithServer, RiskIsKept
<1>7. syncs' \in Nat
  BY <1>2 DEF McpInv
<1> QED BY <1>1, <1>3, <1>4, <1>5, <1>6, <1>7 DEF McpInv

\* saveMCPOAuthDoc stores a document, if the server is there.
LEMMA DocSaved ==
  ASSUME McpInv, NEW doc \in Doc, SaveMCPOAuthDoc(doc)
  PROVE  /\ server' \in [there : BOOLEAN, auth : {"config", "oauth"}, transport : {"http", "stdio"}]
         /\ server'.there = server.there /\ oauth' \in Doc
         /\ server.there => oauth' = doc
         /\ ~server.there => oauth' = NoDoc
BY DocLoaded DEF SaveMCPOAuthDoc, McpInv, McpTypeOK, InTheRow, Doc

\* Saving a flow that has just begun.
LEMMA SavePendingStep == ASSUME McpInv, NEW q \in Jobs, SavePending(q) PROVE McpInv'
<1>1. /\ UNCHANGED <<toolRows, tokenLock, issued, spent, live, reused, excused, chosen, crossed, mishaps>>
      /\ At(q, "start", "pend") /\ Finish(q)
  BY DEF SavePending
<1>2. PICK w \in McpJob : w = NullRow(job[q].kind)
  BY <1>1, Ended
<1>3. job' = [job EXCEPT ![q] = w] /\ w.at = "done" /\ w.doc.refresh = 0 /\ w.was = 0
  BY <1>1, <1>2, Ended, NullRows DEF NullRow, NewJob, NoDoc
<1>4. \A t : Accounted(t) => Accounted(t)'
  BY <1>1, <1>3, StillAccounted DEF At, Storing
<1>5. PICK doc : doc = [job[q].doc EXCEPT !.pending = q]
  OBVIOUS
<1>6. doc \in Doc /\ doc.refresh = job[q].doc.refresh
  BY <1>5 DEF McpInv, McpJob, Doc
<1>7. doc.refresh \in 0..issued /\ Accounted(doc.refresh)
  BY <1>1, <1>6 DEF McpInv, Funded, FromPage, At
<1>8. \/ SaveMCPOAuthDoc(doc) /\ asked' = asked \cup {q} /\ codes' = codes \cup {q}
      \/ UNCHANGED <<server, oauth, asked, codes>>
  BY <1>5 DEF SavePending
<1>9. /\ server' \in [there : BOOLEAN, auth : {"config", "oauth"}, transport : {"http", "stdio"}]
      /\ server'.there = server.there /\ oauth' \in Doc
      /\ oauth'.refresh \in 0..issued /\ Accounted(oauth'.refresh)
      /\ ~server.there => oauth' = NoDoc
  <2>1. CASE SaveMCPOAuthDoc(doc)
    BY <1>6, <1>7, <2>1, DocSaved, ZeroIsAccounted, DocLoaded
  <2>2. CASE UNCHANGED <<server, oauth, asked, codes>>
    BY <2>2, DocLoaded DEF McpInv, McpTypeOK, InTheRow
  <2> QED BY <1>8, <2>1, <2>2
<1>10. McpTypeOK'
  BY <1>1, <1>8, <1>9 DEF McpInv, McpTypeOK, Doc, toolRows
<1>11. InTheRow'
  <2>1. PICK v \in 0..issued : v = oauth'.refresh
    BY <1>9
  <2>2. Accounted(v)'
    BY <1>4, <1>9, <2>1
  <2> QED BY <1>1, <1>9, <2>1, <2>2 DEF InTheRow, Accounted
<1>12. Placed(q, w)' /\ Funded(w)'
  <2>1. Accounted(0)'
    BY <1>4, ZeroIsAccounted
  <2> QED BY <1>1, <1>3, <2>1, ZeroIsAccounted DEF Placed, Storing, Funded
<1>13. issued \in Nat /\ GrantIsNotRaced'
  BY <1>1 DEF McpInv, McpTypeOK, GrantIsNotRaced
<1>14. /\ UNCHANGED <<toolRows, chosen, crossed>> /\ LockMoves(q)
       /\ issued <= issued' /\ issued' \in Nat /\ excused \subseteq excused' /\ spent' = spent
  BY <1>1, <1>13 DEF LockMoves
<1> QED BY <1>3, <1>4, <1>9, <1>10, <1>11, <1>12, <1>13, <1>14, TokenStep

\* The code is exchanged, once.
LEMMA ExchangeCodeStep == ASSUME McpInv, NEW q \in Jobs, ExchangeCode(q) PROVE McpInv'
<1>1. /\ UNCHANGED <<server, oauth, toolRows, tokenLock, spent, mcpHist>> /\ At(q, "callback", "exchange")
      /\ job[q] \in McpJob /\ Funded(job[q]) /\ issued \in Nat /\ ~Storing(job[q])
  BY DEF ExchangeCode, McpInv, McpTypeOK, At, Storing, Caller
<1>2. CASE Finish(q) /\ UNCHANGED <<issued, live, codes>>
  BY <1>1, <1>2, EndQuietly DEF LockMoves, Elsewhere, asVars
<1>3. CASE /\ codes' = codes \ {job[q].doc.pending} /\ Grant(TRUE)
           /\ job' = [job EXCEPT ![q].doc = [ApplyToken(@, TRUE) EXCEPT !.pending = 0], ![q].at = "keep"]
  <2>1. issued' = issued + 1 /\ issued' \in 0..MaxTokens /\ live' = live \cup {issued + 1}
    BY <1>1, <1>3, McpAssumption DEF Grant
  <2>2. PICK doc : doc = [ApplyToken(job[q].doc, TRUE) EXCEPT !.pending = 0]
    OBVIOUS
  <2>3. doc \in Doc /\ doc.refresh = issued'
    <3>1. doc = [[job[q].doc EXCEPT !.access = issued', !.refresh = issued'] EXCEPT !.pending = 0]
      BY <2>1, <2>2 DEF ApplyToken
    <3>2. job[q].doc \in Doc
      BY <1>1 DEF McpJob
    <3> QED BY <2>1, <3>1, <3>2 DEF Doc
  <2>4. PICK w : w = [job[q] EXCEPT !.doc = doc, !.at = "keep"]
    OBVIOUS
  <2>5. w \in McpJob /\ w.doc = doc /\ w.at = "keep" /\ w.kind = "callback" /\ w.was = 0
    BY <1>1, <2>3, <2>4 DEF McpInv, Placed, McpJob, Places, At
  <2>6. job' = [job EXCEPT ![q] = w]
    BY <1>3, <2>2, <2>4 DEF McpInv, McpJob
  <2>7. \A t : Accounted(t) => Accounted(t)'
    BY <1>1, <2>5, <2>6, StillAccounted DEF mcpHist
  <2>8. Placed(q, w)'
    BY <2>5 DEF Placed, Storing, Caller
  <2>9. Funded(w)'
    <3>1. issued' \notin spent' /\ issued' \in Nat
      BY <1>1, <2>1 DEF McpInv, McpTypeOK
    <3>2. w.doc.refresh \in 0..issued' /\ w.doc.refresh \notin spent'
      BY <2>3, <2>5, <3>1
    <3>3. Accounted(w.doc.refresh)'
      BY <3>2 DEF Accounted
    <3> QED BY <2>5, <3>2, <3>3 DEF Funded, Storing, Caller
  <2>10. InTheRow'
    <3>1. PICK v \in 0..issued : v = oauth.refresh /\ Accounted(v)
      BY DocLoaded
    <3>2. Accounted(v)' /\ v \in 0..issued' /\ oauth'.refresh = v
      BY <1>1, <2>1, <2>7, <3>1
    <3> QED BY <1>1, <3>2 DEF InTheRow, Accounted, McpInv
  <2>11. McpTypeOK' /\ GrantIsNotRaced'
    <3>1. UNCHANGED <<server, oauth, mcpTools, mirror, syncs, tokenLock, spent, asked, reused, excused, chosen, crossed>>
      BY <1>1 DEF toolRows, mcpHist
    <3>2. 1..issued' = 1..issued \cup {issued + 1}
      BY <1>1, <2>1
    <3> QED BY <1>3, <2>1, <3>1, <3>2 DEF McpInv, McpTypeOK, GrantIsNotRaced
  <2>12. /\ UNCHANGED <<toolRows, chosen, crossed>> /\ LockMoves(q) /\ server'.there = server.there
         /\ issued <= issued' /\ issued' \in Nat /\ excused \subseteq excused' /\ spent' = spent
    BY <1>1, <2>1 DEF LockMoves, mcpHist
  <2> QED BY <2>5, <2>6, <2>7, <2>8, <2>9, <2>10, <2>11, <2>12, TokenStep
<1> QED BY <1>2, <1>3 DEF ExchangeCode

\* The browser flow stores its tokens.
LEMMA SaveTokensStep == ASSUME McpInv, NEW q \in Jobs, SaveTokens(q) PROVE McpInv'
<1>1. /\ UNCHANGED <<toolRows, tokenLock, asVars, mcpHist>> /\ At(q, "callback", "keep")
      /\ job[q] \in McpJob /\ Funded(job[q]) /\ issued \in Nat /\ ~Storing(job[q])
  BY DEF SaveTokens, McpInv, McpTypeOK, At, Storing, Caller
<1>2. CASE Finish(q) /\ UNCHANGED <<server, oauth>>
  BY <1>1, <1>2, EndQuietly DEF LockMoves, Elsewhere
<1>3. CASE SaveMCPOAuthDoc(job[q].doc) /\ job' = [job EXCEPT ![q] = NewJob("sync")]
  <2>1. PICK doc \in Doc : doc = job[q].doc
    BY <1>1 DEF McpJob
  <2>2. doc.refresh \in 0..issued /\ Accounted(doc.refresh) /\ SaveMCPOAuthDoc(doc)
    BY <1>1, <1>3, <2>1 DEF Funded, FromPage, At
  <2>3. PICK w \in McpJob : w = NewJob("sync")
    BY NullRows DEF JobKinds
  <2>4. job' = [job EXCEPT ![q] = w] /\ w.at = "idle" /\ w.kind = "sync" /\ w.doc = NoDoc
    BY <1>3, <2>3 DEF NewJob
  <2>5. UNCHANGED <<mcpTools, mirror, syncs, issued, spent, live, codes, asked, reused, excused, chosen, crossed>>
    BY <1>1 DEF toolRows, asVars, mcpHist
  <2>6. \A t : Accounted(t) => Accounted(t)'
    BY <1>1, <2>4, <2>5, StillAccounted
  <2>7. InTheRow'
    <3>1. PICK v \in 0..issued : v = oauth'.refresh /\ Accounted(v)
      BY <2>2, DocSaved, ZeroIsAccounted, DocLoaded
    <3>2. Accounted(v)'
      BY <2>6, <3>1
    <3> QED BY <2>2, <2>5, <3>1, <3>2, DocSaved DEF InTheRow, Accounted
  <2>8. McpTypeOK' /\ GrantIsNotRaced' /\ server'.there = server.there
    BY <1>1, <2>2, <2>5, DocSaved DEF McpInv, McpTypeOK, GrantIsNotRaced, Doc
  <2>9. Placed(q, w)' /\ Funded(w)'
    BY <2>4 DEF Placed, Storing, Funded, FromPage
  <2>10. /\ UNCHANGED <<toolRows, chosen, crossed>> /\ LockMoves(q)
         /\ issued <= issued' /\ issued' \in Nat /\ excused \subseteq excused' /\ spent' = spent
    BY <1>1, <2>5 DEF LockMoves
  <2> QED BY <2>4, <2>6, <2>7, <2>8, <2>9, <2>10, TokenStep
<1> QED BY <1>2, <1>3 DEF SaveTokens

\* The server refuses a refresh.
LEMMA RefusedStep == ASSUME McpInv, NEW q \in Jobs, job[q].at = "refresh", Refused(q) PROVE McpInv'
<1>1. /\ UNCHANGED <<server, oauth, toolRows, asVars, asked, excused, chosen, crossed, mishaps>>
      /\ Finish(q) /\ Unlock(q) /\ tokenLock = q /\ ~Storing(job[q]) /\ issued \in Nat
  BY DEF Refused, McpInv, McpTypeOK, Placed, Storing
<1>2. PICK w \in McpJob : w = NullRow(job[q].kind)
  BY <1>1, Ended
<1>3. job' = [job EXCEPT ![q] = w] /\ w.at = "done" /\ w.doc.refresh = 0 /\ w.was = 0
  BY <1>1, <1>2, Ended, NullRows DEF NullRow, NewJob, NoDoc
<1>4. UNCHANGED <<mcpTools, mirror, syncs, issued, spent, live, codes>> /\ LockMoves(q)
  BY <1>1 DEF toolRows, asVars, Unlock, LockMoves
<1>5. \A t : Accounted(t) => Accounted(t)'
  BY <1>1, <1>3, <1>4, StillAccounted
<1>6. reused' \subseteq reused \cup (spent \cap excused)
  BY DEF Refused, McpInv, Funded
<1>7. McpTypeOK' /\ GrantIsNotRaced'
  BY <1>1, <1>4, <1>6 DEF McpInv, McpTypeOK, GrantIsNotRaced, LockMoves
<1>8. InTheRow'
  BY <1>1, <1>4, <1>5 DEF McpInv, InTheRow
<1>9. Placed(q, w)' /\ Funded(w)'
  <2>1. Accounted(0)'
    BY <1>5, ZeroIsAccounted
  <2> QED BY <1>1, <1>3, <1>4, <2>1, ZeroIsAccounted DEF Placed, Storing, Funded
<1>10. /\ UNCHANGED <<toolRows, chosen, crossed>> /\ server'.there = server.there
       /\ issued <= issued' /\ issued' \in Nat /\ excused \subseteq excused' /\ spent' = spent
  BY <1>1, <1>4
<1> QED BY <1>3, <1>4, <1>5, <1>7, <1>8, <1>9, <1>10, TokenStep

\* The server grants a refresh, and may replace the refresh token.
LEMMA GrantedStep ==
  ASSUME McpInv, NEW q \in Jobs, NEW rotates \in BOOLEAN, job[q].at = "refresh", Granted(q, rotates)
  PROVE  McpInv'
<1>1. /\ UNCHANGED <<server, oauth, toolRows, codes, asked, reused, chosen, crossed>>
      /\ job[q].was \notin spent /\ tokenLock = q /\ issued \in Nat /\ job[q] \in McpJob
      /\ job[q].was \in 1..issued /\ job[q].doc.refresh = job[q].was /\ Caller(job[q])
  BY DEF Granted, McpInv, McpTypeOK, Placed, Funded
<1>2. issued' = issued + 1 /\ issued' \in 0..MaxTokens /\ live' = live \cup {issued + 1}
  BY <1>1, McpAssumption DEF Granted, Grant
<1>3. UNCHANGED <<mcpTools, mirror, syncs>>
  BY <1>1 DEF toolRows
<1>4. \A p \in Jobs : ~Storing(job[p])
  BY <1>1 DEF McpInv, Placed, Storing
<1>5. PICK x \in 1..issued : x = job[q].was
  BY <1>1
<1>6. spent' = IF rotates THEN spent \cup {x} ELSE spent
  BY <1>5 DEF Granted
<1>7. \A t : (Accounted(t) /\ t \in spent) => t \in excused
  BY <1>4 DEF Accounted
<1>8. 1..issued' = 1..issued \cup {issued + 1} /\ issued + 1 \notin spent /\ issued + 1 # x
  BY <1>1, <1>2, <1>5 DEF McpInv, McpTypeOK
<1>9. CASE /\ job' = [job EXCEPT ![q].doc = ApplyToken(@, rotates), ![q].at = "keep"]
           /\ UNCHANGED <<tokenLock, excused, mishaps>>
  <2>1. PICK doc : doc = ApplyToken(job[q].doc, rotates)
    OBVIOUS
  <2>2. doc \in Doc /\ doc.refresh = IF rotates THEN issued' ELSE x
    <3>1. job[q].doc \in Doc
      BY <1>1 DEF McpJob
    <3> QED BY <1>1, <1>2, <1>5, <2>1, <3>1 DEF Doc, ApplyToken
  <2>3. PICK w : w = [job[q] EXCEPT !.doc = doc, !.at = "keep"]
    OBVIOUS
  <2>4. w \in McpJob /\ w.doc = doc /\ w.at = "keep" /\ w.kind = job[q].kind /\ w.was = x
    BY <1>1, <1>5, <2>2, <2>3 DEF McpJob, Places
  <2>5. job' = [job EXCEPT ![q] = w]
    BY <1>9, <2>1, <2>3 DEF McpInv, McpJob
  <2>6. Storing(w) /\ job'[q] = w
    BY <1>1, <2>4, <2>5 DEF Storing, Caller, McpInv
  <2>7. \A t : Accounted(t) => Accounted(t)'
    <3>1. ASSUME NEW t, Accounted(t), t \in spent' PROVE t \in excused' \/ t = x
      BY <1>6, <1>7, <1>9, <3>1
    <3>2. Storing(job[q])' /\ job'[q].was = x
      BY <2>4, <2>6 DEF Storing, Caller
    <3> QED BY <3>1, <3>2 DEF Accounted
  <2>8. Placed(q, w)'
    BY <1>1, <1>9, <2>4, <2>6 DEF Placed, Storing, Caller
  <2>9. Funded(w)'
    <3>1. w.doc.refresh \in 0..issued' /\ w.doc.refresh \notin spent' /\ w.was \in 1..issued'
      BY <1>1, <1>2, <1>5, <1>6, <1>8, <2>2, <2>4
    <3>2. ~FromPage(w)
      BY <1>1, <2>4 DEF FromPage, Caller
    <3> QED BY <2>4, <3>1, <3>2 DEF Funded, FromPage
  <2>10. InTheRow'
    <3>1. PICK v \in 0..issued : v = oauth.refresh /\ Accounted(v)
      BY DocLoaded
    <3>2. Accounted(v)' /\ v \in 0..issued' /\ oauth'.refresh = v
      BY <1>1, <1>2, <2>7, <3>1
    <3> QED BY <1>1, <3>2 DEF InTheRow, Accounted, McpInv
  <2>11. McpTypeOK' /\ GrantIsNotRaced'
    BY <1>1, <1>2, <1>3, <1>5, <1>6, <1>8, <1>9 DEF McpInv, McpTypeOK, GrantIsNotRaced
  <2>12. /\ UNCHANGED <<toolRows, chosen, crossed>> /\ LockMoves(q) /\ server'.there = server.there
         /\ issued <= issued' /\ issued' \in Nat /\ excused \subseteq excused'
    BY <1>1, <1>2, <1>9 DEF LockMoves
  <2> QED BY <1>1, <2>4, <2>5, <2>7, <2>8, <2>9, <2>10, <2>11, <2>12, TokenStep
<1>10. CASE excused' = excused \cup {x} /\ Finish(q) /\ Unlock(q)
  <2>1. PICK w \in McpJob : w = NullRow(job[q].kind)
    BY <1>10, Ended
  <2>2. job' = [job EXCEPT ![q] = w] /\ w.at = "done" /\ w.doc.refresh = 0 /\ w.was = 0
    BY <1>1, <1>10, <2>1, Ended, NullRows DEF NullRow, NewJob, NoDoc
  <2>3. \A t : Accounted(t) => Accounted(t)'
    BY <1>6, <1>7, <1>10 DEF Accounted
  <2>4. Placed(q, w)' /\ Funded(w)'
    <3>1. Accounted(0)' /\ 0 \in 0..issued'
      BY <1>2, <2>3, ZeroIsAccounted
    <3> QED BY <2>2, <3>1 DEF Placed, Storing, Funded
  <2>5. InTheRow'
    <3>1. PICK v \in 0..issued : v = oauth.refresh /\ Accounted(v)
      BY DocLoaded
    <3>2. Accounted(v)' /\ v \in 0..issued' /\ oauth'.refresh = v
      BY <1>1, <1>2, <2>3, <3>1
    <3> QED BY <1>1, <3>2 DEF InTheRow, Accounted, McpInv
  <2>6. McpTypeOK' /\ GrantIsNotRaced'
    BY <1>1, <1>2, <1>3, <1>5, <1>6, <1>8, <1>10 DEF McpInv, McpTypeOK, GrantIsNotRaced, Unlock
  <2>7. /\ UNCHANGED <<toolRows, chosen, crossed>> /\ LockMoves(q) /\ server'.there = server.there
         /\ issued <= issued' /\ issued' \in Nat /\ excused \subseteq excused'
    BY <1>1, <1>2, <1>10 DEF LockMoves, Unlock
  <2> QED BY <1>1, <2>2, <2>3, <2>4, <2>5, <2>6, <2>7, TokenStep
<1> QED BY <1>5, <1>9, <1>10 DEF Granted

\* The refreshed tokens are stored, under the mutex.
LEMMA SaveRefreshedStep == ASSUME McpInv, NEW q \in Jobs, SaveRefreshed(q) PROVE McpInv'
<1>1. /\ UNCHANGED <<toolRows, asVars, asked, reused, chosen, crossed>>
      /\ Storing(job[q]) /\ tokenLock = q /\ tokenLock' = 0 /\ issued \in Nat
      /\ job[q] \in McpJob /\ Funded(job[q])
  BY DEF SaveRefreshed, Storing, Caller, Unlock, McpInv, McpTypeOK, Placed
<1>2. PICK x \in 1..issued, doc \in Doc : x = job[q].was /\ doc = job[q].doc
  BY <1>1 DEF Funded, McpJob
<1>3. doc.refresh \in 0..issued /\ doc.refresh \notin spent
  BY <1>1, <1>2 DEF Funded
<1>4. \A p \in Jobs : Storing(job[p]) => p = q
  BY <1>1 DEF McpInv, Placed
<1>5. \A t : (Accounted(t) /\ t # x /\ t \in spent) => t \in excused
  BY <1>2, <1>4 DEF Accounted
<1>6. UNCHANGED <<mcpTools, mirror, syncs, issued, spent, live, codes>> /\ LockMoves(q)
  BY <1>1 DEF toolRows, asVars, LockMoves
<1>7. CASE /\ SaveMCPOAuthDoc(job[q].doc) /\ MoveTo(q, "connect")
           /\ excused' = IF HeldByAPage(job[q].was) THEN excused \cup {job[q].was} ELSE excused
  <2>1. PICK w \in McpJob : w = [job[q] EXCEPT !.at = "connect"]
    BY <1>7, Moved DEF Places
  <2>2. job' = [job EXCEPT ![q] = w]
    BY <1>7, <2>1, Moved DEF Places
  <2>3. w.at = "connect" /\ Caller(w)
    BY <1>1, <2>1 DEF McpJob, Caller, Storing
  <2>4. \A t : HeldByAPage(t) /\ Accounted(t) => Accounted(t)'
    BY <1>2, <1>5, <1>6, <1>7 DEF Accounted
  <2>5. Placed(q, w)' /\ Funded(w)'
    BY <2>3 DEF Placed, Storing, Caller, Funded, FromPage
  <2>6. SaveMCPOAuthDoc(doc)
    BY <1>2, <1>7
  <2>7. InTheRow'
    <3>1. oauth'.refresh \in 0..issued /\ oauth'.refresh \notin spent /\ (~server'.there => oauth' = NoDoc)
      BY <1>3, <2>6, DocSaved, DocLoaded DEF McpInv, McpTypeOK
    <3> QED BY <1>6, <3>1 DEF InTheRow, Accounted
  <2>8. excused' \subseteq 1..issued /\ excused \subseteq excused'
    BY <1>2, <1>7 DEF McpInv, McpTypeOK
  <2>9. McpTypeOK' /\ GrantIsNotRaced' /\ server'.there = server.there
    BY <1>1, <1>6, <2>6, <2>8, DocSaved DEF McpInv, McpTypeOK, GrantIsNotRaced, Doc
  <2>10. UNCHANGED <<toolRows, chosen, crossed>> /\ issued <= issued' /\ issued' \in Nat
    BY <1>1, <1>6
  <2> QED BY <1>1, <1>6, <2>2, <2>3, <2>4, <2>5, <2>7, <2>8, <2>9, <2>10, TokenStep
<1>8. CASE Finish(q) /\ excused' = excused \cup {job[q].was} /\ UNCHANGED <<server, oauth>>
  <2>1. PICK w \in McpJob : w = NullRow(job[q].kind)
    BY <1>8, Ended
  <2>2. job' = [job EXCEPT ![q] = w] /\ w.at = "done" /\ w.doc.refresh = 0 /\ w.was = 0
    BY <1>1, <1>8, <2>1, Ended, NullRows DEF NullRow, NewJob, NoDoc
  <2>3. \A t : Accounted(t) => Accounted(t)'
    BY <1>2, <1>5, <1>6, <1>8 DEF Accounted
  <2>4. Placed(q, w)' /\ Funded(w)'
    <3>1. Accounted(0)' /\ 0 \in 0..issued'
      BY <1>6, <2>3, ZeroIsAccounted
    <3> QED BY <2>2, <3>1 DEF Placed, Storing, Funded
  <2>5. InTheRow'
    BY <1>6, <1>8, <2>3 DEF McpInv, InTheRow
  <2>6. McpTypeOK' /\ GrantIsNotRaced'
    BY <1>1, <1>2, <1>6, <1>8 DEF McpInv, McpTypeOK, GrantIsNotRaced
  <2>7. /\ UNCHANGED <<toolRows, chosen, crossed>> /\ server'.there = server.there
        /\ issued <= issued' /\ issued' \in Nat /\ excused \subseteq excused'
    BY <1>1, <1>6, <1>8
  <2> QED BY <1>1, <1>6, <2>2, <2>3, <2>4, <2>5, <2>6, <2>7, TokenStep
<1> QED BY <1>7, <1>8 DEF SaveRefreshed

Tokens == <<server, oauth, asVars, asked, reused, excused>>
ToolTypes ==
  /\ syncs \in Nat /\ mcpTools \in [Offered -> [risk : {"none", "medium", "high"}, id : 0..syncs]]
  /\ mirror \in [Offered -> [of : {"none", "this", "other"}, risk : {"none", "medium", "high"}]]
  /\ crossed \subseteq {"delete", "risk"} /\ chosen \in [Offered -> {"none", "medium", "high"}]

\* A step that has to do with the tools alone.
LEMMA ToolStep ==
  ASSUME McpInv, NEW q \in Jobs, NEW w \in McpJob, job' = [job EXCEPT ![q] = w],
         UNCHANGED <<Tokens, tokenLock>>, ~Storing(job[q]), Placed(q, w)', Funded(w),
         \A p \in Jobs : Mirroring(job[p])', MirrorsAgree', ToolTypes'
  PROVE  McpInv'
<1>1. job' \in [Jobs -> McpJob] /\ job'[q] = w
  BY OneRow DEF McpInv
<1>2. UNCHANGED <<server, oauth, issued, spent, live, codes, asked, reused, excused, tokenLock>>
  BY DEF Tokens, asVars
<1>3. \A t : Accounted(t) => Accounted(t)'
  BY <1>2, StillAccounted
<1>4. \A p \in Jobs : Placed(p, job[p])'
  BY PlacedStep
<1>5. Funded(w)'
  BY <1>2, <1>3 DEF Funded
<1>6. \A p \in Jobs : Funded(job[p])'
  <2>1. issued \in Nat
    BY DEF McpInv, McpTypeOK
  <2>2. issued <= issued' /\ issued' \in Nat /\ excused \subseteq excused' /\ spent' = spent
    BY <1>2, <2>1
  <2> QED BY <1>3, <1>5, <2>2, FundedStep
<1>7. InTheRow' /\ GrantIsNotRaced'
  BY <1>2, <1>3 DEF McpInv, InTheRow, GrantIsNotRaced
<1>8. McpTypeOK' /\ syncs' \in Nat
  BY <1>2 DEF McpInv, McpTypeOK, ToolTypes
<1> QED BY <1>1, <1>4, <1>6, <1>7, <1>8 DEF McpInv

\* The part of the type invariant about tools.
LEMMA ToolsTyped == ASSUME McpInv PROVE ToolTypes
BY DEF McpInv, McpTypeOK, ToolTypes

\* A job that wrote tools ends.
LEMMA ToolJobEnds ==
  ASSUME McpInv, NEW q \in Jobs, Finish(q), UNCHANGED <<Tokens, tokenLock>>, ~Storing(job[q]),
         \A p \in Jobs \ {q} : Mirroring(job[p])', MirrorsAgree', ToolTypes'
  PROVE  McpInv'
<1>1. PICK w \in McpJob : w = NullRow(job[q].kind)
  BY Ended
<1>2. job' = [job EXCEPT ![q] = w] /\ w.at = "done" /\ w.doc.refresh = 0 /\ w.was = 0
  BY <1>1, Ended, NullRows DEF NullRow, NewJob, NoDoc
<1>3. job'[q] = w
  BY <1>2, OneRow DEF McpInv
<1>4. \A p \in Jobs : Mirroring(job[p])'
  BY <1>2, <1>3 DEF Mirroring
<1>5. Placed(q, w)' /\ Funded(w)
  BY <1>2, ZeroIsAccounted DEF Placed, Storing, Funded
<1> QED BY <1>2, <1>4, <1>5, ToolStep

\* A sync writes the server's tools and their mirrored rows.
LEMMA SyncServerToolsStep == ASSUME McpInv, NEW q \in Jobs, SyncServerTools(q) PROVE McpInv'
<1>1. /\ UNCHANGED <<server, oauth, tokenLock, asVars, asked, reused, excused, mishaps>>
      /\ At(q, "sync", "tx") /\ Finish(q) /\ ~Storing(job[q]) /\ job[q] \in McpJob
  BY DEF SyncServerTools, At, Storing, McpInv
<1>2. CASE UNCHANGED <<toolRows, chosen, crossed>>
  BY <1>1, <1>2, EndQuietly DEF Elsewhere, LockMoves, mcpHist
<1>3. CASE ~UNCHANGED <<toolRows, chosen, crossed>>
  <2> DEFINE S == job[q].lists
  <2>1. /\ server.there
        /\ mcpTools' = [n \in Offered |-> Inserted(n, S, job[q].was)]
        /\ mirror' = [n \in Offered |-> Mirrored(n, S)]
        /\ chosen' = [n \in Offered |-> IF n \in S /\ mirror[n].of = "none" THEN ListedRisk ELSE chosen[n]]
        /\ syncs' = syncs + 1
        /\ crossed' = crossed \cup {job[p].kind : p \in {x \in Jobs : job[x].at \in {"delete", "mirror"}}}
    BY <1>3 DEF SyncServerTools
  <2>2. ToolTypes
    BY ToolsTyped
  <2>3. \A p \in Jobs : /\ job[p].at = "delete" => "delete" \in crossed'
                        /\ job[p].at = "mirror" => "risk" \in crossed'
    BY <2>1 DEF McpInv, Placed
  <2>4. \A p \in Jobs \ {q} : Mirroring(job[p])'
    <3>1. \A p \in Jobs \ {q} : job'[p] = job[p]
      BY <1>1 DEF Finish, McpInv
    <3> QED BY <2>3, <3>1 DEF Mirroring
  <2>5. ToolTypes'
    <3>1. \A n \in Offered : /\ Inserted(n, S, job[q].was) \in [risk : {"none", "medium", "high"}, id : 0..(syncs + 1)]
                             /\ Mirrored(n, S) \in [of : {"none", "this", "other"}, risk : {"none", "medium", "high"}]
      BY <2>2 DEF ToolTypes, Inserted, Mirrored, NoTool, ListedRisk
    <3>2. crossed' \subseteq {"delete", "risk"}
      BY <2>1, <2>2 DEF ToolTypes, McpInv, Placed
    <3>3. syncs' = syncs + 1 /\ syncs' \in Nat
      BY <2>1, <2>2 DEF ToolTypes
    <3>4. chosen' \in [Offered -> {"none", "medium", "high"}]
      BY <2>1, <2>2 DEF ToolTypes, ListedRisk
    <3> QED BY <2>1, <3>1, <3>2, <3>3, <3>4 DEF ToolTypes
  <2>6. MirrorsAgree'
    <3>1. "risk" \in crossed' \/ \A n \in Offered : mirror[n].risk = chosen[n]
      BY <2>1 DEF McpInv, MirrorsAgree, RiskIsKept
    <3>2. \A n \in Offered : mirror[n].risk = chosen[n] => mirror'[n].risk = chosen'[n]
      BY <2>1 DEF Mirrored
    <3> QED BY <1>1, <2>1, <3>1, <3>2 DEF MirrorsAgree, MirrorsGoWithServer, RiskIsKept
  <2> QED BY <1>1, <2>4, <2>5, <2>6, ToolJobEnds DEF Tokens
<1> QED BY <1>2, <1>3

\* A page changes a tool's risk, ...
LEMMA UpdateToolRiskStep == ASSUME McpInv, NEW q \in Jobs, UpdateToolRisk(q) PROVE McpInv'
<1>1. /\ UNCHANGED <<server, oauth, mirror, syncs, tokenLock, asVars, mcpHist>>
      /\ At(q, "risk", "idle") /\ ~Storing(job[q]) /\ job[q] \in McpJob
  BY DEF UpdateToolRisk, At, Storing, McpInv
<1>2. CASE Finish(q) /\ UNCHANGED mcpTools
  BY <1>1, <1>2, EndQuietly DEF Elsewhere, LockMoves, toolRows
<1>3. ASSUME NEW n \in Offered, mcpTools' = [mcpTools EXCEPT ![n].risk = "high"],
             job' = [job EXCEPT ![q].name = n, ![q].was = mcpTools[n].id, ![q].at = "mirror"]
      PROVE  McpInv'
  <2>1. PICK w : w = [job[q] EXCEPT !.name = n, !.was = mcpTools[n].id, !.at = "mirror"]
    OBVIOUS
  <2>2. ToolTypes
    BY ToolsTyped
  <2>3. mcpTools[n].id \in Nat
    BY <2>2 DEF ToolTypes
  <2>4. w \in McpJob /\ w.at = "mirror" /\ w.kind = "risk" /\ w.name = n /\ w.was = mcpTools[n].id
    BY <1>1, <2>1, <2>3 DEF McpJob, Places, At
  <2>5. job' = [job EXCEPT ![q] = w]
    BY <1>3, <2>1 DEF McpInv, McpJob
  <2>6. UNCHANGED <<server, mirror, syncs, chosen, crossed>>
    BY <1>1 DEF mcpHist
  <2>7. \A m \in Offered : mcpTools'[m].id = mcpTools[m].id
    BY <1>3, <2>2 DEF ToolTypes
  <2>8. ToolTypes'
    BY <1>3, <2>2, <2>6 DEF ToolTypes
  <2>9. \A p \in Jobs : Mirroring(job[p])'
    <3>1. job'[q] = w /\ \A p \in Jobs \ {q} : job'[p] = job[p]
      BY <2>4, <2>5, OneRow DEF McpInv
    <3>2. Mirroring(job[q])'
      BY <2>4, <2>7, <3>1 DEF Mirroring
    <3>3. ASSUME NEW p \in Jobs \ {q} PROVE Mirroring(job[p])'
      <4>1. Mirroring(job[p]) /\ (job[p].at = "mirror" => job[p].name \in Offered)
        BY DEF McpInv, Placed
      <4> QED BY <2>6, <2>7, <3>1, <4>1 DEF Mirroring
    <3> QED BY <3>2, <3>3
  <2>10. MirrorsAgree'
    BY <2>6 DEF McpInv, MirrorsAgree, MirrorsGoWithServer, RiskIsKept
  <2>11. Placed(q, w)' /\ Funded(w)
    BY <1>3, <2>4 DEF Placed, Storing, Caller, Funded, FromPage
  <2> QED BY <1>1, <2>4, <2>5, <2>8, <2>9, <2>10, <2>11, ToolStep DEF Tokens, mcpHist
<1> QED BY <1>2, <1>3 DEF UpdateToolRisk

\* ... then that of the mirrored row.
LEMMA MirrorRiskStep == ASSUME McpInv, NEW q \in Jobs, MirrorRisk(q) PROVE McpInv'
<1> DEFINE n == job[q].name
           done == mirror[n].of = "this"
<1>1. /\ UNCHANGED <<server, oauth, mcpTools, syncs, tokenLock, asVars, asked, reused, excused>>
      /\ At(q, "risk", "mirror") /\ Finish(q) /\ ~Storing(job[q]) /\ n \in Offered
  BY DEF MirrorRisk, At, Storing, McpInv, Placed
<1>2. /\ \/ /\ mirror' = IF done /\ mcpTools[n].id = job[q].was THEN [mirror EXCEPT ![n].risk = "high"] ELSE mirror
            /\ crossed' = crossed
         \/ crossed' = crossed \cup {"risk"} /\ mirror' = mirror
      /\ chosen' = IF done THEN [chosen EXCEPT ![n] = "high"] ELSE chosen
  BY DEF MirrorRisk
<1>3. ToolTypes
  BY ToolsTyped
<1>4. ToolTypes'
  BY <1>1, <1>2, <1>3 DEF ToolTypes
<1>5. \A m \in Offered : mirror'[m].of = mirror[m].of
  BY <1>2, <1>3 DEF ToolTypes
<1>6. \A p \in Jobs \ {q} : Mirroring(job[p])'
  <2>1. \A p \in Jobs \ {q} : job'[p] = job[p] /\ Mirroring(job[p])
    BY <1>1 DEF Finish, McpInv
  <2> QED BY <1>1, <1>2, <1>5, <2>1 DEF Mirroring
<1>7. MirrorsAgree'
  <2>1. MirrorsGoWithServer'
    BY <1>1, <1>2, <1>5 DEF McpInv, MirrorsAgree, MirrorsGoWithServer
  <2>2. ASSUME server.there, "risk" \notin crossed', NEW m \in Offered PROVE mirror'[m].risk = chosen'[m]
    <3>1. "risk" \notin crossed /\ mirror[m].risk = chosen[m] /\ mcpTools[n].id = job[q].was
      BY <1>1, <1>2, <2>2 DEF McpInv, MirrorsAgree, RiskIsKept, Mirroring, At
    <3>2. mirror' = IF done THEN [mirror EXCEPT ![n].risk = "high"] ELSE mirror
      BY <1>2, <2>2, <3>1
    <3> QED BY <1>2, <1>3, <3>1, <3>2 DEF ToolTypes
  <2> QED BY <1>1, <2>1, <2>2 DEF MirrorsAgree, RiskIsKept
<1> QED BY <1>1, <1>4, <1>6, <1>7, ToolJobEnds DEF Tokens

\* A deletion takes the mirrored rows, ...
LEMMA DeleteMirrorsStep == ASSUME McpInv, NEW q \in Jobs, DeleteMirrors(q) PROVE McpInv'
<1>1. /\ UNCHANGED <<server, oauth, mcpTools, syncs, tokenLock, asVars, asked, reused, excused>>
      /\ At(q, "delete", "idle") /\ MoveTo(q, "delete") /\ ~Storing(job[q]) /\ job[q] \in McpJob
  BY DEF DeleteMirrors, At, Storing, McpInv
<1>2. \/ /\ mirror' = [n \in Offered |-> IF mirror[n].of = "this" THEN NoMirror ELSE mirror[n]]
         /\ chosen' = [n \in Offered |-> IF mirror[n].of = "this" THEN "none" ELSE chosen[n]]
         /\ crossed' = crossed
      \/ crossed' = crossed \cup {"delete"} /\ mirror' = mirror /\ chosen' = chosen
  BY DEF DeleteMirrors
<1>3. PICK w \in McpJob : w = [job[q] EXCEPT !.at = "delete"]
  BY <1>1, Moved DEF Places
<1>4. job' = [job EXCEPT ![q] = w]
  BY <1>1, <1>3, Moved DEF Places
<1>5. w.at = "delete" /\ w.kind = "delete"
  BY <1>1, <1>3 DEF McpJob, At
<1>6. ToolTypes
  BY ToolsTyped
<1>7. ToolTypes'
  <2>1. mirror' \in [Offered -> [of : {"none", "this", "other"}, risk : {"none", "medium", "high"}]]
    BY <1>2, <1>6 DEF ToolTypes, NoMirror
  <2>2. chosen' \in [Offered -> {"none", "medium", "high"}]
    BY <1>2, <1>6 DEF ToolTypes
  <2>3. crossed' \subseteq {"delete", "risk"}
    BY <1>2, <1>6 DEF ToolTypes
  <2> QED BY <1>1, <1>6, <2>1, <2>2, <2>3 DEF ToolTypes
<1>8. \A n \in Offered : mirror[n].of # "this" => mirror'[n].of # "this"
  BY <1>2
<1>9. "delete" \in crossed' \/ \A n \in Offered : mirror'[n].of # "this"
  BY <1>2 DEF NoMirror
<1>10. \A p \in Jobs : Mirroring(job[p])'
  <2>1. job'[q] = w /\ \A p \in Jobs \ {q} : job'[p] = job[p] /\ Mirroring(job[p])
    BY <1>4, OneRow DEF McpInv
  <2> QED BY <1>1, <1>2, <1>5, <1>8, <1>9, <2>1 DEF Mirroring
<1>11. MirrorsAgree'
  BY <1>1, <1>2, <1>8 DEF McpInv, MirrorsAgree, MirrorsGoWithServer, RiskIsKept, NoMirror
<1>12. Placed(q, w)' /\ Funded(w)
  BY <1>1, <1>5 DEF Placed, Storing, Caller, Funded, FromPage
<1> QED BY <1>1, <1>4, <1>7, <1>10, <1>11, <1>12, ToolStep DEF Tokens

\* ... then the server with its tools.
LEMMA DeleteServerStep == ASSUME McpInv, NEW q \in Jobs, DeleteServer(q) PROVE McpInv'
<1>1. /\ UNCHANGED <<mirror, syncs, tokenLock, asVars, mcpHist>>
      /\ At(q, "delete", "delete") /\ Finish(q) /\ ~Storing(job[q]) /\ job[q] \in McpJob /\ issued \in Nat
  BY DEF DeleteServer, At, Storing, McpInv, McpTypeOK
<1>2. /\ server' = [server EXCEPT !.there = FALSE, !.auth = "config"] /\ oauth' = NoDoc
      /\ mcpTools' = [n \in Offered |-> NoTool]
  BY DEF DeleteServer
<1>3. PICK w \in McpJob : w = NullRow(job[q].kind)
  BY <1>1, Ended
<1>4. job' = [job EXCEPT ![q] = w] /\ w.at = "done" /\ w.doc.refresh = 0 /\ w.was = 0
  BY <1>1, <1>3, Ended, NullRows DEF NullRow, NewJob, NoDoc
<1>5. job' \in [Jobs -> McpJob] /\ job'[q] = w /\ \A p \in Jobs \ {q} : job'[p] = job[p]
  BY <1>4, OneRow DEF McpInv
<1>6. UNCHANGED <<issued, spent, live, codes, asked, reused, excused, chosen, crossed, mishaps>>
  BY <1>1 DEF asVars, mcpHist
<1>7. \A t : Accounted(t) => Accounted(t)'
  BY <1>1, <1>4, <1>6, StillAccounted
<1>8. server'.there = FALSE /\ server' \in [there : BOOLEAN, auth : {"config", "oauth"}, transport : {"http", "stdio"}]
  BY <1>2 DEF McpInv, McpTypeOK
<1>9. McpTypeOK' /\ syncs' \in Nat
  BY <1>1, <1>2, <1>6, <1>8, DocLoaded DEF McpInv, McpTypeOK, NoTool, Doc
<1>10. \A p \in Jobs : Placed(p, job[p])'
  <2>1. Placed(q, w)'
    BY <1>4 DEF Placed, Storing
  <2> QED BY <1>1, <1>4, <2>1, PlacedStep
<1>11. \A p \in Jobs : Funded(job[p])'
  <2>1. Accounted(0)' /\ Funded(w)'
    BY <1>4, <1>6, <1>7, ZeroIsAccounted DEF Funded, Storing
  <2>2. issued <= issued' /\ issued' \in Nat /\ excused \subseteq excused' /\ spent' = spent
    BY <1>1, <1>6
  <2> QED BY <1>4, <1>7, <2>1, <2>2, FundedStep
<1>12. "delete" \in crossed \/ \A n \in Offered : mirror[n].of # "this"
  BY <1>1 DEF At, McpInv, Mirroring
<1>13. \A p \in Jobs : Mirroring(job[p])'
  BY <1>1, <1>4, <1>5, <1>6, <1>8, <1>12 DEF Mirroring
<1>14. InTheRow' /\ GrantIsNotRaced' /\ MirrorsAgree'
  BY <1>1, <1>2, <1>6, <1>7, <1>8, <1>12, ZeroIsAccounted
     DEF McpInv, InTheRow, GrantIsNotRaced, MirrorsAgree, MirrorsGoWithServer, RiskIsKept, NoDoc
<1> QED BY <1>5, <1>9, <1>10, <1>11, <1>13, <1>14 DEF McpInv

-----------------------------------------------------------------------------
\* An access token expires.
LEMMA ExpireStep == ASSUME McpInv, NEW t \in live, Expire(t) PROVE McpInv'
<1>1. /\ UNCHANGED <<server, oauth, mcpTools, mirror, syncs, tokenLock, job, issued, spent, codes,
                     asked, reused, excused, chosen, crossed, mishaps>>
      /\ live' \subseteq live
  BY DEF Expire, toolRows, mcpHist
<1>2. McpTypeOK' /\ syncs' \in Nat /\ job' \in [Jobs -> McpJob]
  BY <1>1 DEF McpInv, McpTypeOK
<1>3. \A q \in Jobs : (Placed(q, job[q]) /\ Funded(job[q]) /\ Mirroring(job[q]))'
  BY <1>1 DEF McpInv, Placed, Funded, Mirroring, Accounted, Storing, Caller, FromPage
<1>4. InTheRow' /\ GrantIsNotRaced' /\ MirrorsAgree'
  BY <1>1 DEF McpInv, InTheRow, Accounted, Storing, Caller, GrantIsNotRaced, MirrorsAgree, MirrorsGoWithServer, RiskIsKept
<1> QED BY <1>2, <1>3, <1>4 DEF McpInv

\* A step of the other parts leaves the servers alone.
LEMMA McpStutter == ASSUME McpInv, UNCHANGED mcpVars PROVE McpInv'
<1>1. UNCHANGED <<server, oauth, mcpTools, mirror, syncs, tokenLock, job, issued, spent, live, codes,
                  asked, reused, excused, chosen, crossed, mishaps>>
  BY DEF mcpVars, toolRows, asVars, mcpHist
<1>2. McpTypeOK' /\ syncs' \in Nat /\ job' \in [Jobs -> McpJob]
  BY <1>1 DEF McpInv, McpTypeOK
<1>3. \A q \in Jobs : (Placed(q, job[q]) /\ Funded(job[q]) /\ Mirroring(job[q]))'
  BY <1>1 DEF McpInv, Placed, Funded, Mirroring, Accounted, Storing, Caller, FromPage
<1>4. InTheRow' /\ GrantIsNotRaced' /\ MirrorsAgree'
  BY <1>1 DEF McpInv, InTheRow, Accounted, Storing, Caller, GrantIsNotRaced, MirrorsAgree, MirrorsGoWithServer, RiskIsKept
<1> QED BY <1>2, <1>3, <1>4 DEF McpInv

\* After a restart only requests that have not begun are left; what was about to be stored
\* is lost, and excused.
LEMMA McpCrashStep == ASSUME McpInv, McpCrash PROVE McpInv'
<1>1. /\ UNCHANGED <<server, oauth, mcpTools, mirror, syncs, issued, spent, live, codes, asked, reused, chosen, crossed>>
      /\ tokenLock' = 0
      /\ job' = [q \in Jobs |-> IF job[q].at = "idle" THEN job[q] ELSE NullRow(job[q].kind)]
      /\ excused' = excused \cup {job[q].was : q \in {p \in Jobs : job[p].at = "keep" /\ job[p].was # 0}}
  BY DEF McpCrash, toolRows, asVars, NullRow
<1>2. \A q \in Jobs : job[q] \in McpJob /\ Placed(q, job[q]) /\ Funded(job[q])
  BY DEF McpInv
<1>3. \A q \in Jobs : /\ job'[q] \in McpJob
                      /\ job'[q].at \in {"idle", "done"} /\ job'[q].doc = NoDoc
                      /\ job'[q].kind = "callback" => job'[q].was = 0
  <2> SUFFICES ASSUME NEW q \in Jobs
               PROVE  /\ job'[q] \in McpJob
                      /\ job'[q].at \in {"idle", "done"} /\ job'[q].doc = NoDoc
                      /\ job'[q].kind = "callback" => job'[q].was = 0
    OBVIOUS
  <2>1. CASE job[q].at = "idle"
    BY <1>1, <1>2, <2>1 DEF Placed
  <2>2. CASE job[q].at # "idle"
    <3>1. job[q].kind \in JobKinds /\ job'[q] = NullRow(job[q].kind)
      BY <1>1, <1>2, <2>2 DEF McpJob
    <3> QED BY <3>1, NullRows
  <2> QED BY <2>1, <2>2
<1>4. \A t : Accounted(t) => Accounted(t)'
  <2> SUFFICES ASSUME NEW t, Accounted(t), t \in spent PROVE t \in excused'
    BY <1>1 DEF Accounted
  <2>1. CASE t \in excused
    BY <1>1, <2>1
  <2>2. CASE \E q \in Jobs : Storing(job[q]) /\ job[q].was = t
    <3>1. PICK q \in Jobs : Storing(job[q]) /\ job[q].was = t
      BY <2>2
    <3>2. job[q].at = "keep" /\ job[q].was # 0
      BY <1>2, <3>1 DEF Storing, Funded
    <3> QED BY <1>1, <3>1, <3>2
  <2> QED BY <2>1, <2>2 DEF Accounted
<1>5. \A q \in Jobs : Placed(q, job[q])'
  BY <1>3 DEF Placed, Storing
<1>6. \A q \in Jobs : Funded(job[q])'
  BY <1>1, <1>3, <1>4, ZeroIsAccounted DEF Funded, Storing, NoDoc
<1>7. \A q \in Jobs : Mirroring(job[q])'
  BY <1>3 DEF Mirroring
<1>8. McpTypeOK'
  <2>1. {job[q].was : q \in {p \in Jobs : job[p].at = "keep" /\ job[p].was # 0}} \subseteq 1..issued
    BY <1>2 DEF Placed, Funded, Storing
  <2> QED BY <1>1, <2>1 DEF McpInv, McpTypeOK
<1>9. job' \in [Jobs -> McpJob]
  BY <1>1, <1>3
<1>10. InTheRow' /\ GrantIsNotRaced' /\ MirrorsAgree'
  BY <1>1, <1>4 DEF McpInv, InTheRow, GrantIsNotRaced, MirrorsAgree, MirrorsGoWithServer, RiskIsKept
<1> QED BY <1>1, <1>5, <1>6, <1>7, <1>8, <1>9, <1>10 DEF McpInv

-----------------------------------------------------------------------------
\* It holds at first.
LEMMA McpInitially == McpInit => McpInv
<1> SUFFICES ASSUME McpInit PROVE McpInv
  OBVIOUS
<1>1. PICK kinds \in JobStarts : job = [q \in Jobs |-> NewJob(kinds[q])]
  BY DEF McpInit
<1>2. \A q \in Jobs : job[q] \in McpJob /\ job[q].at = "idle" /\ job[q].doc = NoDoc /\ job[q].was = 0
  BY <1>1, NullRows, McpAssumption
<1>3. PICK S \in SUBSET Offered : \E other \in SUBSET (Offered \ S) :
        /\ mcpTools = [n \in Offered |-> IF n \in S THEN [risk |-> "medium", id |-> 1] ELSE NoTool]
        /\ mirror = [n \in Offered |-> CASE n \in S -> [of |-> "this", risk |-> "medium"]
                                         [] n \in other -> [of |-> "other", risk |-> "medium"]
                                         [] OTHER -> NoMirror]
  BY DEF McpInit
<1>4. /\ syncs = 1 /\ tokenLock = 0 /\ spent = {} /\ codes = {} /\ asked = {} /\ reused = {} /\ excused = {}
      /\ crossed = {} /\ chosen = [n \in Offered |-> mirror[n].risk]
  BY DEF McpInit
<1>5. ToolTypes
  <2>1. mcpTools \in [Offered -> [risk : {"none", "medium", "high"}, id : 0..1]]
    BY <1>3 DEF NoTool
  <2>2. mirror \in [Offered -> [of : {"none", "this", "other"}, risk : {"none", "medium", "high"}]]
    BY <1>3 DEF NoMirror
  <2>3. chosen \in [Offered -> {"none", "medium", "high"}]
    BY <1>4, <2>2
  <2> QED BY <1>4, <2>1, <2>2, <2>3 DEF ToolTypes
<1>6. /\ server.there /\ server \in [there : BOOLEAN, auth : {"config", "oauth"}, transport : {"http", "stdio"}]
      /\ oauth \in Doc /\ oauth.refresh \in 0..issued /\ issued \in 0..MaxTokens /\ live \subseteq 1..issued
  <2>1. CASE /\ server = [there |-> TRUE, auth |-> "oauth", transport |-> "http"]
             /\ oauth = [client |-> TRUE, pending |-> 0, access |-> 1, refresh |-> 1]
             /\ issued = 1 /\ live \in {{}, {1}}
    BY <2>1, McpAssumption DEF Doc
  <2>2. CASE /\ \E by \in {"http", "stdio"} : server = [there |-> TRUE, auth |-> "config", transport |-> by]
             /\ oauth = NoDoc /\ issued = 0 /\ live = {}
    BY <2>2, McpAssumption DEF NoDoc, Doc
  <2> QED BY <2>1, <2>2 DEF McpInit
<1>7. McpTypeOK /\ syncs \in Nat
  BY <1>4, <1>5, <1>6 DEF McpTypeOK, ToolTypes, Doc
<1>8. job \in [Jobs -> McpJob]
  BY <1>1, <1>2
<1>9. \A q \in Jobs : Placed(q, job[q]) /\ Funded(job[q]) /\ Mirroring(job[q])
  <2>1. 0 \in 0..issued /\ Accounted(0)
    BY <1>4, <1>6 DEF Accounted
  <2> QED BY <1>2, <2>1 DEF Placed, Storing, Funded, Mirroring, NoDoc
<1>10. InTheRow /\ GrantIsNotRaced /\ MirrorsAgree
  BY <1>4, <1>5, <1>6
     DEF InTheRow, Accounted, GrantIsNotRaced, MirrorsAgree, MirrorsGoWithServer, RiskIsKept, ToolTypes
<1> QED BY <1>7, <1>8, <1>9, <1>10 DEF McpInv

\* Every step keeps it.
LEMMA McpStep == McpInv /\ [McpNext]_mcpVars => McpInv'
<1> SUFFICES ASSUME McpInv, [McpNext]_mcpVars PROVE McpInv'
  OBVIOUS
<1>1. ASSUME NEW q \in Jobs, JobStep(q) PROVE McpInv'
  <2>1. CASE RefreshToken(q)
    BY <2>1, RefusedStep, GrantedStep DEF RefreshToken
  <2> QED BY <1>1, <2>1, QuietSteps, SavePendingStep, ExchangeCodeStep, SaveTokensStep, SaveRefreshedStep,
             SyncServerToolsStep, UpdateToolRiskStep, MirrorRiskStep, DeleteMirrorsStep, DeleteServerStep
       DEF JobStep
<1> QED BY <1>1, ExpireStep, McpCrashStep, McpStutter DEF McpNext

\* The inductive invariant: where a request or a tool call is tells what it holds of the
\* mutex and of the tokens, and a replaced refresh token is excused or about to be replaced
\* in the row too (mcpOAuthAccessToken, saveMCPOAuthDoc, syncServerTools, Delete).
THEOREM McpInvariant == McpSpec => []McpInv
BY McpInitially, McpStep, PTL DEF McpSpec

\* Every variable keeps its shape, whatever the requests, tool calls and restarts do.
THEOREM McpTypeCorrect == McpSpec => []McpTypeOK
<1>1. McpInv => McpTypeOK
  BY DEF McpInv
<1> QED BY <1>1, McpInvariant, PTL

\* mcpOAuthAccessToken serialises the refresh grant of a server: a refresh token that has
\* been replaced is presented again only after a lost answer, a failed save, a restart, or
\* when a page of the browser flow held the old document.
THEOREM GrantNotRaced == McpSpec => []GrantIsNotRaced
<1>1. McpInv => GrantIsNotRaced
  BY DEF McpInv
<1> QED BY <1>1, McpInvariant, PTL

\* The mirrored rows go with their server (Delete), and have the risk level the user was
\* told (UpdateToolRisk, syncServerTools), unless a sync crossed or a statement failed.
THEOREM MirrorsFollow == McpSpec => []MirrorsAgree
<1>1. McpInv => MirrorsAgree
  BY DEF McpInv
<1> QED BY <1>1, McpInvariant, PTL
================================================================================
