--------------------------- MODULE WorkflowRunProofs ---------------------------
(***************************************************************************)
(* What holds of the walks of a workflow, for every set of graphs, every   *)
(* step limit and every number of restarts: the shape of the variables,    *)
(* that a join waits for its section, that a resumed walk uses what its    *)
(* checkpoint has, and that a success has the result of every agent on     *)
(* the way.                                                                *)
(***************************************************************************)
EXTENDS WorkflowRun, FiniteSetTheorems, SequenceTheorems, TLAPS

-----------------------------------------------------------------------------
(* Part 1: edges *)

(* The members of a finite set of numbers, in order: each of them once. *)
LEMMA SortedMembers ==
  ASSUME NEW S, S \subseteq Int, IsFiniteSet(S)
  PROVE  /\ Sorted(S) \in Seq(S) /\ IsInjective(Sorted(S)) /\ Range(Sorted(S)) = S
         /\ Len(Sorted(S)) = Cardinality(S) /\ Cardinality(S) \in Nat
<1> DEFINE C == 1..Cardinality(S)
           Upto(i) == {j \in S : j <= i}
           rank == [i \in S |-> Cardinality(Upto(i))]
<1>1. Cardinality(S) \in Nat
  BY FS_CardinalityType
<1>2. ASSUME NEW i \in S
      PROVE  IsFiniteSet(Upto(i)) /\ Cardinality(Upto(i)) \in C
  <2>1. Upto(i) \in SUBSET S /\ i \in Upto(i)
    BY <1>2, SMT
  <2>2. IsFiniteSet(Upto(i)) /\ Cardinality(Upto(i)) <= Cardinality(S)
    BY <2>1, FS_Subset
  <2>3. Cardinality(Upto(i)) \in Nat /\ Cardinality(Upto(i)) # 0
    BY <2>1, <2>2, FS_CardinalityType, FS_EmptySet
  <2> QED BY <1>1, <2>2, <2>3
<1>3. ASSUME NEW i \in S, NEW k \in S, i < k
      PROVE  Cardinality(Upto(i)) # Cardinality(Upto(k))
  <2>0. i \in Int /\ k \in Int /\ \A j \in S : j \in Int
    OBVIOUS
  <2>1. /\ \A j \in S : j <= i => j <= k
        /\ k <= k /\ ~(k <= i)
    BY <1>3, <2>0
  <2>2. Upto(i) \in SUBSET Upto(k) /\ k \in Upto(k) /\ k \notin Upto(i)
    BY <2>1
  <2> QED BY <1>2, <2>2, FS_Subset
<1>4. ASSUME NEW i \in S, NEW k \in S, Cardinality(Upto(i)) = Cardinality(Upto(k))
      PROVE  i = k
  BY <1>3, <1>4
<1>5. rank \in [S -> C] /\ \A i, k \in S : rank[i] = rank[k] => i = k
  BY <1>2, <1>4
<1>6. IsFiniteSet(C) /\ Cardinality(C) = Cardinality(S)
  BY <1>1, FS_Interval
<1>7. rank \in Surjection(S, C)
  <2>1. rank \in Injection(S, C)
    BY <1>5 DEF Injection, IsInjective
  <2> HIDE DEF rank, C
  <2> QED BY <1>6, <2>1, FS_Injection
<1>8. \A c \in C : \E i \in S : Cardinality(Upto(i)) = c
  BY <1>7 DEF Surjection
<1>9. Sorted(S) = [c \in C |-> CHOOSE i \in S : Cardinality(Upto(i)) = c]
  BY DEF Sorted
<1>10. ASSUME NEW c \in C
       PROVE  Sorted(S)[c] \in S /\ Cardinality(Upto(Sorted(S)[c])) = c
  BY <1>8, <1>9
<1>11. DOMAIN Sorted(S) = C
  BY <1>9
<1>12. Sorted(S) \in Seq(S) /\ Len(Sorted(S)) = Cardinality(S)
  <2>1. Sorted(S) \in [C -> S]
    BY <1>9, <1>10
  <2> QED BY <1>1, <2>1, IsASeq, LenProperties, SMT
<1>13. IsInjective(Sorted(S))
  <2>1. \A c, d \in C : Sorted(S)[c] = Sorted(S)[d] => c = d
    BY <1>10
  <2> HIDE DEF C
  <2> QED BY <1>11, <2>1 DEF IsInjective
<1>14. Range(Sorted(S)) = S
  <2>1. \A i \in S : Sorted(S)[Cardinality(Upto(i))] = i
    BY <1>2, <1>4, <1>10
  <2>2. \A i \in S : \E c \in C : i = Sorted(S)[c]
    BY <1>2, <2>1
  <2> QED BY <1>10, <1>11, <2>2 DEF Range
<1> QED BY <1>1, <1>12, <1>13, <1>14

(* What is kept of a sequence is in it. *)
LEMMA KeepMembers ==
  ASSUME NEW X, NEW s \in Seq(X), NEW I \in SUBSET DOMAIN s
  PROVE  /\ Keep(s, I) \in Seq(X) /\ Len(Keep(s, I)) = Cardinality(I)
         /\ \A k \in DOMAIN Keep(s, I) : \E i \in I : Keep(s, I)[k] = s[i]
         /\ \A i \in I : \E k \in DOMAIN Keep(s, I) : Keep(s, I)[k] = s[i]
<1>1. I \subseteq Int /\ IsFiniteSet(I)
  <2>1. DOMAIN s = 1..Len(s) /\ Len(s) \in Nat
    BY LenProperties
  <2>2. IsFiniteSet(DOMAIN s)
    BY <2>1, FS_Interval
  <2> QED BY <2>1, <2>2, FS_Subset
<1> DEFINE t == Sorted(I)
           n == Cardinality(I)
<1>2. t \in Seq(I) /\ Range(t) = I /\ Len(t) = n /\ n \in Nat
  BY <1>1, SortedMembers
<1>3. DOMAIN t = 1..n
  BY <1>2, LenProperties
<1>4. Keep(s, I) = [k \in 1..n |-> s[t[k]]]
  BY DEF Keep
<1>5. \A k \in 1..n : t[k] \in I
  BY <1>2, <1>3, ElementOfSeq
<1>6. \A i \in I : s[i] \in X
  BY ElementOfSeq, LenProperties
<1>7. Keep(s, I) \in Seq(X) /\ Len(Keep(s, I)) = n
  <2>1. Keep(s, I) \in [1..n -> X]
    BY <1>4, <1>5, <1>6
  <2> QED BY <1>2, <2>1, IsASeq, LenProperties, SMT
<1>8. \A i \in I : \E k \in 1..n : t[k] = i
  BY <1>2, <1>3 DEF Range
<1>9. DOMAIN Keep(s, I) = 1..n
  BY <1>4
<1>10. ASSUME NEW k \in 1..n PROVE Keep(s, I)[k] = s[t[k]]
  BY <1>4
<1> HIDE DEF t, n
<1>11. \A k \in DOMAIN Keep(s, I) : \E i \in I : Keep(s, I)[k] = s[i]
  BY <1>5, <1>9, <1>10
<1>12. \A i \in I : \E k \in DOMAIN Keep(s, I) : Keep(s, I)[k] = s[i]
  BY <1>8, <1>9, <1>10
<1> QED BY <1>7, <1>11, <1>12 DEF n

(* A way on from n: every entry is where one of its edges leads. *)
LeadsFrom(g, n, next) ==
  /\ next \in Seq(DOMAIN g.kind)
  /\ \A k \in DOMAIN next : \E i \in DOMAIN g.edges : g.edges[i].from = n /\ g.edges[i].to = next[k]

(* The same of edges that are on the way to be one. *)
EdgesFrom(g, n, edges) ==
  /\ edges \in Seq([from : DOMAIN g.kind, to : DOMAIN g.kind, label : STRING])
  /\ \A k \in DOMAIN edges : edges[k].from = n /\ \E i \in DOMAIN g.edges : edges[k] = g.edges[i]

(* What is kept of a node's edges are edges of it. *)
LEMMA KeptEdges ==
  ASSUME NEW g, NEW n, NEW edges, EdgesFrom(g, n, edges), NEW I \in SUBSET DOMAIN edges
  PROVE  EdgesFrom(g, n, Keep(edges, I))
<1> DEFINE X == [from : DOMAIN g.kind, to : DOMAIN g.kind, label : STRING]
<1>1. edges \in Seq(X)
  BY DEF EdgesFrom
<1> HIDE DEF X
<1>2. Keep(edges, I) \in Seq(X) /\ \A k \in DOMAIN Keep(edges, I) : \E i \in I : Keep(edges, I)[k] = edges[i]
  BY <1>1, KeepMembers
<1> QED BY <1>2 DEF EdgesFrom, X

(* Out, Labelled, Others and First give edges of the node. *)
LEMMA NodeEdges ==
  ASSUME NEW g, IsGraph(g), NEW n
  PROVE  /\ EdgesFrom(g, n, Out(g, n))
         /\ \A label : EdgesFrom(g, n, Labelled(g, n, label)) /\ EdgesFrom(g, n, Others(g, n, label))
<1> DEFINE X == [from : DOMAIN g.kind, to : DOMAIN g.kind, label : STRING]
           I == {i \in DOMAIN g.edges : g.edges[i].from = n}
<1>1. g.edges \in Seq(X)
  BY DEF IsGraph
<1>2. EdgesFrom(g, n, Out(g, n))
  <2>0. I \in SUBSET DOMAIN g.edges
    OBVIOUS
  <2> HIDE DEF X
  <2>1. /\ Keep(g.edges, I) \in Seq(X)
        /\ \A k \in DOMAIN Keep(g.edges, I) : \E i \in I : Keep(g.edges, I)[k] = g.edges[i]
    <3> HIDE DEF I
    <3> QED BY <1>1, <2>0, KeepMembers
  <2> QED BY <2>1 DEF EdgesFrom, Out, X
<1>3. \A label : EdgesFrom(g, n, Labelled(g, n, label))
  BY <1>2, KeptEdges DEF Labelled
<1>4. \A label : EdgesFrom(g, n, Others(g, n, label))
  BY <1>2, KeptEdges DEF Others
<1> QED BY <1>2, <1>3, <1>4

(* The first of a node's edges, if there is one, is an edge of it. *)
LEMMA FirstEdge ==
  ASSUME NEW g, NEW n, NEW edges, EdgesFrom(g, n, edges)
  PROVE  EdgesFrom(g, n, First(edges)) /\ Len(First(edges)) <= 1
<1> DEFINE X == [from : DOMAIN g.kind, to : DOMAIN g.kind, label : STRING]
<1>1. edges \in Seq(X)
  BY DEF EdgesFrom
<1> HIDE DEF X
<1>2. CASE edges = <<>>
  BY <1>1, <1>2, EmptySeq DEF First, EdgesFrom, X
<1>3. CASE edges # <<>>
  <2>1. Head(edges) = edges[1] /\ 1 \in DOMAIN edges /\ edges[1] \in X
    BY <1>1, <1>3, HeadTailProperties, EmptySeq, LenProperties, ElementOfSeq, SMT
  <2>2. First(edges) = <<edges[1]>> /\ Len(First(edges)) = 1 /\ DOMAIN First(edges) = {1}
    BY <1>3, <2>1 DEF First
  <2>3. First(edges) \in Seq(X)
    BY <2>1, <2>2
  <2>4. First(edges)[1] = edges[1]
    BY <2>2
  <2> HIDE DEF First
  <2> QED BY <2>1, <2>2, <2>3, <2>4 DEF EdgesFrom, X
<1> QED BY <1>2, <1>3

(* The targets of a node's edges are a way on from it. *)
LEMMA TargetsLead ==
  ASSUME NEW g, NEW n, NEW edges, EdgesFrom(g, n, edges)
  PROVE  LeadsFrom(g, n, Targets(edges)) /\ Len(Targets(edges)) = Len(edges)
<1> DEFINE X == [from : DOMAIN g.kind, to : DOMAIN g.kind, label : STRING]
<1>1. edges \in Seq(X)
  BY DEF EdgesFrom
<1>2. DOMAIN edges = 1..Len(edges) /\ Len(edges) \in Nat
  BY <1>1, LenProperties
<1>3. Targets(edges) = [k \in 1..Len(edges) |-> edges[k].to]
  BY <1>2 DEF Targets
<1>4. \A k \in 1..Len(edges) : edges[k] \in X
  BY <1>1, <1>2, ElementOfSeq
<1>5. \A k \in 1..Len(edges) : edges[k].to \in DOMAIN g.kind
  BY <1>4
<1>6. Targets(edges) \in [1..Len(edges) -> DOMAIN g.kind]
  BY <1>3, <1>5
<1>7. Targets(edges) \in Seq(DOMAIN g.kind) /\ Len(Targets(edges)) = Len(edges) /\ DOMAIN Targets(edges) = 1..Len(edges)
  BY <1>2, <1>6, IsASeq, LenProperties, SMT
<1> HIDE DEF X
<1>8. \A k \in 1..Len(edges) : Targets(edges)[k] = edges[k].to
  BY <1>3
<1>9. \A k \in 1..Len(edges) : \E i \in DOMAIN g.edges : g.edges[i].from = n /\ g.edges[i].to = edges[k].to
  BY <1>2 DEF EdgesFrom
<1> QED BY <1>7, <1>8, <1>9 DEF LeadsFrom

(* Where a walk can go, other than into a section, is along edges; from a  *)
(* condition along one.                                                    *)
LEMMA WaysLead ==
  ASSUME NEW g, IsGraph(g), NEW n
  PROVE  /\ LeadsFrom(g, n, Successors(g, n)) /\ LeadsFrom(g, n, Branches(g, n))
         /\ \A met \in BOOLEAN : LeadsFrom(g, n, Route(g, n, met)) /\ Len(Route(g, n, met)) <= 1
         /\ \A done \in BOOLEAN : LeadsFrom(g, n, Round(g, n, done))
<1>1. LeadsFrom(g, n, Successors(g, n))
  <2>1. EdgesFrom(g, n, IF g.kind[n] = "supervisor" THEN Others(g, n, "delegate") ELSE Out(g, n))
    BY NodeEdges
  <2> QED BY <2>1, TargetsLead DEF Successors
<1>2. LeadsFrom(g, n, Branches(g, n))
  BY NodeEdges, TargetsLead DEF Branches
<1>3. ASSUME NEW met \in BOOLEAN
      PROVE  LeadsFrom(g, n, Route(g, n, met)) /\ Len(Route(g, n, met)) <= 1
  <2> DEFINE matching == Labelled(g, n, IF met THEN "yes" ELSE "no")
             default  == Labelled(g, n, "*")
             choice == IF matching # <<>> THEN matching
                       ELSE IF default # <<>> THEN default ELSE Labelled(g, n, "no")
  <2>1. EdgesFrom(g, n, choice)
    <3>1. EdgesFrom(g, n, matching)
      BY NodeEdges
    <3>2. EdgesFrom(g, n, default) /\ EdgesFrom(g, n, Labelled(g, n, "no"))
      BY NodeEdges
    <3> HIDE DEF matching, default
    <3> QED BY <3>1, <3>2
  <2>2. Route(g, n, met) = Targets(First(choice))
    BY DEF Route
  <2> HIDE DEF choice
  <2>3. EdgesFrom(g, n, First(choice)) /\ Len(First(choice)) <= 1
    BY <2>1, FirstEdge
  <2> QED BY <2>2, <2>3, TargetsLead
<1>4. ASSUME NEW done \in BOOLEAN
      PROVE  LeadsFrom(g, n, Round(g, n, done))
  <2>1. EdgesFrom(g, n, IF done THEN Others(g, n, "loop") ELSE First(Labelled(g, n, "loop")))
    BY NodeEdges, FirstEdge
  <2> QED BY <2>1, TargetsLead DEF Round
<1> QED BY <1>1, <1>2, <1>3, <1>4

-----------------------------------------------------------------------------
(* Part 2: sections *)

(* A section is closed under its search, and the least such set. *)
LEMMA SectionClosed ==
  ASSUME NEW g, IsGraph(g), NEW f
  PROVE  /\ Section(g, f) \subseteq DOMAIN g.kind /\ Searched(g, f, Section(g, f))
         /\ \A met \in SUBSET DOMAIN g.kind : Searched(g, f, met) => Section(g, f) \subseteq met
<1>1. Section(g, f) \subseteq DOMAIN g.kind
  BY DEF Section
<1>2. \A met \in SUBSET DOMAIN g.kind : Searched(g, f, met) => Section(g, f) \subseteq met
  BY DEF Section
<1>3. ASSUME NEW i \in DOMAIN g.edges,
             \/ g.edges[i].from = f
             \/ g.edges[i].from \in Section(g, f) /\ g.kind[g.edges[i].from] # "join"
      PROVE  g.edges[i].to \in Section(g, f)
  <2>1. g.edges[i].to \in DOMAIN g.kind
    <3>1. g.edges \in Seq([from : DOMAIN g.kind, to : DOMAIN g.kind, label : STRING])
      BY DEF IsGraph
    <3>2. g.edges[i] \in [from : DOMAIN g.kind, to : DOMAIN g.kind, label : STRING]
      BY <3>1, ElementOfSeq, LenProperties
    <3> QED BY <3>2
  <2>2. ASSUME NEW met \in SUBSET DOMAIN g.kind, Searched(g, f, met)
        PROVE  g.edges[i].to \in met
    BY <1>2, <1>3, <2>2 DEF Searched
  <2> QED BY <2>1, <2>2 DEF Section
<1>4. Searched(g, f, Section(g, f))
  BY <1>3 DEF Searched
<1> QED BY <1>1, <1>2, <1>4

(* A section that begins inside another one stays in it. *)
LEMMA SectionsNest ==
  ASSUME NEW g, IsGraph(g), NEW f, NEW m \in Inside(g, f)
  PROVE  Section(g, m) \subseteq Section(g, f)
<1>1. m \in Section(g, f) /\ g.kind[m] # "join"
  BY SectionClosed DEF Inside, SectionJoins
<1>2. Searched(g, m, Section(g, f))
  BY <1>1, SectionClosed DEF Searched
<1> QED BY <1>2, SectionClosed

(* A parallel node queues the joins of its section, each of them once. *)
LEMMA JoinsOfSection ==
  ASSUME NEW g, IsGraph(g), NEW f
  PROVE  /\ Sorted(SectionJoins(g, f)) \in Seq(DOMAIN g.kind)
         /\ Range(Sorted(SectionJoins(g, f))) = SectionJoins(g, f)
<1> DEFINE J == SectionJoins(g, f)
<1>1. J \subseteq DOMAIN g.kind
  BY SectionClosed DEF SectionJoins
<1>2. DOMAIN g.kind = 1..Len(g.kind) /\ Len(g.kind) \in Nat
  BY LenProperties DEF IsGraph
<1>3. IsFiniteSet(1..Len(g.kind)) /\ J \in SUBSET (1..Len(g.kind))
  BY <1>1, <1>2, FS_Interval
<1>4. J \subseteq Int /\ IsFiniteSet(J)
  <2>1. IsFiniteSet(J)
    BY <1>3, FS_Subset
  <2>2. \A j \in 1..Len(g.kind) : j \in Int
    OBVIOUS
  <2> QED BY <1>3, <2>1, <2>2
<1> HIDE DEF J
<1>5. Sorted(J) \in Seq(J) /\ Range(Sorted(J)) = J
  BY <1>4, SortedMembers
<1>6. Sorted(J) \in Seq(DOMAIN g.kind)
  BY <1>1, <1>5, SeqMonotonic
<1> QED BY <1>5, <1>6 DEF J

(* What a visit can queue. *)
LEMMA OptionsLead ==
  ASSUME NEW g, IsGraph(g), NEW n \in DOMAIN g.kind, NEW next \in Options(g, n)
  PROVE  /\ next \in Seq(DOMAIN g.kind)
         /\ IF n \in Parallel(g) THEN next = Sorted(SectionJoins(g, n)) ELSE LeadsFrom(g, n, next)
         /\ g.kind[n] = "condition" => Len(next) <= 1
<1>1. LeadsFrom(g, n, <<>>)
  BY EmptySeq DEF LeadsFrom
<1>2. CASE g.kind[n] = "condition"
  <2>1. PICK met \in BOOLEAN : next = Route(g, n, met)
    BY <1>2 DEF Options
  <2>2. LeadsFrom(g, n, next) /\ Len(next) <= 1
    BY <2>1, WaysLead
  <2> QED BY <1>2, <2>2 DEF Parallel, LeadsFrom
<1>3. CASE g.kind[n] = "loop"
  <2>1. PICK done \in BOOLEAN : next = Round(g, n, done)
    BY <1>3 DEF Options
  <2>2. LeadsFrom(g, n, next)
    BY <2>1, WaysLead
  <2> QED BY <1>3, <2>2 DEF Parallel, LeadsFrom
<1>4. CASE g.kind[n] = "parallel"
  <2>1. next = Sorted(SectionJoins(g, n))
    BY <1>4 DEF Options
  <2> QED BY <1>4, <2>1, JoinsOfSection DEF Parallel
<1>5. CASE g.kind[n] \in {"end", "agentless"}
  <2>1. next = <<>>
    BY <1>5 DEF Options
  <2> QED BY <1>1, <1>5, <2>1 DEF Parallel, LeadsFrom
<1>6. CASE g.kind[n] \notin {"condition", "loop", "parallel", "end", "agentless"}
  <2>1. next = Successors(g, n)
    BY <1>6 DEF Options
  <2>2. LeadsFrom(g, n, next)
    BY <2>1, WaysLead
  <2> QED BY <1>6, <2>2 DEF Parallel, LeadsFrom
<1> QED BY <1>2, <1>3, <1>4, <1>5, <1>6

(* A way on from inside a section stays in it. *)
LEMMA StaysInSection ==
  ASSUME NEW g, IsGraph(g), NEW f, NEW m \in Inside(g, f), NEW next \in Options(g, m), NEW k \in DOMAIN next
  PROVE  next[k] \in Section(g, f)
<1>1. m \in Section(g, f) /\ m \in DOMAIN g.kind /\ g.kind[m] # "join"
  BY SectionClosed DEF Inside, SectionJoins
<1>2. CASE m \in Parallel(g)
  <2>1. next = Sorted(SectionJoins(g, m))
    BY <1>1, <1>2, OptionsLead
  <2>2. next[k] \in SectionJoins(g, m)
    BY <2>1, JoinsOfSection DEF Range
  <2> QED BY <2>2, SectionsNest DEF SectionJoins
<1>3. CASE m \notin Parallel(g)
  <2>1. PICK i \in DOMAIN g.edges : g.edges[i].from = m /\ g.edges[i].to = next[k]
    BY <1>1, <1>3, OptionsLead DEF LeadsFrom
  <2> QED BY <1>1, <2>1, SectionClosed DEF Searched
<1> QED BY <1>2, <1>3

(* So do the branches. *)
LEMMA BranchesInSection ==
  ASSUME NEW g, IsGraph(g), NEW f, NEW k \in DOMAIN Branches(g, f)
  PROVE  Branches(g, f)[k] \in Section(g, f)
<1>1. PICK i \in DOMAIN g.edges : g.edges[i].from = f /\ g.edges[i].to = Branches(g, f)[k]
  BY WaysLead DEF LeadsFrom
<1> QED BY <1>1, SectionClosed DEF Searched

-----------------------------------------------------------------------------
(* Part 3: what a branch does *)

CopiesOf(g) == [out : SUBSET DOMAIN g.kind, iter : [DOMAIN g.kind -> 0..(MaxLoop - 1)]]
WalkRows(g) ==
  [at : {"off", "new", "walking", "clean"}, out : SUBSET DOMAIN g.kind, cached : SUBSET DOMAIN g.kind,
   iter : [DOMAIN g.kind -> 0..(MaxLoop - 1)], steps : 0..MaxSteps, marked : BOOLEAN, ctx : BOOLEAN,
   client : BOOLEAN]
BranchRows(g) ==
  [at : {"head", "visit", "busy", "fork", "copy", "write"}, queue : Seq(DOMAIN g.kind), node : DOMAIN g.kind,
   stop : SUBSET DOMAIN g.kind, copy : CopiesOf(g) \cup {NoCheckpoint}]

(* The branches of a walk have paths; what one is to write is a copy. *)
BranchesOK(g, br) ==
  /\ br = [b \in DOMAIN br |-> br[b]] /\ DOMAIN br \subseteq Seq(Nat)
  /\ \A b \in DOMAIN br : br[b] \in BranchRows(g) /\ (br[b].at = "write" => br[b].copy \in CopiesOf(g))

(* What the branch b does to the branches br of a walk and to the nodes tk *)
(* it has come to.  It ends, with nothing left to do if nothing is lost;   *)
Ends(br, new, tk, tkn, b, lost) ==
  /\ br[b].at \in {"head", "busy"} /\ new = Restrict(br, DOMAIN br \ {b}) /\ tkn = tk
  /\ lost \/ (br[b].at = "head" /\ (br[b].queue = <<>> \/ Head(br[b].queue) \in br[b].stop))

(* takes a node; *)
Takes(br, new, tk, tkn, b) ==
  /\ br[b].at = "head" /\ br[b].queue # <<>> /\ Head(br[b].queue) \notin br[b].stop
  /\ new = [br EXCEPT ![b] = [br[b] EXCEPT !.at = "visit", !.node = Head(br[b].queue), !.queue = Tail(br[b].queue)]]
  /\ tkn = tk \cup {Head(br[b].queue)}

(* executes it, stops at it, copies or writes; *)
Moves(g, br, new, tk, tkn, b) ==
  /\ \E at, copy :
       /\ new = [br EXCEPT ![b] = [br[b] EXCEPT !.at = at, !.copy = copy]]
       /\ \/ br[b].at = "visit" /\ at = "busy" /\ copy = br[b].copy /\ g.kind[br[b].node] \in Resumable
          \/ /\ br[b].at = "visit" /\ at = "head" /\ copy = br[b].copy
             /\ br[b].node \notin Parallel(g) /\ g.kind[br[b].node] \notin SubKinds /\ <<>> \in Options(g, br[b].node)
          \/ br[b].at = "copy" /\ at = "write" /\ copy \in CopiesOf(g)
          \/ br[b].at = "write" /\ at = "head" /\ copy = NoCheckpoint
  /\ tkn = tk

(* queues what comes next; *)
Queues(g, br, new, tk, tkn, b) ==
  /\ \E next \in Options(g, br[b].node) : new = [br EXCEPT ![b] = Completed(br[b], next)]
  /\ \/ br[b].at \in {"visit", "busy"} /\ br[b].node \notin Parallel(g)
     \/ br[b].at = "fork" /\ \A c \in DOMAIN br : ~IsStrictPrefix(b, c)
  /\ tkn = tk

(* or starts the branches of a section. *)
Forking(r) == [r EXCEPT !.at = "fork"]
Started(g, br, b) == {Append(b, i) : i \in DOMAIN Branches(g, br[b].node)}
Forks(g, br, new, tk, tkn, b) ==
  /\ br[b].at = "visit" /\ br[b].node \in Parallel(g)
  /\ new = [c \in DOMAIN br \cup Started(g, br, b) |->
              IF c \in Started(g, br, b)
              THEN NewBranch(Branches(g, br[b].node)[Last(c)], SectionJoins(g, br[b].node))
              ELSE IF c = b THEN Forking(br[b]) ELSE br[c]]
  /\ tkn = tk

BranchMove(g, br, new, tk, tkn, b, lost) ==
  \/ Ends(br, new, tk, tkn, b, lost) \/ Takes(br, new, tk, tkn, b) \/ Moves(g, br, new, tk, tkn, b)
  \/ Queues(g, br, new, tk, tkn, b) \/ Forks(g, br, new, tk, tkn, b)

(* The branch a walk begins with. *)
Beginning(g) == [b \in {<<>>} |-> NewBranch(Start(g), {})]

(* A branch that is there is put back in its place. *)
LEMMA PutBack ==
  ASSUME NEW br, br = [b \in DOMAIN br |-> br[b]], NEW b \in DOMAIN br, NEW r
  PROVE  With(br, b, r) = [br EXCEPT ![b] = r]
BY DEF With

(* The branches of a section are new ones, below the one that forks. *)
ForkedFrom(g, br, new, b) ==
  /\ DOMAIN new = Started(g, br, b) \cup DOMAIN br /\ new = [c \in DOMAIN new |-> new[c]]
  /\ \A c \in Started(g, br, b) : c \in Seq(Nat) /\ c # <<>> /\ c # b /\ Front(c) = b
  /\ \A i \in DOMAIN Branches(g, br[b].node) :
       new[Append(b, i)] = NewBranch(Branches(g, br[b].node)[i], SectionJoins(g, br[b].node))
  /\ \A c \in DOMAIN br \ Started(g, br, b) : new[c] = IF c = b THEN Forking(br[b]) ELSE br[c]

LEMMA StartedAre ==
  ASSUME NEW g, IsGraph(g), NEW br, BranchesOK(g, br), NEW b \in DOMAIN br,
         NEW new, NEW tk, NEW tkn, Forks(g, br, new, tk, tkn, b)
  PROVE  ForkedFrom(g, br, new, b)
<1> DEFINE n == br[b].node
           S == Started(g, br, b)
<1>1. b \in Seq(Nat) /\ DOMAIN Branches(g, n) \subseteq Nat
  <2>1. Branches(g, n) \in Seq(DOMAIN g.kind)
    BY WaysLead DEF LeadsFrom
  <2>2. DOMAIN Branches(g, n) = 1..Len(Branches(g, n))
    BY <2>1, LenProperties
  <2> QED BY <2>2 DEF BranchesOK
<1>2. ASSUME NEW i \in DOMAIN Branches(g, n)
      PROVE  /\ Append(b, i) \in Seq(Nat) /\ Append(b, i) # b /\ Append(b, i) # <<>>
             /\ Front(Append(b, i)) = b /\ Last(Append(b, i)) = i
  <2>1. i \in Nat
    BY <1>1
  <2>2. Append(b, i) \in Seq(Nat) /\ Len(Append(b, i)) = Len(b) + 1 /\ Len(b) \in Nat
    BY <1>1, <2>1, AppendProperties, LenProperties
  <2>3. Append(b, i) # b /\ Append(b, i) # <<>>
    BY <2>2, EmptySeq, SMT
  <2>4. Last(Append(b, i)) = i
    BY <1>1, <2>1, <2>2, AppendProperties DEF Last
  <2>5. Front(Append(b, i)) = b
    BY <1>1, <2>1, SMT DEF Front
  <2> QED BY <2>2, <2>3, <2>4, <2>5
<1>3. DOMAIN new = S \cup DOMAIN br /\ new = [c \in DOMAIN new |-> new[c]]
  BY DEF Forks
<1>4. ASSUME NEW i \in DOMAIN Branches(g, n)
      PROVE  new[Append(b, i)] = NewBranch(Branches(g, n)[i], SectionJoins(g, n))
  <2>1. Append(b, i) \in S
    BY DEF Started
  <2>2. new[Append(b, i)] = NewBranch(Branches(g, n)[Last(Append(b, i))], SectionJoins(g, n))
    BY <2>1 DEF Forks
  <2> QED BY <1>2, <2>2
<1>5. ASSUME NEW c \in DOMAIN br \ S
      PROVE  new[c] = IF c = b THEN Forking(br[b]) ELSE br[c]
  BY DEF Forks
<1>6. \A c \in S : c \in Seq(Nat) /\ c # <<>> /\ c # b /\ Front(c) = b
  BY <1>2 DEF Started
<1> QED BY <1>3, <1>4, <1>5, <1>6 DEF ForkedFrom

(* One branch is put in its place, and the shape stays. *)
LEMMA RowKeepsShape ==
  ASSUME NEW g, NEW br, BranchesOK(g, br), NEW b \in DOMAIN br, NEW r \in BranchRows(g),
         r.at = "write" => r.copy \in CopiesOf(g)
  PROVE  BranchesOK(g, [br EXCEPT ![b] = r])
<1> DEFINE new == [br EXCEPT ![b] = r]
<1>1. DOMAIN new = DOMAIN br /\ new[b] = r /\ \A c \in DOMAIN br : c # b => new[c] = br[c]
  OBVIOUS
<1>2. new = [c \in DOMAIN new |-> new[c]]
  BY DEF BranchesOK
<1> HIDE DEF new
<1>3. \A c \in DOMAIN new : new[c] \in BranchRows(g) /\ (new[c].at = "write" => new[c].copy \in CopiesOf(g))
  BY <1>1 DEF BranchesOK
<1>4. DOMAIN new \subseteq Seq(Nat)
  BY <1>1 DEF BranchesOK
<1>5. BranchesOK(g, new)
  BY <1>2, <1>3, <1>4 DEF BranchesOK
<1> QED BY <1>5 DEF new

(* What a branch that begins is. *)
LEMMA NewRow ==
  ASSUME NEW g, NEW n \in DOMAIN g.kind, NEW stop \in SUBSET DOMAIN g.kind
  PROVE  /\ NewBranch(n, stop) \in BranchRows(g)
         /\ NewBranch(n, stop).at = "head" /\ NewBranch(n, stop).queue = <<n>> /\ NewBranch(n, stop).stop = stop
<1> DEFINE D == DOMAIN g.kind
<1>0. n \in D
  OBVIOUS
<1>1. <<n>> \in Seq(D)
  <2> HIDE DEF D
  <2> QED BY <1>0
<1> QED BY <1>1 DEF NewBranch, BranchRows

(* The head of what is queued, and the rest. *)
LEMMA QueueParts ==
  ASSUME NEW D, NEW q \in Seq(D), q # <<>>
  PROVE  /\ Head(q) \in D /\ Tail(q) \in Seq(D) /\ 1 \in DOMAIN q /\ Head(q) = q[1]
         /\ \A k \in DOMAIN Tail(q) : k + 1 \in DOMAIN q /\ Tail(q)[k] = q[k + 1] /\ k + 1 # 1
         /\ \A i \in DOMAIN q : i # 1 => i - 1 \in DOMAIN Tail(q) /\ Tail(q)[i - 1] = q[i]
         /\ Len(Tail(q)) = Len(q) - 1 /\ Len(q) \in Nat
<1>1. Len(q) \in Nat /\ DOMAIN q = 1..Len(q) /\ Len(q) # 0
  BY LenProperties, EmptySeq
<1>2. /\ Head(q) = q[1] /\ Tail(q) \in Seq(D) /\ Len(Tail(q)) = Len(q) - 1
      /\ \A i \in 1..Len(Tail(q)) : Tail(q)[i] = q[i + 1]
  BY HeadTailProperties
<1>3. DOMAIN Tail(q) = 1..(Len(q) - 1)
  BY <1>2, LenProperties
<1>4. 1 \in DOMAIN q /\ Head(q) \in D
  BY <1>1, <1>2, ElementOfSeq
<1>5. \A k \in DOMAIN Tail(q) : k + 1 \in DOMAIN q /\ Tail(q)[k] = q[k + 1] /\ k + 1 # 1
  BY <1>1, <1>2, <1>3
<1>6. \A i \in DOMAIN q : i # 1 => i - 1 \in DOMAIN Tail(q) /\ Tail(q)[i - 1] = q[i]
  BY <1>1, <1>2, <1>3
<1> QED BY <1>1, <1>2, <1>4, <1>5, <1>6

(* What is queued and what is appended to it. *)
LEMMA QueueAppended ==
  ASSUME NEW D, NEW q \in Seq(D), NEW s \in Seq(D)
  PROVE  /\ q \o s \in Seq(D) /\ Len(q \o s) = Len(q) + Len(s)
         /\ \A i \in DOMAIN q : i \in DOMAIN (q \o s) /\ (q \o s)[i] = q[i]
         /\ \A k \in DOMAIN s : Len(q) + k \in DOMAIN (q \o s) /\ (q \o s)[Len(q) + k] = s[k]
         /\ \A i \in DOMAIN (q \o s) : \/ i \in DOMAIN q /\ (q \o s)[i] = q[i]
                                       \/ /\ i \notin DOMAIN q /\ i - Len(q) \in DOMAIN s
                                          /\ (q \o s)[i] = s[i - Len(q)]
<1>1. /\ q \o s \in Seq(D) /\ Len(q \o s) = Len(q) + Len(s)
      /\ \A i \in 1..(Len(q) + Len(s)) : (q \o s)[i] = IF i <= Len(q) THEN q[i] ELSE s[i - Len(q)]
  BY ConcatProperties
<1>2. /\ Len(q) \in Nat /\ Len(s) \in Nat /\ DOMAIN q = 1..Len(q) /\ DOMAIN s = 1..Len(s)
      /\ DOMAIN (q \o s) = 1..(Len(q) + Len(s))
  BY <1>1, LenProperties
<1>3. \A i \in DOMAIN q : i \in DOMAIN (q \o s) /\ (q \o s)[i] = q[i]
  BY <1>1, <1>2
<1>4. \A k \in DOMAIN s : Len(q) + k \in DOMAIN (q \o s) /\ (q \o s)[Len(q) + k] = s[k]
  BY <1>1, <1>2
<1>5. ASSUME NEW i \in DOMAIN (q \o s)
      PROVE  \/ i \in DOMAIN q /\ (q \o s)[i] = q[i]
             \/ i \notin DOMAIN q /\ i - Len(q) \in DOMAIN s /\ (q \o s)[i] = s[i - Len(q)]
  BY <1>1, <1>2
<1> QED BY <1>1, <1>3, <1>4, <1>5

(* A step of a branch keeps the shape. *)
LEMMA MoveKeepsShape ==
  ASSUME NEW g, IsGraph(g), NEW br, BranchesOK(g, br), NEW b \in DOMAIN br, NEW new,
         NEW tk \in SUBSET DOMAIN g.kind, NEW tkn, NEW lost, BranchMove(g, br, new, tk, tkn, b, lost)
  PROVE  BranchesOK(g, new) /\ tkn \subseteq DOMAIN g.kind
<1> DEFINE D == DOMAIN g.kind
           r == br[b]
<1>1. /\ r \in BranchRows(g) /\ r.queue \in Seq(D) /\ r.node \in D
      /\ r = [at |-> r.at, queue |-> r.queue, node |-> r.node, stop |-> r.stop, copy |-> r.copy]
  BY DEF BranchesOK, BranchRows
<1>2. CASE Ends(br, new, tk, tkn, b, lost)
  <2>1. DOMAIN new = DOMAIN br \ {b} /\ new = [c \in DOMAIN new |-> new[c]] /\ tkn = tk
    BY <1>2 DEF Ends, Restrict
  <2>2. \A c \in DOMAIN new : new[c] = br[c]
    BY <1>2 DEF Ends, Restrict
  <2> QED BY <2>1, <2>2 DEF BranchesOK
<1>3. CASE Takes(br, new, tk, tkn, b)
  <2> DEFINE row == [r EXCEPT !.at = "visit", !.node = Head(r.queue), !.queue = Tail(r.queue)]
  <2>1. Head(r.queue) \in D /\ Tail(r.queue) \in Seq(D)
    BY <1>1, <1>3, QueueParts DEF Takes
  <2>2. row \in BranchRows(g) /\ row.at = "visit"
    BY <1>1, <2>1 DEF BranchRows
  <2>3. new = [br EXCEPT ![b] = row] /\ tkn = tk \cup {Head(r.queue)}
    BY <1>3 DEF Takes
  <2> HIDE DEF row
  <2>4. BranchesOK(g, [br EXCEPT ![b] = row])
    BY <2>2, RowKeepsShape
  <2> QED BY <2>1, <2>3, <2>4
<1>4. CASE Moves(g, br, new, tk, tkn, b)
  <2>1. PICK at, copy :
          /\ new = [br EXCEPT ![b] = [br[b] EXCEPT !.at = at, !.copy = copy]]
          /\ \/ br[b].at = "visit" /\ at = "busy" /\ copy = br[b].copy
             \/ br[b].at = "visit" /\ at = "head" /\ copy = br[b].copy
             \/ br[b].at = "copy" /\ at = "write" /\ copy \in CopiesOf(g)
             \/ br[b].at = "write" /\ at = "head" /\ copy = NoCheckpoint
    BY <1>4 DEF Moves
  <2> DEFINE row == [r EXCEPT !.at = at, !.copy = copy]
  <2>2. row \in BranchRows(g) /\ (row.at = "write" => row.copy \in CopiesOf(g))
    BY <1>1, <2>1 DEF BranchRows
  <2>3. new = [br EXCEPT ![b] = row] /\ tkn = tk
    BY <1>4, <2>1 DEF Moves
  <2> HIDE DEF row
  <2>4. BranchesOK(g, [br EXCEPT ![b] = row])
    BY <2>2, RowKeepsShape
  <2> QED BY <2>3, <2>4
<1>5. CASE Queues(g, br, new, tk, tkn, b)
  <2>1. PICK next \in Options(g, r.node) : new = [br EXCEPT ![b] = Completed(r, next)]
    BY <1>5 DEF Queues
  <2>2. next \in Seq(D)
    BY <1>1, <2>1, OptionsLead
  <2>3. r.queue \o next \in Seq(D)
    BY <1>1, <2>2, QueueAppended
  <2>4. Completed(r, next) \in BranchRows(g) /\ Completed(r, next).at = "copy"
    BY <1>1, <2>3 DEF Completed, BranchRows
  <2>5. BranchesOK(g, [br EXCEPT ![b] = Completed(r, next)])
    BY <2>4, RowKeepsShape
  <2> QED BY <1>5, <2>1, <2>5 DEF Queues
<1>6. CASE Forks(g, br, new, tk, tkn, b)
  <2> DEFINE n == r.node
             S == Started(g, br, b)
  <2>0. ForkedFrom(g, br, new, b)
    BY <1>6, StartedAre
  <2>1. /\ DOMAIN new = S \cup DOMAIN br /\ new = [c \in DOMAIN new |-> new[c]]
        /\ \A c \in S : c \in Seq(Nat)
        /\ \A i \in DOMAIN Branches(g, n) :
             new[Append(b, i)] = NewBranch(Branches(g, n)[i], SectionJoins(g, n))
        /\ \A c \in DOMAIN br \ S : new[c] = IF c = b THEN Forking(r) ELSE br[c]
    BY <2>0 DEF ForkedFrom
  <2>2. ASSUME NEW c \in S
        PROVE  c \in Seq(Nat) /\ new[c] \in BranchRows(g) /\ new[c].at = "head"
    <3>1. PICK i \in DOMAIN Branches(g, n) : c = Append(b, i)
      BY DEF Started
    <3>2. Branches(g, n)[i] \in DOMAIN g.kind /\ SectionJoins(g, n) \in SUBSET DOMAIN g.kind
      BY BranchesInSection, SectionClosed DEF SectionJoins
    <3>3. new[c] = NewBranch(Branches(g, n)[i], SectionJoins(g, n))
      BY <2>1, <3>1
    <3>4. /\ NewBranch(Branches(g, n)[i], SectionJoins(g, n)) \in BranchRows(g)
          /\ NewBranch(Branches(g, n)[i], SectionJoins(g, n)).at = "head"
      BY <3>2, NewRow
    <3> QED BY <2>1, <3>3, <3>4
  <2>3. Forking(r) \in BranchRows(g) /\ Forking(r).at = "fork"
    BY <1>1 DEF BranchRows, Forking
  <2>4. \A c \in DOMAIN br : br[c] \in BranchRows(g) /\ (br[c].at = "write" => br[c].copy \in CopiesOf(g)) /\ c \in Seq(Nat)
    BY DEF BranchesOK
  <2>5. tkn = tk
    BY <1>6 DEF Forks
  <2> HIDE DEF r, S
  <2>6. ASSUME NEW c \in DOMAIN new
        PROVE  c \in Seq(Nat) /\ new[c] \in BranchRows(g) /\ (new[c].at = "write" => new[c].copy \in CopiesOf(g))
    <3>1. CASE c \in S
      BY <2>2, <3>1
    <3>2. CASE c \notin S
      BY <2>1, <2>3, <2>4, <3>2
    <3> QED BY <3>1, <3>2
  <2> QED BY <2>1, <2>5, <2>6 DEF BranchesOK
<1> QED BY <1>2, <1>3, <1>4, <1>5, <1>6 DEF BranchMove

-----------------------------------------------------------------------------
(* Part 4: the branches of a walk as a tree *)

(* A branch of a section: its parent waits, and so does the root; what it  *)
(* has queued is in the section, and what it works on is not a join of it. *)
BelowParent(g, br, b) ==
  LET p == Front(b)
  IN  /\ <<>> \in DOMAIN br /\ br[<<>>].at = "fork"
      /\ p \in DOMAIN br /\ br[p].at = "fork"
      /\ br[b].stop = SectionJoins(g, br[p].node)
      /\ \A i \in DOMAIN br[b].queue : br[b].queue[i] \in Section(g, br[p].node)
      /\ br[b].at # "head" => br[b].node \in Inside(g, br[p].node)

TreeOK(g, br) ==
  \A b \in DOMAIN br :
    /\ br[b].at = "fork" => br[b].node \in Parallel(g)
    /\ br[b].at = "busy" => g.kind[br[b].node] \in Resumable
    /\ b = <<>> => br[b].stop = {}
    /\ b # <<>> => BelowParent(g, br, b)

(* The parent's path is shorter, and so is the root's. *)
LEMMA PathsAbove ==
  ASSUME NEW b \in Seq(Nat), b # <<>>
  PROVE  Front(b) # b /\ IsStrictPrefix(Front(b), b) /\ IsStrictPrefix(<<>>, b)
<1>1. Len(b) \in Nat /\ Len(b) # 0 /\ DOMAIN b = 1..Len(b)
  BY EmptySeq, LenProperties
<1>2. /\ Front(b) \in Seq(Nat) /\ Len(Front(b)) = Len(b) - 1
      /\ \A i \in 1..(Len(b) - 1) : Front(b)[i] = b[i]
  BY <1>1, SMT DEF Front
<1>3. Front(b) # b
  BY <1>1, <1>2
<1>4. IsStrictPrefix(Front(b), b)
  <2>1. SubSeq(Front(b), 1, Len(Front(b))) = SubSeq(b, 1, Len(Front(b)))
    BY <1>1, <1>2, SMT DEF Front
  <2> QED BY <1>1, <1>2, <1>3, <2>1 DEF IsStrictPrefix, IsPrefix
<1>5. IsStrictPrefix(<<>>, b)
  <2>1. Len(<<>>) = 0 /\ <<>> # b
    BY <1>1
  <2>2. SubSeq(<<>>, 1, 0) = <<>> /\ SubSeq(b, 1, 0) = <<>>
    BY <1>1, SMT
  <2> QED BY <1>1, <2>1, <2>2 DEF IsStrictPrefix, IsPrefix
<1> QED BY <1>3, <1>4, <1>5

(* A branch with nobody below it changes, and stays in its section. *)
LEMMA RowKeepsTree ==
  ASSUME NEW g, NEW br, BranchesOK(g, br), TreeOK(g, br), NEW b \in DOMAIN br, NEW r,
         r.stop = br[b].stop, r.at # "fork", r.at = "busy" => g.kind[r.node] \in Resumable,
         br[b].at # "fork" \/ \A c \in DOMAIN br : ~IsStrictPrefix(b, c),
         b # <<>> => /\ \A i \in DOMAIN r.queue : r.queue[i] \in Section(g, br[Front(b)].node)
                     /\ r.at # "head" => r.node \in Inside(g, br[Front(b)].node)
  PROVE  TreeOK(g, [br EXCEPT ![b] = r])
<1> DEFINE new == [br EXCEPT ![b] = r]
<1>1. DOMAIN new = DOMAIN br /\ new[b] = r /\ \A c \in DOMAIN br : c # b => new[c] = br[c]
  OBVIOUS
<1> HIDE DEF new
<1>2. \A c \in DOMAIN br : c \in Seq(Nat)
  BY DEF BranchesOK
<1>3. ASSUME NEW c \in DOMAIN br, c # <<>>
      PROVE  Front(c) # b /\ b # <<>> /\ Front(c) # c
  <2>1. IsStrictPrefix(Front(c), c) /\ IsStrictPrefix(<<>>, c) /\ Front(c) # c
    BY <1>2, <1>3, PathsAbove
  <2>2. br[Front(c)].at = "fork" /\ br[<<>>].at = "fork"
    BY <1>3 DEF TreeOK, BelowParent
  <2> QED BY <2>1, <2>2
<1>4. ASSUME NEW c \in DOMAIN br, c # <<>>
      PROVE  BelowParent(g, new, c)
  <2>1. BelowParent(g, br, c)
    BY <1>4 DEF TreeOK
  <2>2. new[Front(c)] = br[Front(c)] /\ new[<<>>] = br[<<>>]
    BY <1>1, <1>3, <1>4, <2>1 DEF BelowParent
  <2>3. CASE c = b
    BY <1>1, <1>4, <2>1, <2>2, <2>3 DEF BelowParent
  <2>4. CASE c # b
    BY <1>1, <2>1, <2>2, <2>4 DEF BelowParent
  <2> QED BY <2>3, <2>4
<1>5. ASSUME NEW c \in DOMAIN br
      PROVE  /\ new[c].at = "fork" => new[c].node \in Parallel(g)
             /\ new[c].at = "busy" => g.kind[new[c].node] \in Resumable
             /\ c = <<>> => new[c].stop = {}
  BY <1>1 DEF TreeOK
<1>6. TreeOK(g, new)
  BY <1>1, <1>4, <1>5 DEF TreeOK
<1> QED BY <1>6 DEF new

(* A step of a branch keeps the tree. *)
LEMMA MoveKeepsTree ==
  ASSUME NEW g, IsGraph(g), NEW br, BranchesOK(g, br), TreeOK(g, br), NEW b \in DOMAIN br,
         NEW new, NEW tk, NEW tkn, NEW lost, BranchMove(g, br, new, tk, tkn, b, lost)
  PROVE  TreeOK(g, new)
<1> DEFINE D == DOMAIN g.kind
           r == br[b]
           p == br[Front(b)].node
<1>1. /\ r \in BranchRows(g) /\ r.queue \in Seq(D) /\ r.node \in D
      /\ r = [at |-> r.at, queue |-> r.queue, node |-> r.node, stop |-> r.stop, copy |-> r.copy]
  BY DEF BranchesOK, BranchRows
<1>2. b # <<>> => /\ r.stop = SectionJoins(g, p)
                  /\ \A i \in DOMAIN r.queue : r.queue[i] \in Section(g, p)
                  /\ r.at # "head" => r.node \in Inside(g, p)
  BY DEF TreeOK, BelowParent
<1>3. CASE Ends(br, new, tk, tkn, b, lost)
  <2>1. DOMAIN new = DOMAIN br \ {b} /\ \A c \in DOMAIN new : new[c] = br[c]
    BY <1>3 DEF Ends, Restrict
  <2>2. r.at # "fork"
    BY <1>3 DEF Ends
  <2> HIDE DEF r
  <2>3. ASSUME NEW c \in DOMAIN new, c # <<>>
        PROVE  BelowParent(g, new, c)
    <3>1. BelowParent(g, br, c)
      BY <2>1, <2>3 DEF TreeOK
    <3>2. b # <<>> /\ b # Front(c)
      BY <2>2, <3>1 DEF BelowParent, r
    <3>3. new[<<>>] = br[<<>>] /\ new[Front(c)] = br[Front(c)] /\ <<>> \in DOMAIN new /\ Front(c) \in DOMAIN new
      BY <2>1, <3>1, <3>2 DEF BelowParent
    <3> QED BY <2>1, <3>1, <3>3 DEF BelowParent
  <2> QED BY <2>1, <2>3 DEF TreeOK
<1>4. CASE Takes(br, new, tk, tkn, b)
  <2> DEFINE row == [r EXCEPT !.at = "visit", !.node = Head(r.queue), !.queue = Tail(r.queue)]
  <2>1. /\ row.at = "visit" /\ row.node = Head(r.queue) /\ row.queue = Tail(r.queue) /\ row.stop = r.stop
        /\ new = [br EXCEPT ![b] = row]
    BY <1>1, <1>4 DEF Takes
  <2>2. /\ Head(r.queue) = r.queue[1] /\ 1 \in DOMAIN r.queue /\ Head(r.queue) \notin r.stop
        /\ \A k \in DOMAIN Tail(r.queue) : k + 1 \in DOMAIN r.queue /\ Tail(r.queue)[k] = r.queue[k + 1]
    BY <1>1, <1>4, QueueParts DEF Takes
  <2>3. r.at # "fork"
    BY <1>4 DEF Takes
  <2> HIDE DEF row, r
  <2>4. b # <<>> => /\ \A i \in DOMAIN row.queue : row.queue[i] \in Section(g, p)
                    /\ row.node \in Inside(g, p)
    BY <1>2, <2>1, <2>2 DEF Inside
  <2>5. TreeOK(g, [br EXCEPT ![b] = row])
    BY <2>1, <2>3, <2>4, RowKeepsTree DEF r
  <2> QED BY <2>1, <2>5
<1>5. CASE Moves(g, br, new, tk, tkn, b)
  <2>1. PICK at, copy :
          /\ new = [br EXCEPT ![b] = [r EXCEPT !.at = at, !.copy = copy]]
          /\ \/ r.at = "visit" /\ at = "busy" /\ g.kind[r.node] \in Resumable
             \/ r.at = "visit" /\ at = "head"
             \/ r.at = "copy" /\ at = "write"
             \/ r.at = "write" /\ at = "head"
    BY <1>5 DEF Moves
  <2> DEFINE row == [r EXCEPT !.at = at, !.copy = copy]
  <2>2. row.at = at /\ row.node = r.node /\ row.queue = r.queue /\ row.stop = r.stop
    BY <1>1
  <2> HIDE DEF row, r
  <2>3. /\ r.at # "fork" /\ row.at # "fork" /\ (row.at = "busy" => g.kind[row.node] \in Resumable)
        /\ b # <<>> => /\ \A i \in DOMAIN row.queue : row.queue[i] \in Section(g, p)
                       /\ row.at # "head" => row.node \in Inside(g, p)
    BY <1>2, <2>1, <2>2
  <2>4. TreeOK(g, [br EXCEPT ![b] = row])
    BY <2>2, <2>3, RowKeepsTree DEF r
  <2> QED BY <2>1, <2>4 DEF row
<1>6. CASE Queues(g, br, new, tk, tkn, b)
  <2>1. PICK next \in Options(g, r.node) : new = [br EXCEPT ![b] = Completed(r, next)]
    BY <1>6 DEF Queues
  <2> DEFINE row == Completed(r, next)
  <2>2. row.at = "copy" /\ row.node = r.node /\ row.queue = r.queue \o next /\ row.stop = r.stop
    BY <1>1 DEF Completed
  <2>3. /\ r.at # "head"
        /\ br[b].at # "fork" \/ \A c \in DOMAIN br : ~IsStrictPrefix(b, c)
    BY <1>6 DEF Queues
  <2>4. next \in Seq(D)
    BY <1>1, <2>1, OptionsLead
  <2>5. \A i \in DOMAIN (r.queue \o next) :
          \/ i \in DOMAIN r.queue /\ (r.queue \o next)[i] = r.queue[i]
          \/ i - Len(r.queue) \in DOMAIN next /\ (r.queue \o next)[i] = next[i - Len(r.queue)]
    BY <1>1, <2>4, QueueAppended
  <2>6. b # <<>> => \A k \in DOMAIN next : next[k] \in Section(g, p)
    BY <1>2, <2>1, <2>3, StaysInSection
  <2> HIDE DEF row, r
  <2>7. b # <<>> => /\ \A i \in DOMAIN row.queue : row.queue[i] \in Section(g, p)
                    /\ row.node \in Inside(g, p)
    BY <1>2, <2>2, <2>3, <2>5, <2>6
  <2>8. TreeOK(g, [br EXCEPT ![b] = row])
    BY <2>2, <2>3, <2>7, RowKeepsTree DEF r
  <2> QED BY <2>1, <2>8 DEF row
<1>7. CASE Forks(g, br, new, tk, tkn, b)
  <2> DEFINE n == r.node
             S == Started(g, br, b)
  <2>1. ForkedFrom(g, br, new, b)
    BY <1>7, StartedAre
  <2>2. r.at = "visit" /\ n \in Parallel(g)
    BY <1>7 DEF Forks
  <2>3. /\ DOMAIN new = S \cup DOMAIN br
        /\ \A c \in S : c \in Seq(Nat) /\ c # <<>> /\ c # b /\ Front(c) = b
        /\ \A i \in DOMAIN Branches(g, n) :
             new[Append(b, i)] = NewBranch(Branches(g, n)[i], SectionJoins(g, n))
        /\ \A c \in DOMAIN br \ S : new[c] = IF c = b THEN Forking(r) ELSE br[c]
    BY <2>1 DEF ForkedFrom
  <2>4. Forking(r).at = "fork" /\ Forking(r).node = n /\ Forking(r).queue = r.queue /\ Forking(r).stop = r.stop
    BY <1>1 DEF Forking
  <2>5. ASSUME NEW c \in S
        PROVE  \E i \in DOMAIN Branches(g, n) : c = Append(b, i)
    BY DEF Started
  <2>6. ASSUME NEW c \in DOMAIN br, c # <<>>
        PROVE  Front(c) # b /\ b # <<>> /\ c \notin S
    <3>1. br[Front(c)].at = "fork" /\ br[<<>>].at = "fork"
      BY <2>6 DEF TreeOK, BelowParent
    <3> QED BY <2>2, <2>3, <3>1
  <2> HIDE DEF r, S
  <2>7. new[b] = Forking(r) /\ b \notin S /\ <<>> \notin S
    BY <2>3
  <2>8. b # <<>> => <<>> \in DOMAIN br /\ br[<<>>].at = "fork" /\ new[<<>>] = br[<<>>]
    BY <2>3, <2>7 DEF TreeOK, BelowParent
  <2>9. ASSUME NEW c \in S
        PROVE  /\ BelowParent(g, new, c) /\ new[c].at = "head" /\ c # <<>>
    <3>1. PICK i \in DOMAIN Branches(g, n) : c = Append(b, i)
      BY <2>5
    <3> DEFINE start == Branches(g, n)[i]
    <3>2. start \in Section(g, n) /\ start \in DOMAIN g.kind /\ SectionJoins(g, n) \in SUBSET DOMAIN g.kind
      BY BranchesInSection, SectionClosed DEF SectionJoins
    <3>3. new[c] = NewBranch(start, SectionJoins(g, n))
      BY <2>3, <3>1
    <3>4. new[c].at = "head" /\ new[c].queue = <<start>> /\ new[c].stop = SectionJoins(g, n)
      BY <3>2, <3>3, NewRow
    <3>5. \A k \in DOMAIN new[c].queue : new[c].queue[k] \in Section(g, n)
      <4> HIDE DEF start
      <4> QED BY <3>2, <3>4
    <3>6. <<>> \in DOMAIN new /\ new[<<>>].at = "fork"
      <4>1. CASE b = <<>>
        BY <2>3, <2>4, <2>7, <4>1
      <4>2. CASE b # <<>>
        BY <2>3, <2>8, <4>2
      <4> QED BY <4>1, <4>2
    <3>7. Front(c) = b /\ b \in DOMAIN new /\ new[b].at = "fork" /\ new[b].node = n /\ c # <<>>
      BY <2>3, <2>4, <2>7
    <3> HIDE DEF n
    <3> QED BY <3>4, <3>5, <3>6, <3>7 DEF BelowParent
  <2>10. ASSUME NEW c \in DOMAIN br, c # <<>>
         PROVE  BelowParent(g, new, c)
    <3>1. BelowParent(g, br, c)
      BY <2>10 DEF TreeOK
    <3>2. /\ Front(c) \in DOMAIN br /\ Front(c) # b /\ br[Front(c)].at = "fork" /\ c \notin S /\ b # <<>>
          /\ Front(c) \notin S
      <4>1. Front(c) \in DOMAIN br /\ Front(c) # b /\ br[Front(c)].at = "fork" /\ c \notin S /\ b # <<>>
        BY <2>6, <2>10, <3>1 DEF BelowParent
      <4>2. Front(c) \notin S
        BY <2>6, <2>7, <4>1
      <4> QED BY <4>1, <4>2
    <3>3. new[Front(c)] = br[Front(c)] /\ new[<<>>] = br[<<>>] /\ <<>> \in DOMAIN new
      BY <2>3, <2>8, <3>2
    <3>4. new[c] = IF c = b THEN Forking(r) ELSE br[c]
      BY <2>3, <3>2
    <3>5. CASE c = b
      <4>1. new[c].queue = br[c].queue /\ new[c].stop = br[c].stop /\ new[c].node = br[c].node /\ br[c].at # "head"
        BY <2>2, <2>4, <3>4, <3>5 DEF r
      <4> QED BY <2>3, <3>1, <3>2, <3>3, <4>1 DEF BelowParent
    <3>6. CASE c # b
      BY <2>3, <3>1, <3>2, <3>3, <3>4, <3>6 DEF BelowParent
    <3> QED BY <3>5, <3>6
  <2>11. ASSUME NEW c \in DOMAIN new
         PROVE  /\ new[c].at = "fork" => new[c].node \in Parallel(g)
                /\ new[c].at = "busy" => g.kind[new[c].node] \in Resumable
                /\ c = <<>> => new[c].stop = {}
                /\ c # <<>> => BelowParent(g, new, c)
    <3>1. CASE c \in S
      BY <2>9, <3>1
    <3>2. CASE c = b
      BY <2>2, <2>3, <2>4, <2>7, <2>10, <3>2 DEF TreeOK, r
    <3>3. CASE c \notin S /\ c # b
      BY <2>3, <2>10, <3>3 DEF TreeOK
    <3> QED BY <3>1, <3>2, <3>3
  <2> QED BY <2>11 DEF TreeOK
<1> QED BY <1>3, <1>4, <1>5, <1>6, <1>7 DEF BranchMove

-----------------------------------------------------------------------------
(* Part 5: the invariants of every graph *)

(* The shape of every variable. *)
ShapeInv ==
  /\ graph \in Graphs /\ nested \in BOOLEAN
  /\ status \in {"running", "success", "failed", "cancelled"}
  /\ checkpoint \in CopiesOf(graph) \cup {NoCheckpoint}
  /\ sub \in [Nodes -> {"none", "running", "success", "failed", "cancelled"}]
  /\ recovery \in {"idle", "due", "listed"} /\ cancelling \in BOOLEAN /\ touched \in BOOLEAN
  /\ walk \in [Walks -> WalkRows(graph)]
  /\ DOMAIN branch = Walks /\ branch = [w \in Walks |-> branch[w]]
  /\ \A w \in Walks : BranchesOK(graph, branch[w])
  /\ finished \subseteq Nodes /\ basis \in [Walks -> SUBSET Nodes] /\ taken \in [Walks -> SUBSET Nodes]
  /\ fired \in [Walks -> [Nodes -> Nat]]

(* Every walk but the first one has a recovery, which a restart or the     *)
(* boot before the run has asked for; the ones to come have not begun.     *)
WalksInv ==
  /\ walks \in Nat /\ walks >= 1 /\ faults \in 0..MaxFaults
  /\ walks <= faults + 2 /\ (recovery # "idle" => walks <= faults + 1)
  /\ \A w \in Walks : walk[w].at # "off" => w <= walks

(* The branches of every walk are a tree, and a walk that is not under way *)
(* has none.                                                               *)
TreeInv == \A w \in Walks : TreeOK(graph, branch[w]) /\ (walk[w].at # "walking" => DOMAIN branch[w] = {})

(* What a step can be for the walk w. *)
StepOf(w) ==
  \/ /\ branch'[w] = branch[w] /\ taken'[w] = taken[w]
     /\ walk'[w].at = "walking" \/ walk[w].at # "walking" \/ <<>> \notin DOMAIN branch[w]
  \/ /\ \E b \in DOMAIN branch[w] :
          BranchMove(graph, branch[w], branch'[w], taken[w], taken'[w], b, walk'[w].marked)
     /\ walk'[w].at = walk[w].at
  \/ /\ walk[w].at = "new" /\ walk'[w].at = "walking"
     /\ branch'[w] = With(branch[w], <<>>, NewBranch(Start(graph), {})) /\ taken'[w] = taken[w]
  \/ branch'[w] = <<>> /\ taken'[w] = taken[w] /\ walk'[w].at = "off"

(* Which ways on a node has. *)
LEMMA OptionsOf ==
  ASSUME NEW g, NEW n
  PROVE  /\ g.kind[n] \notin {"condition", "loop", "parallel", "end", "agentless"} => Successors(g, n) \in Options(g, n)
         /\ g.kind[n] \in {"end", "agentless"} => <<>> \in Options(g, n)
         /\ g.kind[n] = "condition" => \A met \in BOOLEAN : Route(g, n, met) \in Options(g, n)
         /\ g.kind[n] = "loop" => \A done \in BOOLEAN : Round(g, n, done) \in Options(g, n)
         /\ g.kind[n] = "parallel" => Sorted(SectionJoins(g, n)) \in Options(g, n)
<1>1. CASE g.kind[n] = "condition"
  BY <1>1 DEF Options
<1>2. CASE g.kind[n] = "loop"
  BY <1>2 DEF Options
<1>3. CASE g.kind[n] = "parallel"
  BY <1>3 DEF Options
<1>4. CASE g.kind[n] \in {"end", "agentless"}
  BY <1>4 DEF Options
<1>5. CASE g.kind[n] \notin {"condition", "loop", "parallel", "end", "agentless"}
  BY <1>5 DEF Options
<1> QED BY <1>1, <1>2, <1>3, <1>4, <1>5

(* Only the branches of w change, and where w is does not. *)
Elsewhere(w) ==
  /\ graph' = graph /\ nested' = nested
  /\ walk'[w].at = walk[w].at
  /\ \A v \in Walks \ {w} : branch'[v] = branch[v] /\ taken'[v] = taken[v] /\ walk'[v] = walk[v]

(* Every step of a branch is one of the five moves. *)
LEMMA BranchStepMoves ==
  ASSUME ShapeInv, TreeInv, NEW w \in Walks, NEW b \in DOMAIN branch[w], BranchStep(w, b)
  PROVE  /\ BranchMove(graph, branch[w], branch'[w], taken[w], taken'[w], b, walk'[w].marked)
         /\ Elsewhere(w)
<1> DEFINE br == branch[w]
           new == branch'[w]
           r == br[b]
           tk == taken[w]
           tkn == taken'[w]
           lost == walk'[w].marked
<1> USE DEF constVars, histVars, dbVars
<1>1. /\ br = [c \in DOMAIN br |-> br[c]] /\ DOMAIN branch = Walks /\ walk \in [Walks -> WalkRows(graph)]
      /\ taken \in [Walks -> SUBSET Nodes] /\ branch = [v \in Walks |-> branch[v]]
      /\ r \in BranchRows(graph) /\ r.node \in Nodes
      /\ r = [at |-> r.at, queue |-> r.queue, node |-> r.node, stop |-> r.stop, copy |-> r.copy]
  BY DEF ShapeInv, BranchesOK, BranchRows, Nodes
<1>2. /\ r.at = "fork" => r.node \in Parallel(graph)
      /\ r.at = "busy" => Kind(r.node) \in Resumable
  BY DEF TreeInv, TreeOK, Kind
<1>3. ASSUME NEW row, Put(w, b, row)
      PROVE  new = [br EXCEPT ![b] = row] /\ \A v \in Walks \ {w} : branch'[v] = branch[v]
  <2>1. branch' = [branch EXCEPT ![w] = With(br, b, row)]
    BY <1>3 DEF Put
  <2>2. With(br, b, row) = [br EXCEPT ![b] = row]
    BY <1>1, PutBack
  <2> HIDE DEF br
  <2> QED BY <1>1, <2>1, <2>2
<1>4. ASSUME EndBranch(w, b)
      PROVE  new = Restrict(br, DOMAIN br \ {b}) /\ \A v \in Walks \ {w} : branch'[v] = branch[v]
  BY <1>1, <1>4 DEF EndBranch
<1>5. ASSUME UNCHANGED taken PROVE tkn = tk /\ \A v \in Walks : taken'[v] = taken[v]
  BY <1>5
<1>6. ASSUME UNCHANGED walk PROVE walk'[w].at = walk[w].at /\ \A v \in Walks : walk'[v] = walk[v]
  BY <1>6
<1>7. ASSUME NEW next \in Options(graph, r.node), Put(w, b, Completed(r, next)), UNCHANGED taken,
             \/ r.at \in {"visit", "busy"} /\ r.node \notin Parallel(graph)
             \/ r.at = "fork" /\ \A c \in DOMAIN br : ~IsStrictPrefix(b, c)
      PROVE  Queues(graph, br, new, tk, tkn, b) /\ \A v \in Walks \ {w} : branch'[v] = branch[v] /\ taken'[v] = taken[v]
  BY <1>3, <1>5, <1>7 DEF Queues
<1>8. ASSUME NEW row, NEW v \in Walks, v # w, walk' = [walk EXCEPT ![w] = row]
      PROVE  walk'[v] = walk[v] /\ walk'[w] = row
  BY <1>1, <1>8
<1>20. CASE BranchEnds(w, b)
  <2>1. Ends(br, new, tk, tkn, b, lost)
    BY <1>4, <1>5, <1>20 DEF BranchEnds, At, Ends
  <2> QED BY <1>4, <1>5, <1>6, <1>20, <2>1 DEF BranchEnds, Elsewhere, BranchMove
<1>21. CASE AbortWalk(w, b)
  <2>1. lost = TRUE /\ walk'[w].at = walk[w].at /\ \A v \in Walks \ {w} : walk'[v] = walk[v]
    BY <1>1, <1>21 DEF AbortWalk, WalkRows
  <2>2. Ends(br, new, tk, tkn, b, lost)
    BY <1>4, <1>5, <1>21, <2>1 DEF AbortWalk, Ready, At, Ends
  <2> QED BY <1>4, <1>5, <1>21, <2>1, <2>2 DEF AbortWalk, Elsewhere, BranchMove
<1>22. CASE TakeNode(w, b)
  <2>1. walk'[w].at = walk[w].at /\ \A v \in Walks \ {w} : walk'[v] = walk[v]
    BY <1>1, <1>22 DEF TakeNode, WalkRows
  <2>2. r.at = "head" /\ r.queue # <<>>
    BY <1>22 DEF TakeNode, Ready, At
  <2>3. CASE HandedOff(w, b)
    <3>1. EndBranch(w, b) /\ UNCHANGED taken
      BY <1>22, <2>3 DEF TakeNode
    <3>2. Ends(br, new, tk, tkn, b, lost)
      BY <1>4, <1>5, <2>2, <2>3, <3>1 DEF Ends, HandedOff
    <3> QED BY <1>4, <1>5, <1>22, <2>1, <3>1, <3>2 DEF TakeNode, Elsewhere, BranchMove
  <2>4. CASE ~HandedOff(w, b)
    <3>1. /\ Put(w, b, [r EXCEPT !.at = "visit", !.node = Head(r.queue), !.queue = Tail(r.queue)])
          /\ taken' = [taken EXCEPT ![w] = @ \cup {Head(r.queue)}]
      BY <1>22, <2>4 DEF TakeNode
    <3>2. tkn = tk \cup {Head(r.queue)} /\ \A v \in Walks \ {w} : taken'[v] = taken[v]
      BY <1>1, <3>1
    <3>3. Takes(br, new, tk, tkn, b)
      BY <1>3, <2>2, <2>4, <3>1, <3>2 DEF Takes, HandedOff
    <3> QED BY <1>3, <1>22, <2>1, <3>1, <3>2, <3>3 DEF TakeNode, Elsewhere, BranchMove
  <2> QED BY <2>3, <2>4
<1>23. ASSUME NEW kind \in {"start", "join", "tool"}, PassOn(w, b, kind)
       PROVE  BranchMove(graph, br, new, tk, tkn, b, lost) /\ Elsewhere(w)
  <2>1. walk'[w].at = walk[w].at /\ \A v \in Walks \ {w} : walk'[v] = walk[v]
    BY <1>1, <1>23 DEF PassOn, WalkRows
  <2>2. r.at = "visit" /\ Kind(r.node) = kind /\ UNCHANGED taken /\ graph' = graph /\ nested' = nested
        /\ Put(w, b, Completed(r, Successors(graph, r.node)))
    BY <1>23 DEF PassOn, Visiting, At
  <2>3. Successors(graph, r.node) \in Options(graph, r.node) /\ r.node \notin Parallel(graph)
    BY <2>2, OptionsOf DEF Kind, Parallel
  <2> QED BY <1>7, <2>1, <2>2, <2>3 DEF BranchMove, Elsewhere
<1>24. CASE DeliverEnd(w, b)
  <2>1. walk'[w].at = walk[w].at /\ \A v \in Walks \ {w} : walk'[v] = walk[v]
    BY <1>1, <1>24 DEF DeliverEnd, WalkRows
  <2>2. r.at = "visit" /\ Kind(r.node) = "end" /\ UNCHANGED taken /\ graph' = graph /\ nested' = nested
        /\ Put(w, b, Completed(r, <<>>))
    BY <1>24 DEF DeliverEnd, Visiting, At
  <2>3. <<>> \in Options(graph, r.node) /\ r.node \notin Parallel(graph)
    BY <2>2, OptionsOf DEF Kind, Parallel
  <2> QED BY <1>7, <2>1, <2>2, <2>3 DEF BranchMove, Elsewhere
<1>25. CASE Reuse(w, b)
  <2>1. walk'[w].at = walk[w].at /\ \A v \in Walks \ {w} : walk'[v] = walk[v]
    BY <1>1, <1>25 DEF Reuse, WalkRows
  <2>2. r.at = "visit" /\ Kind(r.node) \in Resumable /\ UNCHANGED taken /\ graph' = graph /\ nested' = nested
        /\ Put(w, b, Completed(r, Successors(graph, r.node)))
    BY <1>25 DEF Reuse, Visiting, At
  <2>3. Successors(graph, r.node) \in Options(graph, r.node) /\ r.node \notin Parallel(graph)
    BY <2>2, OptionsOf DEF Kind, Parallel, Resumable, SubKinds, EffectKinds
  <2> QED BY <1>7, <2>1, <2>2, <2>3 DEF BranchMove, Elsewhere
<1>26. ASSUME NEW kind \in Resumable, Execute(w, b, kind)
       PROVE  BranchMove(graph, br, new, tk, tkn, b, lost) /\ Elsewhere(w)
  <2>1. r.at = "visit" /\ Kind(r.node) = kind /\ UNCHANGED <<taken, walk>> /\ graph' = graph /\ nested' = nested
        /\ Put(w, b, [r EXCEPT !.at = "busy"])
    BY <1>26 DEF Execute, Visiting, At
  <2>2. [r EXCEPT !.at = "busy"] = [r EXCEPT !.at = "busy", !.copy = r.copy]
    BY <1>1
  <2>3. Moves(graph, br, new, tk, tkn, b)
    <3>1. new = [br EXCEPT ![b] = [r EXCEPT !.at = "busy", !.copy = r.copy]]
      BY <1>3, <2>1, <2>2
    <3> QED BY <1>5, <2>1, <3>1 DEF Moves, Kind
  <2> QED BY <1>3, <1>5, <1>6, <2>1, <2>3 DEF BranchMove, Elsewhere
<1>27. CASE Return(w, b)
  <2>1. PICK o \in Outcomes(r.node) :
          IF FailsWorkflow(o)
          THEN walk' = [walk EXCEPT ![w].marked = TRUE] /\ EndBranch(w, b)
          ELSE walk' = [walk EXCEPT ![w].out = @ \cup {r.node}]
               /\ Put(w, b, Completed(r, Successors(graph, r.node)))
    BY <1>27 DEF Return
  <2>2. r.at = "busy" /\ Kind(r.node) \in Resumable /\ UNCHANGED taken /\ graph' = graph /\ nested' = nested
    BY <1>2, <1>27 DEF Return, At
  <2>3. walk'[w].at = walk[w].at /\ \A v \in Walks \ {w} : walk'[v] = walk[v]
    <3>1. CASE FailsWorkflow(o)
      BY <1>1, <2>1, <3>1 DEF WalkRows
    <3>2. CASE ~FailsWorkflow(o)
      BY <1>1, <2>1, <3>2 DEF WalkRows
    <3> QED BY <3>1, <3>2
  <2>4. CASE FailsWorkflow(o)
    <3>1. lost = TRUE
      BY <1>1, <2>1, <2>4 DEF WalkRows
    <3>2. Ends(br, new, tk, tkn, b, lost)
      BY <1>4, <1>5, <2>1, <2>2, <2>4, <3>1 DEF Ends
    <3> QED BY <1>4, <1>5, <2>1, <2>2, <2>3, <2>4, <3>2 DEF BranchMove, Elsewhere
  <2>5. CASE ~FailsWorkflow(o)
    <3>1. Successors(graph, r.node) \in Options(graph, r.node) /\ r.node \notin Parallel(graph)
      BY <2>2, OptionsOf DEF Kind, Parallel, Resumable, SubKinds, EffectKinds
    <3> QED BY <1>7, <2>1, <2>2, <2>3, <2>5, <3>1 DEF BranchMove, Elsewhere
  <2> QED BY <2>4, <2>5
<1>28. CASE FollowRoute(w, b)
  <2>1. PICK met \in BOOLEAN :
          Put(w, b, IF Route(graph, r.node, met) = <<>> THEN [r EXCEPT !.at = "head"]
                    ELSE Completed(r, Route(graph, r.node, met)))
    BY <1>28 DEF FollowRoute
  <2>2. r.at = "visit" /\ Kind(r.node) = "condition" /\ UNCHANGED <<taken, walk>> /\ graph' = graph /\ nested' = nested
    BY <1>28 DEF FollowRoute, Visiting, At
  <2>3. Route(graph, r.node, met) \in Options(graph, r.node) /\ r.node \notin Parallel(graph) /\ Kind(r.node) \notin SubKinds
    BY <2>2, OptionsOf DEF Kind, Parallel, SubKinds
  <2>4. CASE Route(graph, r.node, met) = <<>>
    <3>1. new = [br EXCEPT ![b] = [r EXCEPT !.at = "head"]] /\ \A v \in Walks \ {w} : branch'[v] = branch[v]
      BY <1>3, <2>1, <2>4
    <3>2. [r EXCEPT !.at = "head"] = [r EXCEPT !.at = "head", !.copy = r.copy]
      BY <1>1
    <3>3. Moves(graph, br, new, tk, tkn, b)
      BY <1>5, <2>2, <2>3, <2>4, <3>1, <3>2 DEF Moves, Kind
    <3> QED BY <1>5, <1>6, <2>2, <3>1, <3>3 DEF BranchMove, Elsewhere
  <2>5. CASE Route(graph, r.node, met) # <<>>
    BY <1>6, <1>7, <2>1, <2>2, <2>3, <2>5 DEF BranchMove, Elsewhere
  <2> QED BY <2>4, <2>5
<1>29. CASE SkipNode(w, b)
  <2>1. r.at = "visit" /\ Kind(r.node) = "agentless" /\ UNCHANGED <<taken, walk>> /\ graph' = graph /\ nested' = nested
        /\ Put(w, b, [r EXCEPT !.at = "head"])
    BY <1>29 DEF SkipNode, Visiting, At
  <2>2. <<>> \in Options(graph, r.node) /\ r.node \notin Parallel(graph) /\ Kind(r.node) \notin SubKinds
    BY <2>1, OptionsOf DEF Kind, Parallel, SubKinds
  <2>3. new = [br EXCEPT ![b] = [r EXCEPT !.at = "head"]] /\ \A v \in Walks \ {w} : branch'[v] = branch[v]
    BY <1>3, <2>1
  <2>4. [r EXCEPT !.at = "head"] = [r EXCEPT !.at = "head", !.copy = r.copy]
    BY <1>1
  <2>5. Moves(graph, br, new, tk, tkn, b)
    BY <1>5, <2>1, <2>2, <2>3, <2>4 DEF Moves, Kind
  <2> QED BY <1>5, <1>6, <2>1, <2>3, <2>5 DEF BranchMove, Elsewhere
<1>30. CASE Loop(w, b)
  <2>1. PICK met \in BOOLEAN :
          LET done == met \/ LastRound(w, r.node)
          IN  /\ walk' = [walk EXCEPT ![w].iter[r.node] = IF done THEN 0 ELSE Count(w, r.node)]
              /\ Put(w, b, Completed(r, Round(graph, r.node, done)))
    BY <1>30 DEF Loop
  <2> DEFINE done == met \/ LastRound(w, r.node)
  <2>2. r.at = "visit" /\ Kind(r.node) = "loop" /\ UNCHANGED taken /\ graph' = graph /\ nested' = nested
    BY <1>30 DEF Loop, Visiting, At
  <2>3. walk'[w].at = walk[w].at /\ \A v \in Walks \ {w} : walk'[v] = walk[v]
    BY <1>1, <2>1 DEF WalkRows
  <2>4. done \in BOOLEAN
    BY DEF LastRound
  <2>5. Round(graph, r.node, done) \in Options(graph, r.node) /\ r.node \notin Parallel(graph)
    <3> HIDE DEF done
    <3> QED BY <2>2, <2>4, OptionsOf DEF Kind, Parallel
  <2>6. Put(w, b, Completed(r, Round(graph, r.node, done)))
    BY <2>1
  <2> HIDE DEF done
  <2> QED BY <1>7, <2>2, <2>3, <2>5, <2>6 DEF BranchMove, Elsewhere
<1>31. CASE Fork(w, b)
  <2>1. /\ r.at = "visit" /\ r.node \in Parallel(graph)
        /\ UNCHANGED <<taken, walk>> /\ graph' = graph /\ nested' = nested
    BY <1>1, <1>31 DEF Fork, Visiting, At, Kind, Parallel, Nodes
  <2>2. /\ new = [c \in DOMAIN br \cup Started(graph, br, b) |->
              IF c \in Started(graph, br, b)
              THEN NewBranch(Branches(graph, br[b].node)[Last(c)], SectionJoins(graph, br[b].node))
              ELSE IF c = b THEN Forking(br[b]) ELSE br[c]]
        /\ \A v \in Walks \ {w} : branch'[v] = branch[v]
    BY <1>1, <1>31 DEF Fork, Started, Forking
  <2>3. Forks(graph, br, new, tk, tkn, b)
    BY <1>5, <2>1, <2>2 DEF Forks
  <2> QED BY <1>5, <1>6, <2>1, <2>2, <2>3 DEF BranchMove, Elsewhere
<1>32. CASE Join(w, b)
  <2>1. /\ r.at = "fork" /\ (\A c \in DOMAIN br : ~IsStrictPrefix(b, c))
        /\ UNCHANGED <<taken, walk>> /\ graph' = graph /\ nested' = nested
        /\ Put(w, b, Completed(r, Sorted(SectionJoins(graph, r.node))))
    BY <1>32 DEF Join, At, BranchesDone
  <2>2. Sorted(SectionJoins(graph, r.node)) \in Options(graph, r.node)
    BY <1>2, <2>1, OptionsOf DEF Parallel
  <2> QED BY <1>6, <1>7, <2>1, <2>2 DEF BranchMove, Elsewhere
<1>33. CASE CopyProgress(w, b)
  <2> DEFINE copy == [out |-> walk[w].out, iter |-> walk[w].iter]
  <2>1. r.at = "copy" /\ UNCHANGED <<taken, walk>> /\ graph' = graph /\ nested' = nested
        /\ Put(w, b, [r EXCEPT !.at = "write", !.copy = copy])
    BY <1>33 DEF CopyProgress, At
  <2>2. copy \in CopiesOf(graph)
    <3>1. walk[w] \in WalkRows(graph)
      BY <1>1
    <3> QED BY <3>1 DEF CopiesOf, WalkRows
  <2>3. Moves(graph, br, new, tk, tkn, b)
    <3> HIDE DEF copy
    <3> QED BY <1>3, <1>5, <2>1, <2>2 DEF Moves
  <2> QED BY <1>3, <1>5, <1>6, <2>1, <2>3 DEF BranchMove, Elsewhere
<1>34. CASE WriteCheckpoint(w, b)
  <2>1. r.at = "write" /\ UNCHANGED <<taken, walk>> /\ graph' = graph /\ nested' = nested
        /\ Put(w, b, [r EXCEPT !.at = "head", !.copy = NoCheckpoint])
    BY <1>34 DEF WriteCheckpoint, At
  <2>2. Moves(graph, br, new, tk, tkn, b)
    BY <1>3, <1>5, <2>1 DEF Moves
  <2> QED BY <1>3, <1>5, <1>6, <2>1, <2>2 DEF BranchMove, Elsewhere
<1>35. CASE RunAgent(w, b) \/ Supervise(w, b) \/ CallWebhook(w, b) \/ SendMessage(w, b)
  BY <1>26, <1>35 DEF RunAgent, Supervise, CallWebhook, SendMessage, Resumable, SubKinds, EffectKinds
<1>36. CASE StartNode(w, b) \/ JoinNode(w, b) \/ UnknownNode(w, b)
  BY <1>23, <1>36 DEF StartNode, JoinNode, UnknownNode
<1> QED BY <1>20, <1>21, <1>22, <1>24, <1>25, <1>27, <1>28, <1>29, <1>30, <1>31, <1>32, <1>33, <1>34, <1>35,
           <1>36 DEF BranchStep

(* The walk that a recovery begins is one of the walks, and has not begun. *)
LEMMA NextWalk ==
  ASSUME WalksInv, RecoverRun
  PROVE  walks + 1 \in Walks /\ walk[walks + 1].at = "off"
<1>1. walks + 1 \in Walks
  BY BoundsAssumption DEF WalksInv, RecoverRun, Walks
<1>2. ~(walks + 1 <= walks)
  BY DEF WalksInv
<1> QED BY <1>1, <1>2 DEF WalksInv

(* What a step is for every walk. *)
LEMMA Steps ==
  ASSUME ShapeInv, WalksInv, TreeInv, [Next]_vars
  PROVE  graph' = graph /\ nested' = nested /\ \A w \in Walks : StepOf(w)
<1> USE DEF constVars, histVars, dbVars
<1>1. walk \in [Walks -> WalkRows(graph)] /\ DOMAIN branch = Walks
  BY DEF ShapeInv
<1>2. ASSUME NEW w \in Walks, branch'[w] = branch[w], taken'[w] = taken[w],
             \/ walk'[w].at = walk[w].at
             \/ walk[w].at # "walking"
             \/ <<>> \notin DOMAIN branch[w]
      PROVE  StepOf(w)
  BY <1>2 DEF StepOf
<1>3. ASSUME NEW w \in Walks, LoadGraph(w)
      PROVE  graph' = graph /\ nested' = nested /\ \A v \in Walks : StepOf(v)
  <2>1. graph' = graph /\ nested' = nested /\ taken' = taken /\ walk[w].at = "new"
    BY <1>3 DEF LoadGraph
  <2>2. CASE walk' = [walk EXCEPT ![w].at = "walking"] /\ Put(w, <<>>, NewBranch(Start(graph), {}))
    <3>1. walk'[w].at = "walking" /\ branch'[w] = With(branch[w], <<>>, NewBranch(Start(graph), {}))
      BY <1>1, <2>2 DEF WalkRows, Put
    <3>2. \A v \in Walks \ {w} : walk'[v] = walk[v] /\ branch'[v] = branch[v]
      BY <1>1, <2>2 DEF Put
    <3>3. StepOf(w)
      BY <2>1, <3>1 DEF StepOf
    <3> QED BY <1>2, <2>1, <3>2, <3>3
  <2>3. CASE walk' = [walk EXCEPT ![w].at = "clean", ![w].marked = TRUE] /\ UNCHANGED branch
    <3>1. \A v \in Walks \ {w} : walk'[v] = walk[v]
      BY <1>1, <2>3
    <3> QED BY <1>2, <2>1, <2>3, <3>1
  <2> QED BY <1>3, <2>2, <2>3 DEF LoadGraph
<1>4. ASSUME NEW w \in Walks, FinishWalk(w)
      PROVE  graph' = graph /\ nested' = nested /\ \A v \in Walks : StepOf(v)
  <2>1. \A v \in Walks \ {w} : walk'[v] = walk[v]
    BY <1>1, <1>4 DEF FinishWalk
  <2> QED BY <1>2, <1>4, <2>1 DEF FinishWalk
<1>5. ASSUME NEW w \in Walks, DeleteCheckpoint(w)
      PROVE  graph' = graph /\ nested' = nested /\ \A v \in Walks : StepOf(v)
  <2>1. \A v \in Walks \ {w} : walk'[v] = walk[v]
    BY <1>1, <1>5 DEF DeleteCheckpoint
  <2> QED BY <1>2, <1>5, <2>1 DEF DeleteCheckpoint
<1>6. ASSUME NEW w \in Walks, NEW b \in DOMAIN branch[w], BranchStep(w, b)
      PROVE  graph' = graph /\ nested' = nested /\ \A v \in Walks : StepOf(v)
  <2>1. BranchMove(graph, branch[w], branch'[w], taken[w], taken'[w], b, walk'[w].marked) /\ Elsewhere(w)
    BY <1>6, BranchStepMoves
  <2>2. StepOf(w)
    BY <2>1 DEF StepOf, Elsewhere
  <2> QED BY <1>2, <2>1, <2>2 DEF Elsewhere
<1>7. CASE CancelRun
  <2>1. \A w \in Walks : walk'[w].at = walk[w].at
    BY <1>1, <1>7 DEF CancelRun, WalkRows
  <2> QED BY <1>2, <1>7, <2>1 DEF CancelRun
<1>8. CASE ListInterrupted
  BY <1>2, <1>8 DEF ListInterrupted
<1>9. CASE RecoverRun
  <2>1. walks + 1 \in Walks /\ walk[walks + 1].at = "off"
    BY <1>9, NextWalk
  <2>2. \A w \in Walks : w # walks + 1 => walk'[w] = walk[w]
    BY <1>1, <1>9 DEF RecoverRun
  <2> QED BY <1>2, <1>9, <2>1, <2>2 DEF RecoverRun
<1>10. CASE CancelStatus
  BY <1>2, <1>10 DEF CancelStatus
<1>11. CASE Restart
  <2>1. \A w \in Walks : walk'[w].at = "off" /\ branch'[w] = <<>>
    BY <1>11 DEF Restart, Asleep
  <2> QED BY <1>11, <2>1 DEF Restart, StepOf
<1>12. ASSUME NEW w \in Walks, Disconnect(w)
       PROVE  graph' = graph /\ nested' = nested /\ \A v \in Walks : StepOf(v)
  <2>1. \A v \in Walks : walk'[v].at = walk[v].at
    BY <1>1, <1>12 DEF Disconnect, WalkRows
  <2> QED BY <1>2, <1>12, <2>1 DEF Disconnect
<1>13. CASE UNCHANGED vars
  BY <1>2, <1>13 DEF vars
<1> QED BY <1>3, <1>4, <1>5, <1>6, <1>7, <1>8, <1>9, <1>10, <1>11, <1>12, <1>13 DEF Next, Work

(* The branches stay a map of the walks. *)
LEMMA BranchMap ==
  ASSUME DOMAIN branch = Walks, branch = [w \in Walks |-> branch[w]], [Next]_vars
  PROVE  DOMAIN branch' = Walks /\ branch' = [w \in Walks |-> branch'[w]]
<1> USE DEF constVars, histVars, dbVars
<1>1. ASSUME NEW w, NEW x, branch' = [branch EXCEPT ![w] = x]
      PROVE  DOMAIN branch' = Walks /\ branch' = [v \in Walks |-> branch'[v]]
  BY <1>1
<1>2. ASSUME UNCHANGED branch
      PROVE  DOMAIN branch' = Walks /\ branch' = [v \in Walks |-> branch'[v]]
  BY <1>2
<1>3. ASSUME NEW w \in Walks, LoadGraph(w) \/ FinishWalk(w) \/ DeleteCheckpoint(w) \/ Disconnect(w)
      PROVE  DOMAIN branch' = Walks /\ branch' = [v \in Walks |-> branch'[v]]
  BY <1>1, <1>2, <1>3 DEF LoadGraph, FinishWalk, DeleteCheckpoint, Disconnect, Put
<1>4. ASSUME NEW w \in Walks, NEW b \in DOMAIN branch[w], BranchStep(w, b)
      PROVE  DOMAIN branch' = Walks /\ branch' = [v \in Walks |-> branch'[v]]
  <2>1. ASSUME NEW row, Put(w, b, row)
        PROVE  DOMAIN branch' = Walks /\ branch' = [v \in Walks |-> branch'[v]]
    BY <1>1, <2>1 DEF Put
  <2>2. ASSUME EndBranch(w, b)
        PROVE  DOMAIN branch' = Walks /\ branch' = [v \in Walks |-> branch'[v]]
    BY <1>1, <2>2 DEF EndBranch
  <2>3. CASE BranchEnds(w, b) \/ AbortWalk(w, b)
    BY <2>2, <2>3 DEF BranchEnds, AbortWalk
  <2>4. CASE TakeNode(w, b)
    BY <2>1, <2>2, <2>4 DEF TakeNode
  <2>5. CASE StartNode(w, b) \/ JoinNode(w, b) \/ UnknownNode(w, b)
    BY <2>1, <2>5 DEF StartNode, JoinNode, UnknownNode, PassOn
  <2>6. CASE DeliverEnd(w, b) \/ Reuse(w, b)
    BY <2>1, <2>6 DEF DeliverEnd, Reuse
  <2>7. CASE RunAgent(w, b) \/ Supervise(w, b) \/ CallWebhook(w, b) \/ SendMessage(w, b)
    BY <2>1, <2>7 DEF RunAgent, Supervise, CallWebhook, SendMessage, Execute
  <2>8. CASE Return(w, b)
    BY <2>1, <2>2, <2>8 DEF Return
  <2>9. CASE FollowRoute(w, b) \/ SkipNode(w, b) \/ Loop(w, b)
    BY <2>1, <2>9 DEF FollowRoute, SkipNode, Loop
  <2>10. CASE Fork(w, b)
    BY <1>1, <2>10 DEF Fork
  <2>11. CASE Join(w, b) \/ CopyProgress(w, b) \/ WriteCheckpoint(w, b)
    BY <2>1, <2>11 DEF Join, CopyProgress, WriteCheckpoint
  <2> QED BY <1>4, <2>3, <2>4, <2>5, <2>6, <2>7, <2>8, <2>9, <2>10, <2>11 DEF BranchStep
<1>5. CASE CancelRun \/ ListInterrupted \/ RecoverRun \/ CancelStatus
  BY <1>2, <1>5 DEF CancelRun, ListInterrupted, RecoverRun, CancelStatus
<1>6. CASE Restart
  BY <1>6 DEF Restart
<1>7. CASE UNCHANGED vars
  BY <1>2, <1>7 DEF vars
<1> QED BY <1>3, <1>4, <1>5, <1>6, <1>7 DEF Next, Work

(* So do the nodes it has come to. *)
LEMMA TakenMap ==
  ASSUME taken \in [Walks -> SUBSET Nodes], [Next]_vars
  PROVE  taken' = [w \in Walks |-> taken'[w]]
<1> USE DEF constVars, histVars, dbVars
<1>1. taken = [w \in Walks |-> taken[w]] /\ DOMAIN taken = Walks
  OBVIOUS
<1>2. ASSUME UNCHANGED taken
      PROVE  taken' = [w \in Walks |-> taken'[w]]
  BY <1>1, <1>2
<1>3. ASSUME NEW w \in Walks, LoadGraph(w) \/ FinishWalk(w) \/ DeleteCheckpoint(w) \/ Disconnect(w)
      PROVE  UNCHANGED taken
  BY <1>3 DEF LoadGraph, FinishWalk, DeleteCheckpoint, Disconnect
<1>4. ASSUME NEW w \in Walks, NEW b \in DOMAIN branch[w], BranchStep(w, b)
      PROVE  taken' = [v \in Walks |-> taken'[v]]
  <2>1. CASE TakeNode(w, b)
    <3>1. \/ UNCHANGED taken
          \/ taken' = [taken EXCEPT ![w] = @ \cup {Head(branch[w][b].queue)}]
      BY <2>1 DEF TakeNode
    <3> QED BY <1>1, <1>2, <3>1
  <2>2. CASE BranchEnds(w, b) \/ AbortWalk(w, b)
    BY <1>2, <2>2 DEF BranchEnds, AbortWalk
  <2>3. CASE StartNode(w, b) \/ JoinNode(w, b) \/ UnknownNode(w, b) \/ DeliverEnd(w, b) \/ Reuse(w, b)
    BY <1>2, <2>3 DEF StartNode, JoinNode, UnknownNode, PassOn, DeliverEnd, Reuse
  <2>4. CASE RunAgent(w, b) \/ Supervise(w, b) \/ CallWebhook(w, b) \/ SendMessage(w, b)
    BY <1>2, <2>4 DEF RunAgent, Supervise, CallWebhook, SendMessage, Execute
  <2>5. CASE Return(w, b) \/ FollowRoute(w, b) \/ SkipNode(w, b) \/ Loop(w, b)
    BY <1>2, <2>5 DEF Return, FollowRoute, SkipNode, Loop
  <2>6. CASE Fork(w, b) \/ Join(w, b) \/ CopyProgress(w, b) \/ WriteCheckpoint(w, b)
    BY <1>2, <2>6 DEF Fork, Join, CopyProgress, WriteCheckpoint
  <2> QED BY <1>4, <2>1, <2>2, <2>3, <2>4, <2>5, <2>6 DEF BranchStep
<1>5. CASE CancelRun \/ ListInterrupted \/ RecoverRun \/ CancelStatus \/ Restart \/ UNCHANGED vars
  BY <1>2, <1>5 DEF CancelRun, ListInterrupted, RecoverRun, CancelStatus, Restart, vars
<1> QED BY <1>2, <1>3, <1>4, <1>5 DEF Next, Work

(* What a walk begins with. *)
LEMMA BeginsWithStart ==
  ASSUME NEW g, IsGraph(g), NEW br, DOMAIN br = {}
  PROVE  /\ Start(g) \in DOMAIN g.kind /\ g.kind[Start(g)] = "start"
         /\ With(br, <<>>, NewBranch(Start(g), {})) = Beginning(g)
         /\ BranchesOK(g, Beginning(g)) /\ TreeOK(g, Beginning(g))
<1>1. Start(g) \in DOMAIN g.kind /\ g.kind[Start(g)] = "start"
  BY DEF Start, IsGraph
<1>2. With(br, <<>>, NewBranch(Start(g), {})) = Beginning(g)
  BY DEF With, Beginning
<1>3. /\ NewBranch(Start(g), {}) \in BranchRows(g) /\ NewBranch(Start(g), {}).at = "head"
      /\ NewBranch(Start(g), {}).stop = {}
  BY <1>1, NewRow
<1>4. /\ DOMAIN Beginning(g) = {<<>>} /\ Beginning(g)[<<>>] = NewBranch(Start(g), {})
      /\ Beginning(g) = [b \in DOMAIN Beginning(g) |-> Beginning(g)[b]]
  BY DEF Beginning
<1>5. <<>> \in Seq(Nat)
  OBVIOUS
<1>6. BranchesOK(g, Beginning(g))
  BY <1>3, <1>4, <1>5 DEF BranchesOK
<1>7. TreeOK(g, Beginning(g))
  BY <1>3, <1>4 DEF TreeOK
<1> QED BY <1>1, <1>2, <1>6, <1>7

(* The branches of every walk keep their shape and stay a tree. *)
LEMMA BranchesKept ==
  ASSUME ShapeInv, WalksInv, TreeInv, [Next]_vars
  PROVE  /\ graph' = graph
         /\ \A w \in Walks : BranchesOK(graph, branch'[w]) /\ taken'[w] \subseteq Nodes
         /\ \A w \in Walks : TreeOK(graph, branch'[w]) /\ (walk'[w].at # "walking" => DOMAIN branch'[w] = {})
<1>1. graph' = graph /\ (\A w \in Walks : StepOf(w)) /\ IsGraph(graph)
  BY Steps, GraphsAssumption DEF ShapeInv
<1>2. ASSUME NEW w \in Walks
      PROVE  /\ BranchesOK(graph, branch'[w]) /\ taken'[w] \subseteq Nodes
             /\ TreeOK(graph, branch'[w]) /\ (walk'[w].at # "walking" => DOMAIN branch'[w] = {})
  <2>1. /\ BranchesOK(graph, branch[w]) /\ TreeOK(graph, branch[w]) /\ taken[w] \in SUBSET Nodes
        /\ walk[w].at # "walking" => DOMAIN branch[w] = {}
    BY DEF ShapeInv, TreeInv
  <2>2. CASE branch'[w] = branch[w] /\ taken'[w] = taken[w]
             /\ (walk'[w].at = "walking" \/ walk[w].at # "walking" \/ <<>> \notin DOMAIN branch[w])
    <3>1. <<>> \notin DOMAIN branch[w] => DOMAIN branch[w] = {}
      BY <2>1 DEF TreeOK, BelowParent
    <3> QED BY <2>1, <2>2, <3>1
  <2>3. CASE walk'[w].at = walk[w].at /\ \E b \in DOMAIN branch[w] :
               BranchMove(graph, branch[w], branch'[w], taken[w], taken'[w], b, walk'[w].marked)
    <3>1. PICK b \in DOMAIN branch[w] :
             BranchMove(graph, branch[w], branch'[w], taken[w], taken'[w], b, walk'[w].marked)
      BY <2>3
    <3>2. BranchesOK(graph, branch'[w]) /\ taken'[w] \subseteq Nodes
      BY <1>1, <2>1, <3>1, MoveKeepsShape DEF Nodes
    <3>3. TreeOK(graph, branch'[w])
      BY <1>1, <2>1, <3>1, MoveKeepsTree
    <3>4. walk'[w].at = "walking"
      BY <2>1, <2>3, <3>1
    <3> QED BY <3>2, <3>3, <3>4
  <2>4. CASE walk[w].at = "new" /\ walk'[w].at = "walking"
             /\ branch'[w] = With(branch[w], <<>>, NewBranch(Start(graph), {})) /\ taken'[w] = taken[w]
    BY <1>1, <2>1, <2>4, BeginsWithStart
  <2>5. CASE branch'[w] = <<>> /\ taken'[w] = taken[w]
    <3>1. branch'[w] = [b \in {} |-> 0] /\ DOMAIN branch'[w] = {}
      BY <2>5
    <3> QED BY <2>1, <2>5, <3>1 DEF BranchesOK, TreeOK
  <2> QED BY <1>1, <2>2, <2>3, <2>4, <2>5 DEF StepOf
<1> QED BY <1>1, <1>2

(* The variables other than the branches. *)
Variables ==
  /\ nested \in BOOLEAN
  /\ status \in {"running", "success", "failed", "cancelled"}
  /\ checkpoint \in CopiesOf(graph) \cup {NoCheckpoint}
  /\ sub \in [Nodes -> {"none", "running", "success", "failed", "cancelled"}]
  /\ recovery \in {"idle", "due", "listed"} /\ cancelling \in BOOLEAN /\ touched \in BOOLEAN
  /\ walk \in [Walks -> WalkRows(graph)]
  /\ finished \subseteq Nodes /\ basis \in [Walks -> SUBSET Nodes] /\ DOMAIN taken = Walks
  /\ fired \in [Walks -> [Nodes -> Nat]]

(* A walk's own fields, where a step changes some of them. *)
LEMMA WalkRowKept ==
  ASSUME NEW g, IsGraph(g), NEW r \in WalkRows(g), NEW n \in DOMAIN g.kind
  PROVE  /\ \A at \in {"off", "new", "walking", "clean"} : [r EXCEPT !.at = at] \in WalkRows(g)
         /\ [r EXCEPT !.marked = TRUE] \in WalkRows(g)
         /\ [r EXCEPT !.at = "clean", !.marked = TRUE] \in WalkRows(g)
         /\ \A ctx \in BOOLEAN : [r EXCEPT !.ctx = ctx] \in WalkRows(g)
         /\ [r EXCEPT !.client = FALSE, !.ctx = TRUE] \in WalkRows(g)
         /\ [r EXCEPT !.out = @ \cup {n}] \in WalkRows(g)
         /\ [r EXCEPT !.out = @ \cup {n}, !.cached = @ \ {n}] \in WalkRows(g)
         /\ ~(r.steps >= MaxSteps) => [r EXCEPT !.steps = @ + 1] \in WalkRows(g)
         /\ \A k \in 0..(MaxLoop - 1) : [r EXCEPT !.iter[n] = k] \in WalkRows(g)
<1> DEFINE D == DOMAIN g.kind
           Iters == [D -> 0..(MaxLoop - 1)]
<1>1. /\ r.at \in {"off", "new", "walking", "clean"} /\ r.out \in SUBSET D /\ r.cached \in SUBSET D
      /\ r.iter \in Iters /\ r.steps \in 0..MaxSteps /\ r.marked \in BOOLEAN /\ r.ctx \in BOOLEAN /\ r.client \in BOOLEAN
      /\ r = [at |-> r.at, out |-> r.out, cached |-> r.cached, iter |-> r.iter, steps |-> r.steps,
              marked |-> r.marked, ctx |-> r.ctx, client |-> r.client]
  BY DEF WalkRows
<1>2. WalkRows(g) = [at : {"off", "new", "walking", "clean"}, out : SUBSET D, cached : SUBSET D, iter : Iters,
                     steps : 0..MaxSteps, marked : BOOLEAN, ctx : BOOLEAN, client : BOOLEAN]
  BY DEF WalkRows
<1>3. \A k \in 0..(MaxLoop - 1) : [r.iter EXCEPT ![n] = k] \in Iters
  BY <1>1
<1>4. ~(r.steps >= MaxSteps) => r.steps + 1 \in 0..MaxSteps
  BY <1>1, BoundsAssumption
<1>5. r.out \cup {n} \in SUBSET D /\ r.cached \ {n} \in SUBSET D
  BY <1>1
<1> HIDE DEF D, Iters
<1>6. \A at \in {"off", "new", "walking", "clean"} : [r EXCEPT !.at = at] \in WalkRows(g)
  BY <1>1, <1>2
<1>7. [r EXCEPT !.marked = TRUE] \in WalkRows(g) /\ [r EXCEPT !.at = "clean", !.marked = TRUE] \in WalkRows(g)
  BY <1>1, <1>2
<1>8. (\A ctx \in BOOLEAN : [r EXCEPT !.ctx = ctx] \in WalkRows(g)) /\ [r EXCEPT !.client = FALSE, !.ctx = TRUE] \in WalkRows(g)
  BY <1>1, <1>2
<1>9. /\ [r EXCEPT !.out = @ \cup {n}] \in WalkRows(g)
      /\ [r EXCEPT !.out = @ \cup {n}, !.cached = @ \ {n}] \in WalkRows(g)
  BY <1>1, <1>2, <1>5
<1>10. ~(r.steps >= MaxSteps) => [r EXCEPT !.steps = @ + 1] \in WalkRows(g)
  BY <1>1, <1>2, <1>4
<1>11. ASSUME NEW k \in 0..(MaxLoop - 1) PROVE [r EXCEPT !.iter[n] = k] \in WalkRows(g)
  BY <1>1, <1>2, <1>3
<1> QED BY <1>6, <1>7, <1>8, <1>9, <1>10, <1>11

(* A walk that sleeps, or begins anew with what a checkpoint has. *)
LEMMA AsleepRow ==
  ASSUME IsGraph(graph), NEW c \in CopiesOf(graph), NEW client \in BOOLEAN
  PROVE  /\ Asleep \in WalkRows(graph) /\ [Asleep EXCEPT !.at = "new", !.client = client] \in WalkRows(graph)
         /\ [Asleep EXCEPT !.at = "new", !.cached = c.out, !.iter = c.iter] \in WalkRows(graph)
<1> DEFINE Iters == [Nodes -> 0..(MaxLoop - 1)]
<1>1. [n \in Nodes |-> 0] \in Iters /\ 0 \in 0..MaxSteps
  BY BoundsAssumption
<1>2. c.out \in SUBSET Nodes /\ c.iter \in Iters
  BY DEF CopiesOf, Nodes
<1>3. WalkRows(graph) = [at : {"off", "new", "walking", "clean"}, out : SUBSET Nodes, cached : SUBSET Nodes,
                         iter : Iters, steps : 0..MaxSteps, marked : BOOLEAN, ctx : BOOLEAN, client : BOOLEAN]
  BY DEF WalkRows, Nodes
<1> DEFINE zero == [n \in Nodes |-> 0]
<1> HIDE DEF Iters, zero
<1>4. Asleep = [at |-> "off", out |-> {}, cached |-> {}, iter |-> zero, steps |-> 0, marked |-> FALSE,
                ctx |-> FALSE, client |-> FALSE]
  BY DEF Asleep, zero
<1>5. zero \in Iters
  BY <1>1 DEF zero
<1>6. Asleep \in WalkRows(graph) /\ [Asleep EXCEPT !.at = "new", !.client = client] \in WalkRows(graph)
  BY <1>1, <1>3, <1>4, <1>5
<1>7. [Asleep EXCEPT !.at = "new", !.cached = c.out, !.iter = c.iter] \in WalkRows(graph)
  BY <1>1, <1>2, <1>3, <1>4, <1>5
<1> QED BY <1>6, <1>7

(* They keep their shape in every step of a branch. *)
LEMMA BranchStepKeepsVariables ==
  ASSUME ShapeInv, TreeInv, NEW w \in Walks, NEW b \in DOMAIN branch[w], BranchStep(w, b)
  PROVE  Variables'
<1> USE DEF constVars, histVars, dbVars
<1> DEFINE r == branch[w][b]
           n == r.node
           row == walk[w]
<1>1. /\ Variables /\ IsGraph(graph) /\ DOMAIN taken = Walks
  BY GraphsAssumption DEF ShapeInv, Variables
<1>2. r \in BranchRows(graph) /\ n \in Nodes /\ (r.at = "write" => r.copy \in CopiesOf(graph)) /\ row \in WalkRows(graph)
  BY DEF ShapeInv, BranchesOK, BranchRows, Nodes
<1>3. graph' = graph /\ nested' = nested /\ Nodes' = Nodes
  BY BranchStepMoves DEF Elsewhere, Nodes
<1>4. ASSUME NEW new \in WalkRows(graph), walk' = [walk EXCEPT ![w] = new]
      PROVE  walk' \in [Walks -> WalkRows(graph)]
  BY <1>1, <1>4 DEF Variables
<1>5. FailRun(status) \in {"running", "success", "failed", "cancelled"}
  BY DEF FailRun
<1>6. [fired EXCEPT ![w][n] = @ + 1] \in [Walks -> [Nodes -> Nat]]
  BY <1>1, <1>2 DEF Variables
<1>7. ASSUME NEW s \in {"none", "running", "success", "failed", "cancelled"}
      PROVE  [sub EXCEPT ![n] = s] \in [Nodes -> {"none", "running", "success", "failed", "cancelled"}]
  BY <1>1, <1>2 DEF Variables
<1>8. /\ [row EXCEPT !.marked = TRUE] \in WalkRows(graph)
      /\ [row EXCEPT !.out = @ \cup {n}] \in WalkRows(graph)
      /\ [row EXCEPT !.out = @ \cup {n}, !.cached = @ \ {n}] \in WalkRows(graph)
      /\ ~(row.steps >= MaxSteps) => [row EXCEPT !.steps = @ + 1] \in WalkRows(graph)
      /\ \A k \in 0..(MaxLoop - 1) : [row EXCEPT !.iter[n] = k] \in WalkRows(graph)
  BY <1>1, <1>2, WalkRowKept DEF Nodes
<1> HIDE DEF r, n, row
<1>20. CASE BranchEnds(w, b) \/ FollowRoute(w, b) \/ SkipNode(w, b) \/ Fork(w, b) \/ Join(w, b) \/ CopyProgress(w, b)
  BY <1>1, <1>3, <1>20 DEF BranchEnds, FollowRoute, SkipNode, Fork, Join, CopyProgress, Variables
<1>21. CASE AbortWalk(w, b)
  <2>1. walk' = [walk EXCEPT ![w] = [row EXCEPT !.marked = TRUE]] /\ status' = FailRun(status)
    BY <1>21 DEF AbortWalk, row
  <2>2. walk' \in [Walks -> WalkRows(graph)]
    BY <1>4, <1>8, <2>1
  <2> QED BY <1>1, <1>3, <1>5, <1>21, <2>1, <2>2 DEF AbortWalk, Variables
<1>22. CASE TakeNode(w, b)
  <2>1. walk' = [walk EXCEPT ![w] = [row EXCEPT !.steps = @ + 1]] /\ ~(row.steps >= MaxSteps)
    BY <1>22 DEF TakeNode, row, Exceeded
  <2>2. walk' \in [Walks -> WalkRows(graph)]
    BY <1>4, <1>8, <2>1
  <2>3. DOMAIN taken' = Walks
    BY <1>1, <1>22 DEF TakeNode
  <2> QED BY <1>1, <1>3, <1>22, <2>2, <2>3 DEF TakeNode, Variables
<1>23. ASSUME NEW kind, PassOn(w, b, kind)
       PROVE  Variables'
  <2>1. walk' = [walk EXCEPT ![w] = [row EXCEPT !.out = @ \cup {n}]]
    BY <1>23 DEF PassOn, row, n, r
  <2>2. walk' \in [Walks -> WalkRows(graph)]
    BY <1>4, <1>8, <2>1
  <2> QED BY <1>1, <1>3, <1>23, <2>2 DEF PassOn, Variables
<1>24. CASE DeliverEnd(w, b)
  <2>1. walk' = [walk EXCEPT ![w] = [row EXCEPT !.out = @ \cup {n}]] /\ fired' = [fired EXCEPT ![w][n] = @ + 1]
    BY <1>24 DEF DeliverEnd, row, n, r
  <2>2. walk' \in [Walks -> WalkRows(graph)]
    BY <1>4, <1>8, <2>1
  <2> QED BY <1>1, <1>3, <1>6, <1>24, <2>1, <2>2 DEF DeliverEnd, Variables
<1>25. CASE Reuse(w, b)
  <2>1. walk' = [walk EXCEPT ![w] = [row EXCEPT !.out = @ \cup {n}, !.cached = @ \ {n}]]
    BY <1>25 DEF Reuse, row, n, r
  <2>2. walk' \in [Walks -> WalkRows(graph)]
    BY <1>4, <1>8, <2>1
  <2> QED BY <1>1, <1>3, <1>25, <2>2 DEF Reuse, Variables
<1>26. ASSUME NEW kind, Execute(w, b, kind), StartSubRun(w, branch[w][b].node) \/ UNCHANGED sub
       PROVE  Variables'
  <2>1. fired' = [fired EXCEPT ![w][n] = @ + 1]
    BY <1>26 DEF Execute, n, r
  <2>2. sub' \in [Nodes -> {"none", "running", "success", "failed", "cancelled"}]
    BY <1>1, <1>7, <1>26 DEF StartSubRun, n, r, Variables
  <2> QED BY <1>1, <1>3, <1>6, <1>26, <2>1, <2>2 DEF Execute, Variables
<1>27. CASE Return(w, b)
  <2>1. PICK o \in Outcomes(n) :
          /\ IF o = "cancelled" THEN Fault /\ touched' = TRUE ELSE UNCHANGED <<faults, touched>>
          /\ sub' = [sub EXCEPT ![n] = o]
          /\ IF FailsWorkflow(o)
             THEN walk' = [walk EXCEPT ![w] = [row EXCEPT !.marked = TRUE]] /\ status' = FailRun(status)
             ELSE walk' = [walk EXCEPT ![w] = [row EXCEPT !.out = @ \cup {n}]] /\ UNCHANGED status
    BY <1>27 DEF Return, n, r, row
  <2>2. o \in {"none", "running", "success", "failed", "cancelled"}
    BY DEF Outcomes
  <2>3. walk' \in [Walks -> WalkRows(graph)]
    BY <1>4, <1>8, <2>1
  <2>4. status' \in {"running", "success", "failed", "cancelled"} /\ touched' \in BOOLEAN
    BY <1>1, <1>5, <2>1 DEF Variables
  <2>5. sub' \in [Nodes -> {"none", "running", "success", "failed", "cancelled"}]
    BY <1>7, <2>1, <2>2
  <2> QED BY <1>1, <1>3, <1>27, <2>3, <2>4, <2>5 DEF Return, Variables
<1>28. CASE Loop(w, b)
  <2>1. PICK met \in BOOLEAN :
          walk' = [walk EXCEPT ![w] = [row EXCEPT !.iter[n] = IF met \/ LastRound(w, n) THEN 0 ELSE Count(w, n)]]
    BY <1>28 DEF Loop, n, r, row
  <2> DEFINE k == IF met \/ LastRound(w, n) THEN 0 ELSE Count(w, n)
  <2>2. k \in 0..(MaxLoop - 1)
    <3>1. row.iter[n] \in 0..(MaxLoop - 1)
      BY <1>2 DEF WalkRows, Nodes
    <3>2. ~LastRound(w, n) => Count(w, n) \in 0..(MaxLoop - 1)
      BY <3>1, BoundsAssumption DEF LastRound, Count, row
    <3> QED BY <3>2, BoundsAssumption
  <2> HIDE DEF k
  <2>3. walk' = [walk EXCEPT ![w] = [row EXCEPT !.iter[n] = k]]
    BY <2>1 DEF k
  <2>4. walk' \in [Walks -> WalkRows(graph)]
    BY <1>4, <1>8, <2>2, <2>3
  <2> QED BY <1>1, <1>3, <1>28, <2>4 DEF Loop, Variables
<1>29. CASE WriteCheckpoint(w, b)
  <2>1. checkpoint' = r.copy /\ finished' = finished \cup r.copy.out /\ r.at = "write"
    BY <1>29 DEF WriteCheckpoint, At, r
  <2>2. r.copy \in CopiesOf(graph) /\ r.copy.out \subseteq Nodes
    BY <1>2, <2>1 DEF CopiesOf, Nodes
  <2> QED BY <1>1, <1>3, <1>29, <2>1, <2>2 DEF WriteCheckpoint, Variables
<1>30. CASE RunAgent(w, b) \/ Supervise(w, b) \/ CallWebhook(w, b) \/ SendMessage(w, b)
  BY <1>26, <1>30 DEF RunAgent, Supervise, CallWebhook, SendMessage
<1>31. CASE StartNode(w, b) \/ JoinNode(w, b) \/ UnknownNode(w, b)
  BY <1>23, <1>31 DEF StartNode, JoinNode, UnknownNode
<1> QED BY <1>20, <1>21, <1>22, <1>24, <1>25, <1>27, <1>28, <1>29, <1>30, <1>31 DEF BranchStep

(* And in every other step. *)
LEMMA StepKeepsVariables ==
  ASSUME ShapeInv, WalksInv, TreeInv, [Next]_vars
  PROVE  Variables'
<1> USE DEF constVars, histVars, dbVars
<1>1. Variables /\ IsGraph(graph) /\ DOMAIN taken = Walks /\ walk \in [Walks -> WalkRows(graph)]
  BY GraphsAssumption DEF ShapeInv, Variables
<1>2. graph' = graph /\ nested' = nested /\ Nodes' = Nodes
  BY Steps DEF Nodes
<1>3. FailRun(status) \in {"running", "success", "failed", "cancelled"}
  BY DEF FailRun
<1>4. PICK n : n \in DOMAIN graph.kind
  BY <1>1 DEF IsGraph
<1>5. ASSUME NEW w \in Walks
      PROVE  /\ \A at \in {"off", "new", "walking", "clean"} : [walk[w] EXCEPT !.at = at] \in WalkRows(graph)
             /\ [walk[w] EXCEPT !.at = "clean", !.marked = TRUE] \in WalkRows(graph)
             /\ \A ctx \in BOOLEAN : [walk[w] EXCEPT !.ctx = ctx] \in WalkRows(graph)
             /\ [walk[w] EXCEPT !.client = FALSE, !.ctx = TRUE] \in WalkRows(graph)
  BY <1>1, <1>4, WalkRowKept
<1>6. ASSUME NEW w \in Walks, NEW row \in WalkRows(graph), walk' = [walk EXCEPT ![w] = row]
      PROVE  walk' \in [Walks -> WalkRows(graph)]
  BY <1>1, <1>6
<1>7. [v \in Nodes |-> IF sub[v] = "running" THEN "failed" ELSE sub[v]]
        \in [Nodes -> {"none", "running", "success", "failed", "cancelled"}]
  BY <1>1 DEF Variables
<1>8. Asleep \in WalkRows(graph)
  <2>1. [v \in Nodes |-> 0] \in [Nodes -> 0..(MaxLoop - 1)] /\ {} \in SUBSET Nodes
    BY BoundsAssumption
  <2>2. [out |-> {}, iter |-> [v \in Nodes |-> 0]] \in CopiesOf(graph)
    BY <2>1 DEF CopiesOf, Nodes
  <2> QED BY <1>1, <2>2, AsleepRow
<1>10. ASSUME NEW w \in Walks, LoadGraph(w)
       PROVE  Variables'
  <2>1. \/ walk' = [walk EXCEPT ![w] = [walk[w] EXCEPT !.at = "walking"]] /\ UNCHANGED status
        \/ walk' = [walk EXCEPT ![w] = [walk[w] EXCEPT !.at = "clean", !.marked = TRUE]] /\ status' = FailRun(status)
    BY <1>10 DEF LoadGraph
  <2>2. walk' \in [Walks -> WalkRows(graph)]
    BY <1>5, <1>6, <2>1
  <2> QED BY <1>1, <1>2, <1>3, <1>10, <2>1, <2>2 DEF LoadGraph, Variables
<1>11. ASSUME NEW w \in Walks, FinishWalk(w)
       PROVE  Variables'
  <2>1. walk' = [walk EXCEPT ![w] = [walk[w] EXCEPT !.at = "clean"]]
    BY <1>11 DEF FinishWalk
  <2>2. walk' \in [Walks -> WalkRows(graph)]
    BY <1>5, <1>6, <2>1
  <2>3. status' \in {"running", "success", "failed", "cancelled"}
    BY <1>1, <1>11 DEF FinishWalk, Settle, Variables
  <2> QED BY <1>1, <1>2, <1>11, <2>2, <2>3 DEF FinishWalk, Variables
<1>12. ASSUME NEW w \in Walks, DeleteCheckpoint(w)
       PROVE  Variables'
  <2>1. walk' \in [Walks -> WalkRows(graph)]
    BY <1>6, <1>8, <1>12 DEF DeleteCheckpoint
  <2> QED BY <1>1, <1>2, <1>12, <2>1 DEF DeleteCheckpoint, Variables
<1>13. CASE CancelRun
  <2>1. walk' = [w \in Walks |-> [walk[w] EXCEPT !.ctx = walk[w].ctx \/ walk[w].at = "walking"]]
    BY <1>13 DEF CancelRun
  <2>2. \A w \in Walks : (walk[w].ctx \/ walk[w].at = "walking") \in BOOLEAN
    OBVIOUS
  <2>3. walk' \in [Walks -> WalkRows(graph)]
    BY <1>5, <2>1, <2>2
  <2> QED BY <1>1, <1>2, <1>13, <2>3 DEF CancelRun, Variables
<1>14. CASE ListInterrupted
  BY <1>1, <1>2, <1>14 DEF ListInterrupted, Variables
<1>15. CASE RecoverRun
  <2>1. walks + 1 \in Walks
    BY <1>15, NextWalk
  <2>2. sub' \in [Nodes -> {"none", "running", "success", "failed", "cancelled"}]
    BY <1>7, <1>15 DEF RecoverRun, FailSubRuns
  <2>3. CASE checkpoint = NoCheckpoint
    BY <1>1, <1>2, <1>3, <1>15, <2>2, <2>3 DEF RecoverRun, Variables
  <2>4. CASE checkpoint # NoCheckpoint
    <3>1. checkpoint \in CopiesOf(graph) /\ checkpoint.out \in SUBSET Nodes
      BY <1>1, <2>4 DEF Variables, CopiesOf, Nodes
    <3>2. /\ walk' = [walk EXCEPT ![walks + 1] = [Asleep EXCEPT !.at = "new", !.cached = checkpoint.out,
                                                                !.iter = checkpoint.iter]]
          /\ basis' = [basis EXCEPT ![walks + 1] = checkpoint.out]
      BY <1>15, <2>4 DEF RecoverRun
    <3>3. walk' \in [Walks -> WalkRows(graph)]
      BY <1>1, <1>6, <2>1, <3>1, <3>2, AsleepRow
    <3>4. basis' \in [Walks -> SUBSET Nodes]
      BY <1>1, <3>1, <3>2 DEF Variables
    <3> QED BY <1>1, <1>2, <1>15, <2>2, <2>4, <3>3, <3>4 DEF RecoverRun, Variables
  <2> QED BY <2>3, <2>4
<1>16. CASE CancelStatus
  BY <1>1, <1>2, <1>16 DEF CancelStatus, Variables
<1>17. CASE Restart
  <2>1. walk' \in [Walks -> WalkRows(graph)]
    BY <1>8, <1>17 DEF Restart
  <2>2. sub' \in [Nodes -> {"none", "running", "success", "failed", "cancelled"}]
    BY <1>7, <1>17 DEF Restart, FailSubRuns
  <2> QED BY <1>1, <1>2, <1>17, <2>1, <2>2 DEF Restart, Variables
<1>18. ASSUME NEW w \in Walks, Disconnect(w)
       PROVE  Variables'
  <2>1. walk' = [walk EXCEPT ![w] = [walk[w] EXCEPT !.client = FALSE, !.ctx = TRUE]]
    BY <1>18 DEF Disconnect
  <2>2. walk' \in [Walks -> WalkRows(graph)]
    BY <1>5, <1>6, <2>1
  <2> QED BY <1>1, <1>2, <1>18, <2>2 DEF Disconnect, Variables
<1>19. CASE UNCHANGED vars
  BY <1>1, <1>2, <1>19 DEF vars, Variables
<1>20. ASSUME NEW w \in Walks, NEW b \in DOMAIN branch[w], BranchStep(w, b)
       PROVE  Variables'
  BY <1>20, BranchStepKeepsVariables
<1> QED BY <1>10, <1>11, <1>12, <1>13, <1>14, <1>15, <1>16, <1>17, <1>18, <1>19, <1>20 DEF Next, Work

(* How many walks and faults there have been, and who has begun. *)
LEMMA StepKeepsWalks ==
  ASSUME ShapeInv, WalksInv, TreeInv, [Next]_vars
  PROVE  WalksInv'
<1> USE DEF constVars, histVars, dbVars
<1>1. walk \in [Walks -> WalkRows(graph)] /\ WalksInv
  BY DEF ShapeInv
<1>2. ASSUME UNCHANGED <<walks, recovery>>, UNCHANGED faults \/ Fault,
             \A w \in Walks : walk[w].at = "off" => walk'[w].at = "off"
      PROVE  WalksInv'
  BY <1>1, <1>2, BoundsAssumption DEF WalksInv, Fault
<1>3. ASSUME NEW w \in Walks, LoadGraph(w)
      PROVE  WalksInv'
  <2>1. \A v \in Walks : walk[v].at = "off" => walk'[v].at = "off"
    BY <1>1, <1>3 DEF LoadGraph
  <2> QED BY <1>2, <1>3, <2>1 DEF LoadGraph
<1>4. ASSUME NEW w \in Walks, FinishWalk(w)
      PROVE  WalksInv'
  <2>1. \A v \in Walks : walk[v].at = "off" => walk'[v].at = "off"
    BY <1>1, <1>4 DEF FinishWalk
  <2> QED BY <1>2, <1>4, <2>1 DEF FinishWalk
<1>5. ASSUME NEW w \in Walks, DeleteCheckpoint(w)
      PROVE  WalksInv'
  <2>1. \A v \in Walks : walk[v].at = "off" => walk'[v].at = "off"
    BY <1>1, <1>5 DEF DeleteCheckpoint, Asleep
  <2> QED BY <1>2, <1>5, <2>1 DEF DeleteCheckpoint
<1>6. ASSUME NEW w \in Walks, NEW b \in DOMAIN branch[w], BranchStep(w, b)
      PROVE  WalksInv'
  <2>1. \A v \in Walks : walk[v].at = "off" => walk'[v].at = "off"
    BY <1>6, BranchStepMoves DEF Elsewhere
  <2>2. UNCHANGED <<walks, recovery>> /\ (UNCHANGED faults \/ Fault)
    <3>1. CASE BranchEnds(w, b) \/ AbortWalk(w, b) \/ TakeNode(w, b)
      BY <3>1 DEF BranchEnds, AbortWalk, TakeNode
    <3>2. CASE StartNode(w, b) \/ JoinNode(w, b) \/ UnknownNode(w, b) \/ DeliverEnd(w, b) \/ Reuse(w, b)
      BY <3>2 DEF StartNode, JoinNode, UnknownNode, PassOn, DeliverEnd, Reuse
    <3>3. CASE RunAgent(w, b) \/ Supervise(w, b) \/ CallWebhook(w, b) \/ SendMessage(w, b)
      <4>1. \E kind : Execute(w, b, kind) /\ UNCHANGED faults
        BY <3>3 DEF RunAgent, Supervise, CallWebhook, SendMessage, Execute
      <4> QED BY <4>1 DEF Execute
    <3>4. CASE Return(w, b)
      BY <3>4 DEF Return
    <3>5. CASE FollowRoute(w, b) \/ SkipNode(w, b) \/ Loop(w, b) \/ Fork(w, b)
      BY <3>5 DEF FollowRoute, SkipNode, Loop, Fork
    <3>6. CASE Join(w, b) \/ CopyProgress(w, b) \/ WriteCheckpoint(w, b)
      BY <3>6 DEF Join, CopyProgress, WriteCheckpoint
    <3> QED BY <1>6, <3>1, <3>2, <3>3, <3>4, <3>5, <3>6 DEF BranchStep
  <2> QED BY <1>2, <2>1, <2>2
<1>7. CASE CancelRun
  <2>1. \A v \in Walks : walk[v].at = "off" => walk'[v].at = "off"
    BY <1>1, <1>7 DEF CancelRun, WalkRows
  <2> QED BY <1>2, <1>7, <2>1 DEF CancelRun
<1>8. CASE ListInterrupted
  BY <1>1, <1>8 DEF ListInterrupted, WalksInv
<1>9. CASE RecoverRun
  <2>1. walks + 1 \in Walks
    BY <1>9, NextWalk
  <2>2. CASE checkpoint = NoCheckpoint
    BY <1>1, <1>9, <2>2 DEF RecoverRun, WalksInv
  <2>3. CASE checkpoint # NoCheckpoint
    <3>1. walks' = walks + 1 /\ recovery' = "idle" /\ faults' = faults /\ recovery = "listed"
          /\ \A w \in Walks : w # walks + 1 => walk'[w] = walk[w]
      BY <1>1, <1>9, <2>3 DEF RecoverRun
    <3>2. walks' \in Nat /\ walks' >= 1 /\ walks' <= faults' + 2
      BY <1>1, <3>1 DEF WalksInv
    <3>3. \A w \in Walks : w <= walks => w <= walks + 1
      BY <1>1 DEF WalksInv, Walks
    <3>4. walks + 1 <= walks + 1
      BY <1>1 DEF WalksInv
    <3> QED BY <1>1, <3>1, <3>2, <3>3, <3>4 DEF WalksInv
  <2> QED BY <2>2, <2>3
<1>10. CASE CancelStatus
  BY <1>2, <1>10 DEF CancelStatus
<1>11. CASE Restart
  <2>1. \A w \in Walks : walk'[w].at = "off"
    BY <1>11 DEF Restart, Asleep
  <2>2. walks' = walks /\ faults' = faults + 1 /\ faults < MaxFaults
    BY <1>11 DEF Restart, Fault
  <2> QED BY <1>1, <2>1, <2>2, BoundsAssumption DEF WalksInv
<1>12. ASSUME NEW w \in Walks, Disconnect(w)
       PROVE  WalksInv'
  <2>1. \A v \in Walks : walk[v].at = "off" => walk'[v].at = "off"
    BY <1>1, <1>12 DEF Disconnect, WalkRows
  <2> QED BY <1>2, <1>12, <2>1 DEF Disconnect
<1>13. CASE UNCHANGED vars
  BY <1>1, <1>13 DEF vars, WalksInv
<1> QED BY <1>3, <1>4, <1>5, <1>6, <1>7, <1>8, <1>9, <1>10, <1>11, <1>12, <1>13 DEF Next, Work

(* What the runs begin with. *)
LEMMA InitHolds ==
  ASSUME Init
  PROVE  ShapeInv /\ WalksInv /\ TreeInv
<1>1. graph \in Graphs /\ IsGraph(graph) /\ nested \in BOOLEAN
  BY GraphsAssumption DEF Init
<1>2. PICK client \in BOOLEAN : FirstWalk(client)
  BY DEF Init, Group, RunWorkflowInline
<1>3. 1 \in Walks
  BY BoundsAssumption DEF Walks
<1>4. walk \in [Walks -> WalkRows(graph)] /\ \A w \in Walks : walk[w].at # "off" => w = 1
  <2>1. [v \in Nodes |-> 0] \in [Nodes -> 0..(MaxLoop - 1)] /\ {} \in SUBSET Nodes
    BY BoundsAssumption
  <2>2. [out |-> {}, iter |-> [v \in Nodes |-> 0]] \in CopiesOf(graph)
    BY <2>1 DEF CopiesOf, Nodes
  <2>3. Asleep \in WalkRows(graph) /\ [Asleep EXCEPT !.at = "new", !.client = client] \in WalkRows(graph)
    BY <1>1, <2>2, AsleepRow
  <2>4. Asleep.at = "off"
    BY DEF Asleep
  <2> QED BY <1>2, <2>3, <2>4 DEF FirstWalk
<1>5. ASSUME NEW w \in Walks
      PROVE  BranchesOK(graph, branch[w]) /\ TreeOK(graph, branch[w]) /\ DOMAIN branch[w] = {}
  <2>1. branch[w] = [b \in {} |-> 0] /\ DOMAIN branch[w] = {}
    BY DEF Init
  <2> QED BY <2>1 DEF BranchesOK, TreeOK
<1>6. fired = [w \in Walks |-> [n \in Nodes |-> 0]] /\ [n \in Nodes |-> 0] \in [Nodes -> Nat]
  BY DEF Init
<1>7. ShapeInv
  <2>1. fired \in [Walks -> [Nodes -> Nat]]
    BY <1>6
  <2>2. sub \in [Nodes -> {"none", "running", "success", "failed", "cancelled"}]
    BY DEF Init
  <2>3. basis \in [Walks -> SUBSET Nodes] /\ taken \in [Walks -> SUBSET Nodes]
    BY DEF Init
  <2>4. /\ checkpoint = NoCheckpoint /\ status = "running" /\ recovery \in {"idle", "due"} /\ cancelling = FALSE
        /\ finished = {} /\ touched = FALSE /\ branch = [w \in Walks |-> <<>>]
    BY DEF Init
  <2> QED BY <1>1, <1>4, <1>5, <2>1, <2>2, <2>3, <2>4 DEF ShapeInv
<1>8. WalksInv
  <2>1. walks = 1 /\ faults = 0 /\ 0 \in 0..MaxFaults
    BY BoundsAssumption DEF Init
  <2> QED BY <1>4, <2>1 DEF WalksInv
<1> QED BY <1>5, <1>7, <1>8 DEF TreeInv

(* The variables keep their shapes, the walks are counted, and the         *)
(* branches of a walk are a tree, of goroutines that wait and others that  *)
(* do not, in every reachable state.                                       *)
THEOREM WorkflowInvariant == Spec => [](ShapeInv /\ WalksInv /\ TreeInv)
<1>1. ASSUME ShapeInv, WalksInv, TreeInv, [Next]_vars
      PROVE  (ShapeInv /\ WalksInv /\ TreeInv)'
  <2>1. Variables' /\ WalksInv'
    BY <1>1, StepKeepsVariables, StepKeepsWalks
  <2>2. graph' = graph /\ graph \in Graphs
    BY <1>1, Steps DEF ShapeInv
  <2>3. DOMAIN branch' = Walks /\ branch' = [w \in Walks |-> branch'[w]]
    BY <1>1, BranchMap DEF ShapeInv
  <2>4. /\ \A w \in Walks : BranchesOK(graph, branch'[w]) /\ taken'[w] \in SUBSET Nodes
        /\ \A w \in Walks : TreeOK(graph, branch'[w]) /\ (walk'[w].at # "walking" => DOMAIN branch'[w] = {})
    BY <1>1, BranchesKept
  <2>5. taken' \in [Walks -> SUBSET Nodes]
    <3>1. taken' = [w \in Walks |-> taken'[w]]
      BY <1>1, TakenMap DEF ShapeInv
    <3> QED BY <2>4, <3>1
  <2>6. Nodes' = Nodes
    BY <2>2 DEF Nodes
  <2>7. ShapeInv'
    BY <2>1, <2>2, <2>3, <2>4, <2>5, <2>6 DEF ShapeInv, Variables
  <2>8. TreeInv'
    BY <2>2, <2>4 DEF TreeInv
  <2> QED BY <2>1, <2>7, <2>8
<1> QED BY <1>1, InitHolds, PTL DEF Spec

(* The type invariant of the model. *)
THEOREM WorkflowTypeCorrect == Spec => []TypeOK
<1>1. ASSUME ShapeInv, WalksInv, TreeInv
      PROVE  TypeOK
  <2>1. /\ status \in {"running", "success", "failed", "cancelled"}
        /\ sub \in [Nodes -> {"none", "running", "success", "failed", "cancelled"}]
        /\ recovery \in {"idle", "due", "listed"} /\ cancelling \in BOOLEAN
        /\ finished \subseteq Nodes /\ {basis, taken} \subseteq [Walks -> SUBSET Nodes]
    BY <1>1 DEF ShapeInv
  <2>2. checkpoint.out \subseteq Nodes
    <3>1. CASE checkpoint = NoCheckpoint
      BY <3>1 DEF NoCheckpoint
    <3>2. CASE checkpoint \in CopiesOf(graph)
      BY <3>2 DEF CopiesOf, Nodes
    <3> QED BY <1>1, <3>1, <3>2 DEF ShapeInv
  <2>3. walks \in Walks
    BY <1>1, BoundsAssumption DEF WalksInv, Walks
  <2>4. ASSUME NEW w \in Walks
        PROVE  /\ walk[w].at \in {"off", "new", "walking", "clean"}
               /\ walk[w].out \cup walk[w].cached \subseteq Nodes
               /\ walk[w].iter \in [Nodes -> 0..(MaxLoop - 1)]
               /\ walk[w].steps \in 0..MaxSteps
    <3>1. walk[w] \in WalkRows(graph)
      BY <1>1 DEF ShapeInv
    <3> QED BY <3>1 DEF WalkRows, Nodes
  <2>5. ASSUME NEW w \in Walks, NEW b \in DOMAIN branch[w]
        PROVE  /\ branch[w][b].at \in {"head", "visit", "busy", "fork", "copy", "write"}
               /\ branch[w][b].queue \in Seq(Nodes) /\ branch[w][b].stop \subseteq Nodes
    <3>1. branch[w][b] \in BranchRows(graph)
      BY <1>1 DEF ShapeInv, BranchesOK
    <3> QED BY <3>1 DEF BranchRows, Nodes
  <2> QED BY <2>1, <2>2, <2>3, <2>4, <2>5 DEF TypeOK
<1> QED BY <1>1, WorkflowInvariant, PTL

(* A join is worked on by nobody while a branch of its section is left:    *)
(* the root, which alone works on joins, waits while there is any other    *)
(* branch (the wg.Wait of the parallel node).                              *)
THEOREM JoinsWait == Spec => []JoinWaits
<1>1. ASSUME ShapeInv, WalksInv, TreeInv
      PROVE  JoinWaits
  <2>1. SUFFICES ASSUME NEW w \in Walks, NEW b \in DOMAIN branch[w], NEW c \in DOMAIN branch[w],
                        branch[w][b].at = "visit"
                 PROVE  branch[w][b].node \notin branch[w][c].stop
    BY DEF JoinWaits
  <2> DEFINE br == branch[w]
  <2>2. TreeOK(graph, br)
    BY <1>1 DEF TreeInv
  <2>3. CASE c = <<>>
    BY <2>2, <2>3 DEF TreeOK
  <2>4. CASE c # <<>>
    <3>1. /\ br[<<>>].at = "fork" /\ br[c].stop = SectionJoins(graph, br[Front(c)].node)
      BY <2>2, <2>4 DEF TreeOK, BelowParent
    <3>2. b # <<>>
      BY <2>1, <3>1
    <3>3. br[b].node \in Inside(graph, br[Front(b)].node)
      BY <2>1, <2>2, <3>2 DEF TreeOK, BelowParent
    <3> QED BY <3>1, <3>3 DEF Inside, SectionJoins
  <2> QED BY <2>3, <2>4
<1> QED BY <1>1, WorkflowInvariant, PTL

-----------------------------------------------------------------------------
(* Part 6: a walk through a structured graph comes to every node at most once *)

(* What b has queued is worked on, unless the walk ends; a join that a     *)
(* branch of a section has queued is left to the root.                     *)
Counts(g, b, n) == b = <<>> \/ g.kind[n] # "join"

(* The walk has come to n, or will. *)
Placed(g, br, tk, n) ==
  n \in tk \/ \E b \in DOMAIN br : \E i \in DOMAIN br[b].queue : br[b].queue[i] = n /\ Counts(g, b, n)

(* It has been at p, and from there n is queued no more. *)
Spent(g, br, tk, p, n) ==
  /\ p \in tk
  /\ \A b \in DOMAIN br :
       br[b].node = p => br[b].at \notin {"visit", "busy"} /\ (g.kind[n] = "join" => br[b].at # "fork")

(* In no section but as its end. *)
AtRoot(g, p) == \A f \in Parallel(g) : p \notin Inside(g, f)

(* What is queued is queued once, and not yet taken. *)
QueuedOnce(g, br, tk) ==
  \A b \in DOMAIN br : \A i \in DOMAIN br[b].queue : Counts(g, b, br[b].queue[i]) =>
    /\ br[b].queue[i] \notin tk
    /\ \A c \in DOMAIN br : \A k \in DOMAIN br[c].queue :
         br[c].queue[k] = br[b].queue[i] /\ Counts(g, c, br[c].queue[k]) => c = b /\ k = i

(* What is worked on has been taken, and is by one branch. *)
WorkedOnce(br, tk) ==
  \A b \in DOMAIN br : br[b].at # "head" =>
    /\ br[b].node \in tk
    /\ \A c \in DOMAIN br : br[c].at # "head" /\ br[c].node = br[b].node => c = b

(* The root keeps out of the sections. *)
RootOutside(g, br) ==
  <<>> \in DOMAIN br =>
    /\ \A i \in DOMAIN br[<<>>].queue : AtRoot(g, br[<<>>].queue[i])
    /\ br[<<>>].at # "head" => AtRoot(g, br[<<>>].node)

(* Somebody has queued what the walk comes to, who will not do it again;   *)
(* the walk has come to whatever leads there; and of the ways on from a    *)
(* condition it goes one.                                                  *)
Sourced(g, br, tk) ==
  \A n \in DOMAIN g.kind : Placed(g, br, tk, n) /\ n # Start(g) =>
    \E p \in Sources(g, n) : Spent(g, br, tk, p, n) /\ (g.kind[n] = "join" => AtRoot(g, p))
Through(g, br, tk) ==
  \A n, t \in DOMAIN g.kind : Placed(g, br, tk, n) /\ t # n /\ Dominates(g, t, n) => t \in tk
Apart(g, br, tk) ==
  \A c, t, u \in DOMAIN g.kind :
    g.kind[c] = "condition" /\ t # u /\ Sources(g, t) = {c} /\ Sources(g, u) = {c} =>
      ~(Placed(g, br, tk, t) /\ Placed(g, br, tk, u))

OnceOK(g, br, tk) ==
  /\ QueuedOnce(g, br, tk) /\ WorkedOnce(br, tk) /\ RootOutside(g, br)
  /\ Sourced(g, br, tk) /\ Through(g, br, tk) /\ Apart(g, br, tk)

(* Nothing leads to the start. *)
LEMMA NothingLeadsToStart ==
  ASSUME NEW g, IsGraph(g), Structured(g)
  PROVE  Sources(g, Start(g)) = {} /\ AtRoot(g, Start(g))
<1> DEFINE s == Start(g)
<1>1. s \in DOMAIN g.kind /\ g.kind[s] = "start" /\ \A i \in DOMAIN g.edges : g.edges[i].to # s
  BY DEF Start, IsGraph, Structured
<1> HIDE DEF s
<1>2. ASSUME NEW p \in DOMAIN g.kind, NEW next \in Options(g, p), NEW k \in DOMAIN next
      PROVE  next[k] # s
  <2>1. CASE p \in Parallel(g)
    <3>1. next = Sorted(SectionJoins(g, p))
      BY <2>1, OptionsLead
    <3>2. next[k] \in SectionJoins(g, p)
      BY <3>1, JoinsOfSection DEF Range
    <3> QED BY <1>1, <3>2 DEF SectionJoins
  <2>2. CASE p \notin Parallel(g)
    BY <1>1, <2>2, OptionsLead DEF LeadsFrom
  <2> QED BY <2>1, <2>2
<1>3. \A p : \A k \in DOMAIN Branches(g, p) : Branches(g, p)[k] # s
  BY <1>1, WaysLead DEF LeadsFrom
<1>4. Sources(g, s) = {}
  BY <1>2, <1>3 DEF Sources, Range
<1>5. ASSUME NEW f
      PROVE  s \notin Section(g, f)
  <2>1. Section(g, f) \ {s} \in SUBSET DOMAIN g.kind /\ Searched(g, f, Section(g, f) \ {s})
    BY <1>1, SectionClosed DEF Searched
  <2> QED BY <2>1, SectionClosed
<1> QED BY <1>4, <1>5 DEF AtRoot, Inside, s

(* Every way to n leads over its sources. *)
LEMMA DominatesSource ==
  ASSUME NEW g, NEW n \in DOMAIN g.kind, NEW t, t # n, Dominates(g, t, n), NEW p \in Sources(g, n)
  PROVE  Dominates(g, t, p)
BY DEF Dominates, Sources

(* What b is about to queue is not there yet. *)
LEMMA NotYetPlaced ==
  ASSUME NEW g, IsGraph(g), Structured(g), NEW br, NEW tk \in SUBSET DOMAIN g.kind, OnceOK(g, br, tk),
         NEW b \in DOMAIN br, NEW n \in DOMAIN g.kind, br[b].node \in Sources(g, n),
         br[b].at \in {"visit", "busy"} \/ (br[b].at = "fork" /\ g.kind[n] = "join"),
         Counts(g, b, n)
  PROVE  ~Placed(g, br, tk, n)
<1> DEFINE p == br[b].node
<1>1. SUFFICES ASSUME Placed(g, br, tk, n) PROVE FALSE
  OBVIOUS
<1>2. n # Start(g)
  BY NothingLeadsToStart
<1>3. PICK q \in Sources(g, n) : Spent(g, br, tk, q, n) /\ (g.kind[n] = "join" => AtRoot(g, q))
  BY <1>1, <1>2 DEF OnceOK, Sourced
<1>4. p # q
  BY <1>3 DEF Spent
<1>5. p \in tk /\ q \in tk /\ p \in DOMAIN g.kind /\ q \in DOMAIN g.kind
  BY <1>3 DEF OnceOK, WorkedOnce, Spent
<1>6. \/ Exclusive(g, p, q)
      \/ g.kind[n] = "join" /\ \E f \in Parallel(g) : {p, q} \subseteq Inside(g, f) \cup {f}
  BY <1>3, <1>4 DEF Structured
<1>7. CASE Exclusive(g, p, q)
  <2>1. PICK c, t, u \in DOMAIN g.kind :
          /\ g.kind[c] = "condition" /\ t # u /\ Sources(g, t) = {c} /\ Sources(g, u) = {c}
          /\ Dominates(g, t, p) /\ Dominates(g, u, q)
    BY <1>7 DEF Exclusive
  <2>2. Placed(g, br, tk, p) /\ Placed(g, br, tk, q)
    BY <1>5 DEF Placed
  <2>3. t \in tk /\ u \in tk
    BY <1>5, <2>1, <2>2 DEF OnceOK, Through
  <2>4. Placed(g, br, tk, t) /\ Placed(g, br, tk, u)
    BY <2>3 DEF Placed
  <2> QED BY <2>1, <2>4 DEF OnceOK, Apart
<1>8. CASE g.kind[n] = "join" /\ \E f \in Parallel(g) : {p, q} \subseteq Inside(g, f) \cup {f}
  <2>1. b = <<>> /\ AtRoot(g, p)
    BY <1>8 DEF Counts, OnceOK, RootOutside
  <2> QED BY <1>3, <1>4, <1>8, <2>1 DEF AtRoot
<1> QED BY <1>6, <1>7, <1>8

(* What is there now and was not before is in E, and queued by p. *)
GrowsBy(g, br, tk, new, tkn, p, E) ==
  /\ tk \subseteq tkn
  /\ \A n \in DOMAIN g.kind : Placed(g, new, tkn, n) => Placed(g, br, tk, n) \/ n \in E
  /\ \A q, n \in DOMAIN g.kind : Spent(g, br, tk, q, n) => Spent(g, new, tkn, q, n)
  /\ \A n \in E : /\ p \in Sources(g, n) /\ p \in tk /\ Spent(g, new, tkn, p, n)
                  /\ g.kind[n] = "join" => AtRoot(g, p)
                  /\ g.kind[p] = "condition" =>
                       \A m \in DOMAIN g.kind : ~Spent(g, br, tk, p, m) /\ (m \in E => m = n)

(* Then it has sources, who are spent. *)
LEMMA PlacesGrow ==
  ASSUME NEW g, IsGraph(g), Structured(g), NEW br, NEW tk \in SUBSET DOMAIN g.kind, OnceOK(g, br, tk),
         NEW new, NEW tkn, NEW p, NEW E \in SUBSET DOMAIN g.kind, GrowsBy(g, br, tk, new, tkn, p, E)
  PROVE  Sourced(g, new, tkn) /\ Through(g, new, tkn) /\ Apart(g, new, tkn)
<1> USE DEF GrowsBy
<1>0. \A n : Sources(g, n) \subseteq DOMAIN g.kind
  BY DEF Sources
<1>1. Sourced(g, new, tkn)
  BY <1>0 DEF OnceOK, Sourced
<1>2. Through(g, new, tkn)
  <2>1. SUFFICES ASSUME NEW n \in DOMAIN g.kind, NEW t \in DOMAIN g.kind, Placed(g, new, tkn, n), t # n, Dominates(g, t, n)
                 PROVE  t \in tk
    BY DEF Through
  <2>2. CASE Placed(g, br, tk, n)
    BY <2>1, <2>2 DEF OnceOK, Through
  <2>3. CASE n \in E
    <3>1. Dominates(g, t, p) /\ p \in tk
      BY <2>1, <2>3, DominatesSource
    <3>2. Placed(g, br, tk, p)
      BY <3>1 DEF Placed
    <3> QED BY <3>1, <3>2 DEF OnceOK, Through
  <2> QED BY <2>1, <2>2, <2>3
<1>3. Apart(g, new, tkn)
  <2>1. SUFFICES ASSUME NEW c \in DOMAIN g.kind, NEW t \in DOMAIN g.kind, NEW u \in DOMAIN g.kind,
                        g.kind[c] = "condition", t # u, Sources(g, t) = {c}, Sources(g, u) = {c},
                        Placed(g, new, tkn, t), Placed(g, new, tkn, u)
                 PROVE  FALSE
    BY DEF Apart
  <2>2. ASSUME NEW n \in E, NEW m \in DOMAIN g.kind, n # m, Sources(g, n) = {c}, Sources(g, m) = {c}
        PROVE  ~Placed(g, br, tk, m) /\ m \notin E
    <3>1. p = c
      BY <2>2
    <3>2. m \notin E
      BY <2>1, <2>2, <3>1
    <3>3. m # Start(g)
      BY <2>2, NothingLeadsToStart
    <3>4. Placed(g, br, tk, m) => Spent(g, br, tk, p, m)
      BY <2>2, <3>1, <3>3 DEF OnceOK, Sourced
    <3> QED BY <2>1, <2>2, <3>1, <3>2, <3>4
  <2>3. t \in E \/ u \in E
    BY <2>1 DEF OnceOK, Apart
  <2> QED BY <2>1, <2>2, <2>3
<1> QED BY <1>1, <1>2, <1>3

(* Who has moved on from p stays beyond it. *)
LEMMA SpentStays ==
  ASSUME NEW g, NEW br, NEW tk, NEW new, NEW tkn, tk \subseteq tkn,
         \A c \in DOMAIN new :
           \/ new[c].at \in {"head", "copy", "write"}
           \/ new[c].node \notin tk
           \/ /\ c \in DOMAIN br /\ new[c].node = br[c].node
              /\ new[c].at = br[c].at \/ br[c].at \in {"visit", "busy"}
  PROVE  \A p, n : Spent(g, br, tk, p, n) => Spent(g, new, tkn, p, n)
<1> SUFFICES ASSUME NEW p, NEW n, Spent(g, br, tk, p, n)
             PROVE  Spent(g, new, tkn, p, n)
  OBVIOUS
<1>1. p \in tk /\ p \in tkn
  BY DEF Spent
<1>2. ASSUME NEW c \in DOMAIN new, new[c].node = p
      PROVE  new[c].at \notin {"visit", "busy"} /\ (g.kind[n] = "join" => new[c].at # "fork")
  BY <1>1, <1>2 DEF Spent
<1> QED BY <1>1, <1>2 DEF Spent

(* A branch ends, or goes on with what it is at. *)
LEMMA QuietKeepsOnce ==
  ASSUME NEW g, IsGraph(g), Structured(g), NEW br, NEW tk \in SUBSET DOMAIN g.kind, OnceOK(g, br, tk),
         NEW new,
         \A c \in DOMAIN new :
           /\ c \in DOMAIN br /\ new[c].queue = br[c].queue
           /\ new[c].at # "head" => br[c].at # "head" /\ new[c].node = br[c].node
           /\ \/ new[c].at \in {"head", "copy", "write"}
              \/ new[c].at = br[c].at
              \/ br[c].at \in {"visit", "busy"}
  PROVE  OnceOK(g, new, tk)
<1>1. \A n : Placed(g, new, tk, n) => Placed(g, br, tk, n)
  BY DEF Placed
<1>2. \A p, n : Spent(g, br, tk, p, n) => Spent(g, new, tk, p, n)
  BY SpentStays
<1>3. Sourced(g, new, tk) /\ Through(g, new, tk) /\ Apart(g, new, tk)
  <2>1. Sourced(g, new, tk)
    BY <1>1, <1>2 DEF OnceOK, Sourced
  <2>2. Through(g, new, tk) /\ Apart(g, new, tk)
    BY <1>1 DEF OnceOK, Through, Apart
  <2> QED BY <2>1, <2>2
<1>4. QueuedOnce(g, new, tk)
  BY DEF OnceOK, QueuedOnce
<1>5. WorkedOnce(new, tk)
  BY DEF OnceOK, WorkedOnce
<1>6. RootOutside(g, new)
  BY DEF OnceOK, RootOutside
<1> QED BY <1>3, <1>4, <1>5, <1>6 DEF OnceOK

(* A branch takes a node. *)
LEMMA TakeKeepsOnce ==
  ASSUME NEW g, IsGraph(g), Structured(g), NEW br, BranchesOK(g, br), TreeOK(g, br),
         NEW tk \in SUBSET DOMAIN g.kind, OnceOK(g, br, tk), NEW b \in DOMAIN br,
         NEW new, NEW tkn, Takes(br, new, tk, tkn, b)
  PROVE  OnceOK(g, new, tkn) /\ Head(br[b].queue) \notin tk
<1> DEFINE D == DOMAIN g.kind
           r == br[b]
           h == Head(r.queue)
           row == [r EXCEPT !.at = "visit", !.node = h, !.queue = Tail(r.queue)]
<1>1. /\ r \in BranchRows(g) /\ r.queue \in Seq(D) /\ r.node \in D
      /\ r = [at |-> r.at, queue |-> r.queue, node |-> r.node, stop |-> r.stop, copy |-> r.copy]
  BY DEF BranchesOK, BranchRows
<1>2. /\ row.at = "visit" /\ row.node = h /\ row.queue = Tail(r.queue)
      /\ new = [br EXCEPT ![b] = row] /\ tkn = tk \cup {h} /\ r.at = "head" /\ r.queue # <<>> /\ h \notin r.stop
  BY <1>1 DEF Takes
<1>3. /\ h \in D /\ h = r.queue[1] /\ 1 \in DOMAIN r.queue
      /\ \A k \in DOMAIN Tail(r.queue) : k + 1 \in DOMAIN r.queue /\ Tail(r.queue)[k] = r.queue[k + 1] /\ k + 1 # 1
  BY <1>1, <1>2, QueueParts
<1>4. Counts(g, b, h)
  <2>1. CASE b = <<>>
    BY <2>1 DEF Counts
  <2>2. CASE b # <<>>
    BY <1>2, <1>3, <2>2 DEF TreeOK, BelowParent, SectionJoins, Counts
  <2> QED BY <2>1, <2>2
<1>5. DOMAIN new = DOMAIN br /\ new[b] = row /\ \A c \in DOMAIN br : c # b => new[c] = br[c]
  BY <1>2
<1>6. \A c \in DOMAIN br : \A k \in DOMAIN br[c].queue : k \in Nat
  <2>1. \A c \in DOMAIN br : br[c].queue \in Seq(D)
    BY DEF BranchesOK, BranchRows
  <2> QED BY <2>1, LenProperties
<1> HIDE DEF row, h, r
<1>7. h \notin tk /\ \A c \in DOMAIN br : \A k \in DOMAIN br[c].queue :
                        br[c].queue[k] = h /\ Counts(g, c, h) => c = b /\ k = 1
  BY <1>3, <1>4 DEF OnceOK, QueuedOnce, r
<1>8. ASSUME NEW c \in DOMAIN new, NEW k \in DOMAIN new[c].queue
      PROVE  \E j \in DOMAIN br[c].queue : /\ br[c].queue[j] = new[c].queue[k]
                                           /\ j = (IF c = b THEN k + 1 ELSE k) /\ (c = b => j # 1)
  BY <1>2, <1>3, <1>5 DEF r
<1>9. QueuedOnce(g, new, tkn)
  <2>1. SUFFICES ASSUME NEW c \in DOMAIN new, NEW k \in DOMAIN new[c].queue, Counts(g, c, new[c].queue[k])
                 PROVE  /\ new[c].queue[k] \notin tkn
                        /\ \A d \in DOMAIN new : \A l \in DOMAIN new[d].queue :
                             new[d].queue[l] = new[c].queue[k] /\ Counts(g, d, new[d].queue[l]) => d = c /\ l = k
    BY DEF QueuedOnce
  <2>2. PICK j \in DOMAIN br[c].queue : /\ br[c].queue[j] = new[c].queue[k]
                                        /\ j = (IF c = b THEN k + 1 ELSE k) /\ (c = b => j # 1)
    BY <1>8
  <2>3. br[c].queue[j] \notin tk /\ br[c].queue[j] # h
    BY <1>5, <1>7, <2>1, <2>2 DEF OnceOK, QueuedOnce
  <2>4. ASSUME NEW d \in DOMAIN new, NEW l \in DOMAIN new[d].queue,
               new[d].queue[l] = new[c].queue[k], Counts(g, d, new[d].queue[l])
        PROVE  d = c /\ l = k
    <3>1. PICK i \in DOMAIN br[d].queue : br[d].queue[i] = new[d].queue[l] /\ i = (IF d = b THEN l + 1 ELSE l)
      BY <1>8
    <3>2. d = c /\ i = j
      BY <1>5, <2>1, <2>2, <2>4, <3>1 DEF OnceOK, QueuedOnce
    <3>3. k \in Nat /\ l \in Nat
      <4>1. \A e \in DOMAIN new : \A m \in DOMAIN new[e].queue : m \in Nat
        <5>1. Tail(r.queue) \in Seq(D)
          BY <1>1, <1>2, QueueParts
        <5>2. \A m \in DOMAIN Tail(r.queue) : m \in Nat
          BY <5>1, LenProperties
        <5> QED BY <1>2, <1>5, <1>6, <5>2
      <4> QED BY <4>1
    <3> QED BY <2>2, <3>1, <3>2, <3>3
  <2> QED BY <1>2, <2>2, <2>3, <2>4
<1>10. WorkedOnce(new, tkn)
  BY <1>2, <1>5, <1>7 DEF OnceOK, WorkedOnce
<1>11. RootOutside(g, new)
  <2>1. SUFFICES ASSUME <<>> \in DOMAIN new
                 PROVE  /\ \A k \in DOMAIN new[<<>>].queue : AtRoot(g, new[<<>>].queue[k])
                        /\ new[<<>>].at # "head" => AtRoot(g, new[<<>>].node)
    BY DEF RootOutside
  <2>2. /\ <<>> \in DOMAIN br /\ \A i \in DOMAIN br[<<>>].queue : AtRoot(g, br[<<>>].queue[i])
        /\ br[<<>>].at # "head" => AtRoot(g, br[<<>>].node)
    BY <1>5, <2>1 DEF OnceOK, RootOutside
  <2>3. b = <<>> => AtRoot(g, h)
    BY <1>3, <2>2 DEF r
  <2> QED BY <1>2, <1>5, <1>8, <2>1, <2>2, <2>3
<1>12. \A n : Placed(g, new, tkn, n) => Placed(g, br, tk, n)
  <2>1. Placed(g, br, tk, h)
    BY <1>3, <1>4 DEF Placed, r
  <2> QED BY <1>2, <1>5, <1>8, <2>1 DEF Placed
<1>13. \A p, n : Spent(g, br, tk, p, n) => Spent(g, new, tkn, p, n)
  <2>1. ASSUME NEW c \in DOMAIN new
        PROVE  \/ new[c].node \notin tk
               \/ c \in DOMAIN br /\ new[c].node = br[c].node /\ new[c].at = br[c].at
    BY <1>2, <1>5, <1>7
  <2> QED BY <1>2, <2>1, SpentStays
<1>14. Sourced(g, new, tkn)
  BY <1>12, <1>13 DEF OnceOK, Sourced
<1>15. Through(g, new, tkn) /\ Apart(g, new, tkn)
  BY <1>2, <1>12 DEF OnceOK, Through, Apart
<1>16. Head(br[b].queue) \notin tk
  BY <1>7 DEF h, r
<1> QED BY <1>9, <1>10, <1>11, <1>14, <1>15, <1>16 DEF OnceOK

(* The root queues nothing that is inside a section. *)
LEMMA QueuesOutside ==
  ASSUME NEW g, IsGraph(g), Structured(g), NEW p \in DOMAIN g.kind, AtRoot(g, p),
         NEW next \in Options(g, p), NEW k \in DOMAIN next
  PROVE  AtRoot(g, next[k])
<1> SUFFICES ASSUME NEW f \in Parallel(g), next[k] \in Inside(g, f)
             PROVE  FALSE
  BY DEF AtRoot
<1>1. p \in Sources(g, next[k])
  BY DEF Sources, Range
<1>2. p = f
  BY <1>1 DEF Structured, AtRoot
<1>3. next = Sorted(SectionJoins(g, f))
  BY <1>2, OptionsLead
<1>4. next[k] \in SectionJoins(g, f)
  BY <1>3, JoinsOfSection DEF Range
<1> QED BY <1>4 DEF Inside

(* A branch queues what comes next. *)
LEMMA QueueKeepsOnce ==
  ASSUME NEW g, IsGraph(g), Structured(g), NEW br, BranchesOK(g, br), TreeOK(g, br),
         NEW tk \in SUBSET DOMAIN g.kind, OnceOK(g, br, tk), NEW b \in DOMAIN br,
         NEW new, NEW tkn, Queues(g, br, new, tk, tkn, b)
  PROVE  OnceOK(g, new, tk)
<1> DEFINE D == DOMAIN g.kind
           r == br[b]
           p == r.node
<1>1. /\ r \in BranchRows(g) /\ r.queue \in Seq(D) /\ p \in D
      /\ r = [at |-> r.at, queue |-> r.queue, node |-> p, stop |-> r.stop, copy |-> r.copy]
  BY DEF BranchesOK, BranchRows
<1>2. PICK next \in Options(g, p) : new = [br EXCEPT ![b] = Completed(r, next)]
  BY DEF Queues
<1>3. \/ r.at \in {"visit", "busy"} /\ p \notin Parallel(g)
      \/ r.at = "fork" /\ p \in Parallel(g)
  BY DEF Queues, TreeOK
<1> DEFINE row == Completed(r, next)
<1>4. row.at = "copy" /\ row.node = p /\ row.queue = r.queue \o next
  BY <1>1 DEF Completed
<1>5. DOMAIN new = DOMAIN br /\ new[b] = row /\ \A c \in DOMAIN br : c # b => new[c] = br[c]
  BY <1>2
<1>6. /\ next \in Seq(D) /\ IsInjective(next)
      /\ \A k \in DOMAIN next : next[k] \in D /\ p \in Sources(g, next[k])
  <2>1. next \in Seq(D)
    BY <1>1, OptionsLead
  <2>2. \A k \in DOMAIN next : next[k] \in D
    BY <2>1, ElementOfSeq, LenProperties
  <2>3. \A k \in DOMAIN next : p \in Sources(g, next[k])
    BY <1>1 DEF Sources, Range
  <2> QED BY <1>1, <2>1, <2>2, <2>3 DEF Structured
<1>7. \A i \in DOMAIN row.queue :
        \/ i \in DOMAIN r.queue /\ row.queue[i] = r.queue[i]
        \/ i - Len(r.queue) \in DOMAIN next /\ row.queue[i] = next[i - Len(r.queue)]
  BY <1>1, <1>4, <1>6, QueueAppended
<1>8. Len(r.queue) \in Nat /\ \A i \in DOMAIN row.queue : i \in Nat
  <2>1. row.queue \in Seq(D)
    BY <1>1, <1>4, <1>6, QueueAppended
  <2> QED BY <1>1, <2>1, LenProperties
<1> HIDE DEF r, p, row
<1>9. ASSUME NEW k \in DOMAIN next, Counts(g, b, next[k])
      PROVE  ~Placed(g, br, tk, next[k])
  <2>1. r.at = "fork" => g.kind[next[k]] = "join"
    <3>1. CASE p \in Parallel(g)
      <4>1. next = Sorted(SectionJoins(g, p))
        BY <1>1, <3>1, OptionsLead
      <4>2. next[k] \in SectionJoins(g, p)
        BY <4>1, JoinsOfSection DEF Range
      <4> QED BY <4>2 DEF SectionJoins
    <3> QED BY <1>3, <3>1
  <2>2. r.at \in {"visit", "busy"} \/ (r.at = "fork" /\ g.kind[next[k]] = "join")
    BY <1>3, <2>1
  <2> QED BY <1>6, <1>9, <2>2, NotYetPlaced DEF r, p
<1>10. p \in tk /\ (b = <<>> => AtRoot(g, p)) /\ \A c \in DOMAIN br : br[c].node = p => c = b \/ br[c].at = "head"
  BY <1>3 DEF OnceOK, WorkedOnce, RootOutside, r, p
<1>11. QueuedOnce(g, new, tk)
  <2>1. SUFFICES ASSUME NEW c \in DOMAIN new, NEW i \in DOMAIN new[c].queue, Counts(g, c, new[c].queue[i])
                 PROVE  /\ new[c].queue[i] \notin tk
                        /\ \A d \in DOMAIN new : \A l \in DOMAIN new[d].queue :
                             new[d].queue[l] = new[c].queue[i] /\ Counts(g, d, new[d].queue[l]) => d = c /\ l = i
    BY DEF QueuedOnce
  <2>2. ASSUME NEW d \in DOMAIN new, NEW l \in DOMAIN new[d].queue
        PROVE  \/ l \in DOMAIN br[d].queue /\ br[d].queue[l] = new[d].queue[l]
               \/ d = b /\ l - Len(r.queue) \in DOMAIN next /\ new[d].queue[l] = next[l - Len(r.queue)]
    BY <1>5, <1>7 DEF r
  <2>3. ASSUME NEW d \in DOMAIN new, NEW l \in DOMAIN br[d].queue, Counts(g, d, br[d].queue[l])
        PROVE  Placed(g, br, tk, br[d].queue[l])
    BY <1>5, <2>3 DEF Placed
  <2>4. new[c].queue[i] \notin tk
    <3>1. CASE i \in DOMAIN br[c].queue /\ br[c].queue[i] = new[c].queue[i]
      BY <1>5, <2>1, <3>1 DEF OnceOK, QueuedOnce
    <3>2. CASE c = b /\ i - Len(r.queue) \in DOMAIN next /\ new[c].queue[i] = next[i - Len(r.queue)]
      BY <1>9, <2>1, <3>2 DEF Placed
    <3> QED BY <2>2, <3>1, <3>2
  <2>5. ASSUME NEW d \in DOMAIN new, NEW l \in DOMAIN new[d].queue,
               new[d].queue[l] = new[c].queue[i], Counts(g, d, new[d].queue[l])
        PROVE  d = c /\ l = i
    <3>1. CASE i \in DOMAIN br[c].queue /\ br[c].queue[i] = new[c].queue[i]
      <4>1. CASE l \in DOMAIN br[d].queue /\ br[d].queue[l] = new[d].queue[l]
        BY <1>5, <2>1, <2>5, <3>1, <4>1 DEF OnceOK, QueuedOnce
      <4>2. CASE d = b /\ l - Len(r.queue) \in DOMAIN next /\ new[d].queue[l] = next[l - Len(r.queue)]
        BY <1>9, <2>1, <2>3, <2>5, <3>1, <4>2
      <4> QED BY <2>2, <4>1, <4>2
    <3>2. CASE c = b /\ i - Len(r.queue) \in DOMAIN next /\ new[c].queue[i] = next[i - Len(r.queue)]
      <4>1. CASE l \in DOMAIN br[d].queue /\ br[d].queue[l] = new[d].queue[l]
        BY <1>9, <2>1, <2>3, <2>5, <3>2, <4>1
      <4>2. CASE d = b /\ l - Len(r.queue) \in DOMAIN next /\ new[d].queue[l] = next[l - Len(r.queue)]
        <5>1. l - Len(r.queue) = i - Len(r.queue)
          BY <1>6, <2>5, <3>2, <4>2 DEF IsInjective
        <5>2. l \in Nat /\ i \in Nat
          BY <1>5, <1>8, <3>2, <4>2
        <5> QED BY <1>8, <3>2, <4>2, <5>1, <5>2
      <4> QED BY <2>2, <4>1, <4>2
    <3> QED BY <2>2, <3>1, <3>2
  <2> QED BY <2>4, <2>5
<1>12. WorkedOnce(new, tk)
  BY <1>3, <1>4, <1>5 DEF OnceOK, WorkedOnce, r, p
<1>13. RootOutside(g, new)
  <2>1. SUFFICES ASSUME <<>> \in DOMAIN new
                 PROVE  /\ \A k \in DOMAIN new[<<>>].queue : AtRoot(g, new[<<>>].queue[k])
                        /\ new[<<>>].at # "head" => AtRoot(g, new[<<>>].node)
    BY DEF RootOutside
  <2>2. /\ <<>> \in DOMAIN br /\ \A i \in DOMAIN br[<<>>].queue : AtRoot(g, br[<<>>].queue[i])
        /\ br[<<>>].at # "head" => AtRoot(g, br[<<>>].node)
    BY <1>5, <2>1 DEF OnceOK, RootOutside
  <2>3. CASE b = <<>>
    <3>1. \A k \in DOMAIN next : AtRoot(g, next[k])
      BY <1>1, <1>10, <2>3, QueuesOutside
    <3>2. \A k \in DOMAIN row.queue : AtRoot(g, row.queue[k])
      BY <1>7, <2>2, <2>3, <3>1 DEF r
    <3> QED BY <1>4, <1>5, <1>10, <2>3, <3>2
  <2>4. CASE b # <<>>
    BY <1>5, <2>2, <2>4
  <2> QED BY <2>3, <2>4
<1>14. \A q, n : Spent(g, br, tk, q, n) => Spent(g, new, tk, q, n)
  <2>1. ASSUME NEW c \in DOMAIN new
        PROVE  \/ new[c].at = "copy"
               \/ c \in DOMAIN br /\ new[c].node = br[c].node /\ new[c].at = br[c].at
    BY <1>4, <1>5
  <2> QED BY <2>1, SpentStays
<1>15. Sourced(g, new, tk) /\ Through(g, new, tk) /\ Apart(g, new, tk)
  <2> DEFINE E == {n \in D : Counts(g, b, n) /\ \E k \in DOMAIN next : next[k] = n}
  <2>1. ASSUME NEW n, Placed(g, new, tk, n)
        PROVE  Placed(g, br, tk, n) \/ n \in E
    <3>1. CASE n \in tk
      BY <3>1 DEF Placed
    <3>2. CASE n \notin tk
      <4>1. PICK c \in DOMAIN new : \E i \in DOMAIN new[c].queue : new[c].queue[i] = n /\ Counts(g, c, n)
        BY <2>1, <3>2 DEF Placed
      <4>2. PICK i \in DOMAIN new[c].queue : new[c].queue[i] = n /\ Counts(g, c, n)
        BY <4>1
      <4>3. \/ i \in DOMAIN br[c].queue /\ br[c].queue[i] = n
            \/ c = b /\ i - Len(r.queue) \in DOMAIN next /\ n = next[i - Len(r.queue)]
        BY <1>5, <1>7, <4>2 DEF r
      <4> QED BY <1>5, <1>6, <4>2, <4>3 DEF Placed
    <3> QED BY <3>1, <3>2
  <2>2. ASSUME NEW n \in E
        PROVE  /\ p \in Sources(g, n) /\ p \in tk /\ Spent(g, new, tk, p, n)
               /\ g.kind[n] = "join" => AtRoot(g, p)
               /\ g.kind[p] = "condition" => \A m \in D : ~Spent(g, br, tk, p, m) /\ (m \in E => m = n)
    <3>1. p \in Sources(g, n)
      BY <1>6
    <3>2. Spent(g, new, tk, p, n)
      <4>1. ASSUME NEW c \in DOMAIN new, new[c].node = p
            PROVE  new[c].at \in {"copy", "head"}
        BY <1>4, <1>5, <1>10, <4>1
      <4> QED BY <1>10, <4>1 DEF Spent
    <3>3. g.kind[n] = "join" => AtRoot(g, p)
      BY <1>10 DEF Counts
    <3>4. ASSUME g.kind[p] = "condition", NEW m \in D
          PROVE  ~Spent(g, br, tk, p, m) /\ (m \in E => m = n)
      <4>1. r.at \in {"visit", "busy"}
        BY <1>3, <3>4 DEF Parallel
      <4>2. ~Spent(g, br, tk, p, m)
        BY <4>1 DEF Spent, r, p
      <4>3. DOMAIN next = 1..Len(next) /\ Len(next) \in Nat /\ Len(next) <= 1
        BY <1>1, <1>6, <3>4, OptionsLead, LenProperties
      <4>4. \A i, j \in DOMAIN next : i = j
        BY <4>3
      <4> QED BY <4>2, <4>4
    <3> QED BY <1>10, <3>1, <3>2, <3>3, <3>4
  <2> HIDE DEF E
  <2>3. E \in SUBSET DOMAIN g.kind
    BY DEF E
  <2>4. \A n \in DOMAIN g.kind : Placed(g, new, tk, n) => Placed(g, br, tk, n) \/ n \in E
    BY <2>1
  <2>5. \A n \in E : /\ p \in Sources(g, n) /\ p \in tk /\ Spent(g, new, tk, p, n)
                     /\ g.kind[n] = "join" => AtRoot(g, p)
                     /\ g.kind[p] = "condition" =>
                          \A m \in DOMAIN g.kind : ~Spent(g, br, tk, p, m) /\ (m \in E => m = n)
    BY <2>2
  <2>6. \A q, n \in DOMAIN g.kind : Spent(g, br, tk, q, n) => Spent(g, new, tk, q, n)
    BY <1>14
  <2>7. tk \subseteq tk
    OBVIOUS
  <2>8. GrowsBy(g, br, tk, new, tk, p, E)
    BY <2>4, <2>5, <2>6, <2>7 DEF GrowsBy
  <2> QED BY <2>3, <2>8, PlacesGrow
<1> QED BY <1>11, <1>12, <1>13, <1>15 DEF OnceOK

(* A branch starts the branches of a section. *)
LEMMA ForkKeepsOnce ==
  ASSUME NEW g, IsGraph(g), Structured(g), NEW br, BranchesOK(g, br), TreeOK(g, br),
         NEW tk \in SUBSET DOMAIN g.kind, OnceOK(g, br, tk), NEW b \in DOMAIN br,
         NEW new, NEW tkn, Forks(g, br, new, tk, tkn, b)
  PROVE  OnceOK(g, new, tk)
<1> DEFINE D == DOMAIN g.kind
           r == br[b]
           p == r.node
           S == Started(g, br, b)
           starts == Branches(g, p)
           fork == Forking(r)
<1>1. /\ r \in BranchRows(g) /\ r.queue \in Seq(D) /\ p \in D
      /\ r = [at |-> r.at, queue |-> r.queue, node |-> p, stop |-> r.stop, copy |-> r.copy]
  BY DEF BranchesOK, BranchRows
<1>2. r.at = "visit" /\ p \in Parallel(g)
  BY DEF Forks
<1>3. /\ DOMAIN new = S \cup DOMAIN br
      /\ \A c \in S : c # <<>> /\ c # b
      /\ \A i \in DOMAIN starts : new[Append(b, i)] = NewBranch(starts[i], SectionJoins(g, p))
      /\ \A c \in DOMAIN br \ S : new[c] = IF c = b THEN fork ELSE br[c]
      /\ \A c \in S : Front(c) = b
  <2>1. ForkedFrom(g, br, new, b)
    BY StartedAre
  <2> QED BY <2>1 DEF ForkedFrom
<1>4. fork.at = "fork" /\ fork.node = p /\ fork.queue = r.queue
  BY <1>1 DEF Forking
<1>5. /\ starts \in Seq(D) /\ IsInjective(starts)
      /\ \A k \in DOMAIN starts : starts[k] \in D /\ p \in Sources(g, starts[k])
  <2>1. starts \in Seq(D)
    BY WaysLead DEF LeadsFrom
  <2>2. \A k \in DOMAIN starts : starts[k] \in D
    BY <2>1, ElementOfSeq, LenProperties
  <2>3. \A k \in DOMAIN starts : p \in Sources(g, starts[k])
    BY <1>1, <1>2 DEF Sources, Range
  <2> QED BY <1>1, <1>2, <2>1, <2>2, <2>3 DEF Structured
<1>6. ASSUME NEW c \in S
      PROVE  \E k \in DOMAIN starts : /\ c = Append(b, k) /\ new[c].at = "head" /\ new[c].queue = <<starts[k]>>
                                      /\ DOMAIN new[c].queue = {1} /\ new[c].queue[1] = starts[k]
  <2>1. PICK k \in DOMAIN starts : c = Append(b, k)
    BY DEF Started
  <2>2. SectionJoins(g, p) \in SUBSET D /\ starts[k] \in D
    BY <1>5, SectionClosed DEF SectionJoins
  <2>3. new[c] = NewBranch(starts[k], SectionJoins(g, p))
    BY <1>3, <2>1
  <2>4. new[c].at = "head" /\ new[c].queue = <<starts[k]>>
    BY <2>2, <2>3, NewRow
  <2>5. \A x : DOMAIN <<x>> = {1} /\ <<x>>[1] = x
    OBVIOUS
  <2> HIDE DEF starts
  <2> QED BY <2>1, <2>4, <2>5
<1>7. ASSUME NEW c \in DOMAIN br
      PROVE  c \notin S
  <2>1. CASE c = <<>>
    BY <1>3, <2>1
  <2>2. CASE c # <<>>
    BY <1>2, <1>3, <2>2 DEF TreeOK, BelowParent
  <2> QED BY <2>1, <2>2
<1> HIDE DEF r, p, S, starts, fork
<1>8. new[b] = fork /\ \A c \in DOMAIN br : c # b => new[c] = br[c]
  BY <1>3, <1>7
<1>9. ASSUME NEW k \in DOMAIN starts, g.kind[starts[k]] # "join"
      PROVE  ~Placed(g, br, tk, starts[k])
  BY <1>2, <1>5, <1>9, NotYetPlaced DEF Counts, r, p
<1>10. /\ p \in tk /\ \A c \in DOMAIN br : br[c].node = p => c = b \/ br[c].at = "head"
  BY <1>2 DEF OnceOK, WorkedOnce, r, p
<1>11. QueuedOnce(g, new, tk)
  <2>1. SUFFICES ASSUME NEW c \in DOMAIN new, NEW i \in DOMAIN new[c].queue, Counts(g, c, new[c].queue[i])
                 PROVE  /\ new[c].queue[i] \notin tk
                        /\ \A d \in DOMAIN new : \A l \in DOMAIN new[d].queue :
                             new[d].queue[l] = new[c].queue[i] /\ Counts(g, d, new[d].queue[l]) => d = c /\ l = i
    BY DEF QueuedOnce
  <2>2. ASSUME NEW d \in DOMAIN new, NEW l \in DOMAIN new[d].queue, Counts(g, d, new[d].queue[l])
        PROVE  \/ /\ d \in DOMAIN br /\ l \in DOMAIN br[d].queue /\ br[d].queue[l] = new[d].queue[l]
                  /\ Placed(g, br, tk, new[d].queue[l])
               \/ /\ l = 1 /\ ~Placed(g, br, tk, new[d].queue[l])
                  /\ \E k \in DOMAIN starts : d = Append(b, k) /\ new[d].queue[l] = starts[k]
    <3>1. CASE d \in S
      <4>1. PICK k \in DOMAIN starts : d = Append(b, k) /\ DOMAIN new[d].queue = {1} /\ new[d].queue[1] = starts[k]
        BY <1>6, <3>1
      <4>2. l = 1 /\ g.kind[starts[k]] # "join"
        BY <1>3, <2>2, <3>1, <4>1 DEF Counts
      <4> QED BY <1>9, <4>1, <4>2
    <3>2. CASE d \in DOMAIN br
      <4>1. new[d].queue = br[d].queue
        BY <1>4, <1>8, <3>2 DEF r
      <4> QED BY <2>2, <3>2, <4>1 DEF Placed
    <3> QED BY <1>3, <3>1, <3>2
  <2>3. new[c].queue[i] \notin tk
    BY <2>1, <2>2 DEF Placed, OnceOK, QueuedOnce
  <2>4. ASSUME NEW d \in DOMAIN new, NEW l \in DOMAIN new[d].queue,
               new[d].queue[l] = new[c].queue[i], Counts(g, d, new[d].queue[l])
        PROVE  d = c /\ l = i
    <3>1. CASE Placed(g, br, tk, new[c].queue[i])
      BY <2>1, <2>2, <2>4, <3>1 DEF OnceOK, QueuedOnce
    <3>2. CASE ~Placed(g, br, tk, new[c].queue[i])
      <4>1. PICK k \in DOMAIN starts : c = Append(b, k) /\ new[c].queue[i] = starts[k]
        BY <2>1, <2>2, <3>2
      <4>2. PICK j \in DOMAIN starts : d = Append(b, j) /\ new[d].queue[l] = starts[j]
        BY <2>2, <2>4, <3>2
      <4>3. k = j
        BY <1>5, <2>4, <4>1, <4>2 DEF IsInjective
      <4> QED BY <2>1, <2>2, <2>4, <3>2, <4>1, <4>2, <4>3
    <3> QED BY <3>1, <3>2
  <2> QED BY <2>3, <2>4
<1>12. ASSUME NEW c \in DOMAIN new
       PROVE  \/ new[c].at = "head" /\ c # <<>>
              \/ /\ c \in DOMAIN br /\ new[c].queue = br[c].queue /\ new[c].node = br[c].node
                 /\ new[c].at = br[c].at \/ (c = b /\ new[c].at = "fork" /\ br[c].at = "visit")
  <2>1. CASE c \in S
    BY <1>3, <1>6, <2>1
  <2>2. CASE c = b
    BY <1>2, <1>4, <1>8, <2>2 DEF r, p
  <2>3. CASE c \in DOMAIN br /\ c # b
    BY <1>8, <2>3
  <2> QED BY <1>3, <2>1, <2>2, <2>3
<1>13. WorkedOnce(new, tk)
  BY <1>12 DEF OnceOK, WorkedOnce
<1>14. RootOutside(g, new)
  BY <1>12 DEF OnceOK, RootOutside
<1>15. \A q, n \in DOMAIN g.kind : Spent(g, br, tk, q, n) => Spent(g, new, tk, q, n)
  BY <1>12, SpentStays
<1>16. Sourced(g, new, tk) /\ Through(g, new, tk) /\ Apart(g, new, tk)
  <2> DEFINE E == {n \in DOMAIN g.kind : g.kind[n] # "join" /\ \E k \in DOMAIN starts : starts[k] = n}
  <2>1. ASSUME NEW n, Placed(g, new, tk, n)
        PROVE  Placed(g, br, tk, n) \/ n \in E
    <3>1. CASE n \in tk
      BY <3>1 DEF Placed
    <3>2. CASE n \notin tk
      <4>1. PICK c \in DOMAIN new : \E i \in DOMAIN new[c].queue : new[c].queue[i] = n /\ Counts(g, c, n)
        BY <2>1, <3>2 DEF Placed
      <4>2. PICK i \in DOMAIN new[c].queue : new[c].queue[i] = n /\ Counts(g, c, n)
        BY <4>1
      <4>3. CASE c \in S
        BY <1>3, <1>5, <1>6, <4>2, <4>3 DEF Counts
      <4>4. CASE c \in DOMAIN br
        <5>1. new[c].queue = br[c].queue
          BY <1>4, <1>8, <4>4 DEF r
        <5> QED BY <4>2, <4>4, <5>1 DEF Placed
      <4> QED BY <1>3, <4>3, <4>4
    <3> QED BY <3>1, <3>2
  <2>2. ASSUME NEW n \in E
        PROVE  /\ p \in Sources(g, n) /\ p \in tk /\ Spent(g, new, tk, p, n)
               /\ g.kind[n] # "join" /\ g.kind[p] # "condition"
    <3>1. Spent(g, new, tk, p, n)
      <4>1. ASSUME NEW c \in DOMAIN new, new[c].node = p
            PROVE  new[c].at \in {"fork", "head"}
        BY <1>4, <1>8, <1>10, <1>12, <4>1
      <4> QED BY <1>10, <4>1 DEF Spent
    <3> QED BY <1>2, <1>5, <1>10, <3>1 DEF Parallel
  <2> HIDE DEF E
  <2>3. E \in SUBSET DOMAIN g.kind
    BY DEF E
  <2>4. \A n \in DOMAIN g.kind : Placed(g, new, tk, n) => Placed(g, br, tk, n) \/ n \in E
    BY <2>1
  <2>5. \A n \in E : /\ p \in Sources(g, n) /\ p \in tk /\ Spent(g, new, tk, p, n)
                     /\ g.kind[n] = "join" => AtRoot(g, p)
                     /\ g.kind[p] = "condition" =>
                          \A m \in DOMAIN g.kind : ~Spent(g, br, tk, p, m) /\ (m \in E => m = n)
    BY <2>2
  <2>6. tk \subseteq tk
    OBVIOUS
  <2>7. GrowsBy(g, br, tk, new, tk, p, E)
    BY <1>15, <2>4, <2>5, <2>6 DEF GrowsBy
  <2> QED BY <2>3, <2>7, PlacesGrow
<1> QED BY <1>11, <1>13, <1>14, <1>16 DEF OnceOK

(* A walk begins with nothing taken. *)
LEMMA BeginsOnce ==
  ASSUME NEW g, IsGraph(g), Structured(g)
  PROVE  OnceOK(g, Beginning(g), {})
<1> DEFINE s == Start(g)
           br == Beginning(g)
<1>1. s \in DOMAIN g.kind
  BY DEF Start, IsGraph
<1>2. DOMAIN br = {<<>>} /\ br[<<>>].at = "head" /\ DOMAIN br[<<>>].queue = {1} /\ br[<<>>].queue[1] = s
  <2>1. NewBranch(s, {}).at = "head" /\ NewBranch(s, {}).queue = <<s>>
    BY DEF NewBranch
  <2>2. \A x : DOMAIN <<x>> = {1} /\ <<x>>[1] = x
    OBVIOUS
  <2> HIDE DEF s
  <2> QED BY <2>1, <2>2 DEF Beginning, s
<1> HIDE DEF s, br
<1>3. \A n : Placed(g, br, {}, n) => n = s
  BY <1>2 DEF Placed
<1>4. QueuedOnce(g, br, {}) /\ WorkedOnce(br, {})
  BY <1>2 DEF QueuedOnce, WorkedOnce
<1>5. RootOutside(g, br)
  BY <1>2, NothingLeadsToStart DEF RootOutside, s
<1>6. Sourced(g, br, {}) /\ Apart(g, br, {})
  BY <1>3 DEF Sourced, Apart, s
<1>7. Through(g, br, {})
  BY <1>3 DEF Through, Dominates, s
<1> QED BY <1>4, <1>5, <1>6, <1>7 DEF OnceOK, br

(* A step of a branch comes to no node for a second time. *)
LEMMA MoveKeepsOnce ==
  ASSUME NEW g, IsGraph(g), Structured(g), NEW br, BranchesOK(g, br), TreeOK(g, br),
         NEW tk \in SUBSET DOMAIN g.kind, OnceOK(g, br, tk), NEW b \in DOMAIN br,
         NEW new, NEW tkn, NEW lost, BranchMove(g, br, new, tk, tkn, b, lost)
  PROVE  OnceOK(g, new, tkn)
<1>1. CASE Ends(br, new, tk, tkn, b, lost)
  <2>1. tkn = tk /\ \A c \in DOMAIN new : c \in DOMAIN br /\ new[c] = br[c]
    BY <1>1 DEF Ends, Restrict
  <2>2. OnceOK(g, new, tk)
    BY <2>1, QuietKeepsOnce
  <2> QED BY <2>1, <2>2
<1>2. CASE Moves(g, br, new, tk, tkn, b)
  <2>1. PICK at, copy :
          /\ new = [br EXCEPT ![b] = [br[b] EXCEPT !.at = at, !.copy = copy]]
          /\ \/ br[b].at = "visit" /\ at \in {"busy", "head"}
             \/ br[b].at = "copy" /\ at = "write"
             \/ br[b].at = "write" /\ at = "head"
    BY <1>2 DEF Moves
  <2> DEFINE row == [br[b] EXCEPT !.at = at, !.copy = copy]
  <2>2. row.at = at /\ row.node = br[b].node /\ row.queue = br[b].queue
    <3>1. br[b] = [at |-> br[b].at, queue |-> br[b].queue, node |-> br[b].node, stop |-> br[b].stop, copy |-> br[b].copy]
      BY DEF BranchesOK, BranchRows
    <3> QED BY <3>1
  <2>3. DOMAIN new = DOMAIN br /\ new[b] = row /\ \A c \in DOMAIN br : c # b => new[c] = br[c]
    BY <2>1
  <2> HIDE DEF row
  <2>4. ASSUME NEW c \in DOMAIN new
        PROVE  /\ c \in DOMAIN br /\ new[c].queue = br[c].queue
               /\ new[c].at # "head" => br[c].at # "head" /\ new[c].node = br[c].node
               /\ \/ new[c].at \in {"head", "copy", "write"}
                  \/ new[c].at = br[c].at
                  \/ br[c].at \in {"visit", "busy"}
    <3>1. CASE c = b
      BY <2>1, <2>2, <2>3, <3>1
    <3>2. CASE c # b
      BY <2>3, <3>2
    <3> QED BY <3>1, <3>2
  <2>5. OnceOK(g, new, tk)
    BY <2>4, QuietKeepsOnce
  <2> QED BY <1>2, <2>5 DEF Moves
<1>3. CASE Takes(br, new, tk, tkn, b)
  BY <1>3, TakeKeepsOnce
<1>4. CASE Queues(g, br, new, tk, tkn, b)
  BY <1>4, QueueKeepsOnce DEF Queues
<1>5. CASE Forks(g, br, new, tk, tkn, b)
  BY <1>5, ForkKeepsOnce DEF Forks
<1> QED BY <1>1, <1>2, <1>3, <1>4, <1>5 DEF BranchMove

-----------------------------------------------------------------------------
(* Part 7: what a checkpoint had is not executed again *)

(* A walk that has not begun has come to nothing. *)
FreshInv ==
  \A w \in Walks :
    /\ w > walks \/ walk[w].at = "new" => taken[w] = {} /\ \A n \in Nodes : fired[w][n] = 0
    /\ w > walks => basis[w] = {}

OnceInv == graph \in StructuredGraphs => \A w \in Walks : OnceOK(graph, branch[w], taken[w])

(* What the checkpoint had is used when the walk comes to it. *)
ResumeOK(w) ==
  \A n \in basis[w] : Kind(n) \in Resumable =>
    /\ fired[w][n] = 0
    /\ walk[w].at \in {"new", "walking"} /\ n \notin taken[w] => n \in walk[w].cached
    /\ \A b \in DOMAIN branch[w] : branch[w][b].at = "visit" /\ branch[w][b].node = n => n \in walk[w].cached

ResumeInv == graph \in StructuredGraphs => \A w \in Walks : ResumeOK(w)

(* What a step of b does to what the walk has executed and can still use.  *)
Uses(w, b) ==
  LET n == branch[w][b].node
  IN  /\ basis'[w] = basis[w]
      /\ \/ fired'[w] = fired[w] /\ walk'[w].cached = walk[w].cached
         \/ /\ fired'[w] = fired[w] /\ walk'[w].cached = walk[w].cached \ {n}
            /\ branch[w][b].at = "visit" /\ branch'[w][b].at = "copy"
         \/ /\ fired'[w] = [fired[w] EXCEPT ![n] = @ + 1] /\ walk'[w].cached = walk[w].cached
            /\ branch[w][b].at = "visit" /\ (Kind(n) \in Resumable => n \notin walk[w].cached)

(* A walk whose branches make no step: it goes on, stops, or comes up.     *)
Rests(w) ==
  /\ branch'[w] = branch[w] \/ branch'[w] = <<>> \/ branch'[w] = With(branch[w], <<>>, NewBranch(Start(graph), {}))
  /\ taken'[w] = taken[w] /\ fired'[w] = fired[w] /\ basis'[w] = basis[w]
  /\ walk'[w].at \in {"new", "walking"} => walk[w].at \in {"new", "walking"}
  /\ walk'[w].at = "new" => walk[w].at = "new"
  /\ walk'[w].cached = walk[w].cached \/ (walk'[w].at = "off" /\ (branch'[w] = <<>> \/ walk[w].at # "walking"))
  /\ walks' = walks \/ walks' = walks + 1
Recovers(w) ==
  /\ branch'[w] = branch[w] /\ taken'[w] = taken[w] /\ fired'[w] = fired[w]
  /\ walks \in Nat /\ w = walks + 1 /\ walks' = walks + 1
  /\ walk[w].at = "off" /\ walk'[w].at = "new" /\ walk'[w].cached = basis'[w]

UseOf(w) ==
  \/ /\ walks' = walks /\ walk'[w].at = walk[w].at
     /\ \E b \in DOMAIN branch[w] :
          /\ BranchMove(graph, branch[w], branch'[w], taken[w], taken'[w], b, walk'[w].marked)
          /\ Uses(w, b)
  \/ Rests(w)
  \/ Recovers(w)

(* What the steps of a branch use. *)
LEMMA BranchStepUses ==
  ASSUME ShapeInv, NEW w \in Walks, NEW b \in DOMAIN branch[w], BranchStep(w, b)
  PROVE  walks' = walks /\ Uses(w, b) /\ \A v \in Walks \ {w} : fired'[v] = fired[v] /\ basis'[v] = basis[v]
<1> USE DEF constVars, histVars, dbVars
<1> DEFINE r == branch[w][b]
           n == r.node
<1>1. /\ walk \in [Walks -> WalkRows(graph)] /\ DOMAIN branch = Walks /\ fired \in [Walks -> [Nodes -> Nat]]
      /\ r = [at |-> r.at, queue |-> r.queue, node |-> n, stop |-> r.stop, copy |-> r.copy]
      /\ branch[w] = [c \in DOMAIN branch[w] |-> branch[w][c]]
  BY DEF ShapeInv, BranchesOK, BranchRows
<1>2. ASSUME UNCHANGED <<walks, basis, fired>>, walk'[w].cached = walk[w].cached
      PROVE  walks' = walks /\ Uses(w, b) /\ \A v \in Walks \ {w} : fired'[v] = fired[v] /\ basis'[v] = basis[v]
  BY <1>2 DEF Uses
<1>3. CASE BranchEnds(w, b) \/ FollowRoute(w, b) \/ SkipNode(w, b) \/ Fork(w, b) \/ Join(w, b) \/ CopyProgress(w, b)
           \/ WriteCheckpoint(w, b)
  BY <1>2, <1>3 DEF BranchEnds, FollowRoute, SkipNode, Fork, Join, CopyProgress, WriteCheckpoint
<1>4. CASE AbortWalk(w, b) \/ TakeNode(w, b) \/ Loop(w, b)
  <2>1. walk'[w].cached = walk[w].cached
    <3>1. CASE AbortWalk(w, b)
      BY <1>1, <3>1 DEF AbortWalk, WalkRows
    <3>2. CASE TakeNode(w, b)
      BY <1>1, <3>2 DEF TakeNode, WalkRows
    <3>3. CASE Loop(w, b)
      BY <1>1, <3>3 DEF Loop, WalkRows
    <3> QED BY <1>4, <3>1, <3>2, <3>3
  <2> QED BY <1>2, <1>4, <2>1 DEF AbortWalk, TakeNode, Loop
<1>5. CASE StartNode(w, b) \/ JoinNode(w, b) \/ UnknownNode(w, b)
  <2>1. PICK kind : PassOn(w, b, kind)
    BY <1>5 DEF StartNode, JoinNode, UnknownNode
  <2>2. walk'[w].cached = walk[w].cached
    BY <1>1, <2>1 DEF PassOn, WalkRows
  <2> QED BY <1>2, <2>1, <2>2 DEF PassOn
<1>6. CASE DeliverEnd(w, b)
  <2>1. /\ walk'[w].cached = walk[w].cached /\ fired' = [fired EXCEPT ![w][n] = @ + 1] /\ UNCHANGED <<walks, basis>>
        /\ r.at = "visit" /\ Kind(n) = "end"
    BY <1>1, <1>6 DEF DeliverEnd, WalkRows, Visiting, At
  <2>2. fired'[w] = [fired[w] EXCEPT ![n] = @ + 1] /\ \A v \in Walks \ {w} : fired'[v] = fired[v]
    BY <1>1, <2>1
  <2> QED BY <2>1, <2>2 DEF Uses, Resumable, SubKinds, EffectKinds
<1>7. CASE Reuse(w, b)
  <2>1. /\ walk'[w].cached = walk[w].cached \ {n} /\ UNCHANGED <<walks, basis, fired>> /\ r.at = "visit"
        /\ Put(w, b, Completed(r, Successors(graph, n)))
    BY <1>1, <1>7 DEF Reuse, WalkRows, Visiting, At
  <2>2. branch'[w][b] = Completed(r, Successors(graph, n))
    BY <1>1, <2>1 DEF Put, With
  <2>3. branch'[w][b].at = "copy"
    BY <1>1, <2>2 DEF Completed
  <2> QED BY <2>1, <2>3 DEF Uses
<1>8. CASE RunAgent(w, b) \/ Supervise(w, b) \/ CallWebhook(w, b) \/ SendMessage(w, b)
  <2>1. PICK kind : Execute(w, b, kind)
    BY <1>8 DEF RunAgent, Supervise, CallWebhook, SendMessage
  <2>2. /\ walk'[w].cached = walk[w].cached /\ fired' = [fired EXCEPT ![w][n] = @ + 1] /\ UNCHANGED <<walks, basis>>
        /\ r.at = "visit" /\ n \notin walk[w].cached
    BY <2>1 DEF Execute, Visiting, At, Resumes
  <2>3. fired'[w] = [fired[w] EXCEPT ![n] = @ + 1] /\ \A v \in Walks \ {w} : fired'[v] = fired[v]
    BY <1>1, <2>2
  <2> QED BY <2>2, <2>3 DEF Uses
<1>9. CASE Return(w, b)
  <2>1. walk'[w].cached = walk[w].cached
    <3>1. \/ walk' = [walk EXCEPT ![w].marked = TRUE]
          \/ walk' = [walk EXCEPT ![w].out = @ \cup {n}]
      BY <1>9 DEF Return
    <3> QED BY <1>1, <3>1 DEF WalkRows
  <2> QED BY <1>2, <1>9, <2>1 DEF Return
<1> QED BY <1>3, <1>4, <1>5, <1>6, <1>7, <1>8, <1>9 DEF BranchStep

(* What every step uses. *)
LEMMA StepUses ==
  ASSUME ShapeInv, WalksInv, TreeInv, [Next]_vars
  PROVE  \A w \in Walks : UseOf(w)
<1> USE DEF constVars, histVars, dbVars
<1>1. walk \in [Walks -> WalkRows(graph)] /\ DOMAIN branch = Walks /\ basis \in [Walks -> SUBSET Nodes]
  BY DEF ShapeInv
<1>2. ASSUME NEW w \in Walks, branch'[w] = branch[w], taken'[w] = taken[w], fired'[w] = fired[w],
             basis'[w] = basis[w], walks' = walks \/ walks' = walks + 1,
             walk'[w].at = walk[w].at, walk'[w].cached = walk[w].cached
      PROVE  UseOf(w)
  BY <1>2 DEF UseOf, Rests
<1>3. ASSUME NEW w \in Walks, LoadGraph(w)
      PROVE  \A v \in Walks : UseOf(v)
  <2>1. UNCHANGED <<taken, fired, basis, walks>> /\ walk[w].at = "new"
    BY <1>3 DEF LoadGraph
  <2>2. CASE walk' = [walk EXCEPT ![w].at = "walking"] /\ Put(w, <<>>, NewBranch(Start(graph), {}))
    <3>1. /\ walk'[w].at = "walking" /\ branch'[w] = With(branch[w], <<>>, NewBranch(Start(graph), {}))
          /\ walk'[w].cached = walk[w].cached
      BY <1>1, <2>2 DEF WalkRows, Put
    <3>2. \A v \in Walks \ {w} : walk'[v] = walk[v] /\ branch'[v] = branch[v]
      BY <1>1, <2>2 DEF Put
    <3>3. UseOf(w)
      BY <2>1, <3>1 DEF UseOf, Rests
    <3> QED BY <1>2, <2>1, <3>2, <3>3
  <2>3. CASE walk' = [walk EXCEPT ![w].at = "clean", ![w].marked = TRUE] /\ UNCHANGED branch
    <3>1. walk'[w].at = "clean" /\ walk'[w].cached = walk[w].cached /\ \A v \in Walks \ {w} : walk'[v] = walk[v]
      BY <1>1, <2>3 DEF WalkRows
    <3>2. UseOf(w)
      BY <2>1, <2>3, <3>1 DEF UseOf, Rests
    <3> QED BY <1>2, <2>1, <2>3, <3>1, <3>2
  <2> QED BY <1>3, <2>2, <2>3 DEF LoadGraph
<1>4. ASSUME NEW w \in Walks, FinishWalk(w)
      PROVE  \A v \in Walks : UseOf(v)
  <2>1. walk'[w].at = "clean" /\ walk'[w].cached = walk[w].cached /\ \A v \in Walks \ {w} : walk'[v] = walk[v]
    BY <1>1, <1>4 DEF FinishWalk, WalkRows
  <2>2. UseOf(w)
    BY <1>4, <2>1 DEF FinishWalk, UseOf, Rests
  <2> QED BY <1>2, <1>4, <2>1, <2>2 DEF FinishWalk
<1>5. ASSUME NEW w \in Walks, DeleteCheckpoint(w)
      PROVE  \A v \in Walks : UseOf(v)
  <2>1. walk'[w].at = "off" /\ walk[w].at = "clean" /\ \A v \in Walks \ {w} : walk'[v] = walk[v]
    BY <1>1, <1>5 DEF DeleteCheckpoint, Asleep
  <2>2. UseOf(w)
    BY <1>5, <2>1 DEF DeleteCheckpoint, UseOf, Rests
  <2> QED BY <1>2, <1>5, <2>1, <2>2 DEF DeleteCheckpoint
<1>6. ASSUME NEW w \in Walks, NEW b \in DOMAIN branch[w], BranchStep(w, b)
      PROVE  \A v \in Walks : UseOf(v)
  <2>1. BranchMove(graph, branch[w], branch'[w], taken[w], taken'[w], b, walk'[w].marked) /\ Elsewhere(w)
    BY <1>6, BranchStepMoves
  <2>2. walks' = walks /\ Uses(w, b) /\ \A v \in Walks \ {w} : fired'[v] = fired[v] /\ basis'[v] = basis[v]
    BY <1>6, BranchStepUses
  <2>3. UseOf(w)
    BY <2>1, <2>2 DEF UseOf, Elsewhere
  <2> QED BY <1>2, <2>1, <2>2, <2>3 DEF Elsewhere
<1>7. CASE CancelRun
  <2>1. \A w \in Walks : walk'[w].at = walk[w].at /\ walk'[w].cached = walk[w].cached
    BY <1>1, <1>7 DEF CancelRun, WalkRows
  <2> QED BY <1>2, <1>7, <2>1 DEF CancelRun
<1>8. CASE ListInterrupted
  BY <1>2, <1>8 DEF ListInterrupted
<1>9. CASE RecoverRun
  <2>1. walks + 1 \in Walks /\ walk[walks + 1].at = "off" /\ walks \in Nat
    BY <1>9, NextWalk DEF WalksInv
  <2>2. CASE checkpoint = NoCheckpoint
    BY <1>2, <1>9, <2>2 DEF RecoverRun
  <2>3. CASE checkpoint # NoCheckpoint
    <3>1. /\ walks' = walks + 1 /\ UNCHANGED <<branch, taken, fired>>
          /\ walk' = [walk EXCEPT ![walks + 1] = [Asleep EXCEPT !.at = "new", !.cached = checkpoint.out,
                                                                !.iter = checkpoint.iter]]
          /\ basis' = [basis EXCEPT ![walks + 1] = checkpoint.out]
      BY <1>9, <2>3 DEF RecoverRun
    <3>2. \A w \in Walks \ {walks + 1} : walk'[w] = walk[w] /\ basis'[w] = basis[w]
      BY <1>1, <3>1
    <3>3. walk'[walks + 1].at = "new" /\ walk'[walks + 1].cached = checkpoint.out /\ basis'[walks + 1] = checkpoint.out
      BY <1>1, <2>1, <3>1 DEF Asleep
    <3>4. UseOf(walks + 1)
      BY <2>1, <3>1, <3>3 DEF UseOf, Recovers
    <3>5. \A w \in Walks \ {walks + 1} : UseOf(w)
      BY <1>2, <3>1, <3>2
    <3> QED BY <3>4, <3>5
  <2> QED BY <2>2, <2>3
<1>10. CASE CancelStatus
  BY <1>2, <1>10 DEF CancelStatus
<1>11. CASE Restart
  <2>1. \A w \in Walks : walk'[w].at = "off" /\ branch'[w] = <<>>
    BY <1>11 DEF Restart, Asleep
  <2> QED BY <1>11, <2>1 DEF Restart, UseOf, Rests
<1>12. ASSUME NEW w \in Walks, Disconnect(w)
       PROVE  \A v \in Walks : UseOf(v)
  <2>1. \A v \in Walks : walk'[v].at = walk[v].at /\ walk'[v].cached = walk[v].cached
    BY <1>1, <1>12 DEF Disconnect, WalkRows
  <2> QED BY <1>2, <1>12, <2>1 DEF Disconnect
<1>13. CASE UNCHANGED vars
  BY <1>2, <1>13 DEF vars
<1> QED BY <1>3, <1>4, <1>5, <1>6, <1>7, <1>8, <1>9, <1>10, <1>11, <1>12, <1>13 DEF Next, Work

(* A walk that has not begun has come to nothing. *)
LEMMA StepKeepsFresh ==
  ASSUME ShapeInv, WalksInv, TreeInv, FreshInv, [Next]_vars
  PROVE  FreshInv'
<1>1. graph' = graph /\ Nodes' = Nodes
  BY Steps DEF Nodes
<1>2. SUFFICES ASSUME NEW w \in Walks
               PROVE  /\ w > walks' \/ walk'[w].at = "new" => taken'[w] = {} /\ \A n \in Nodes : fired'[w][n] = 0
                      /\ w > walks' => basis'[w] = {}
  BY <1>1 DEF FreshInv
<1>3. walks \in Nat /\ w \in Nat /\ (walk[w].at # "off" => w <= walks)
  BY DEF WalksInv, Walks
<1>4. CASE \E b \in DOMAIN branch[w] : walks' = walks /\ walk'[w].at = walk[w].at
  <2>1. walk[w].at = "walking"
    BY <1>4 DEF TreeInv
  <2> QED BY <1>3, <1>4, <2>1
<1>5. CASE Rests(w)
  BY <1>3, <1>5 DEF Rests, FreshInv
<1>6. CASE Recovers(w)
  BY <1>3, <1>6 DEF Recovers, FreshInv
<1> QED BY <1>4, <1>5, <1>6, StepUses DEF UseOf

(* A walk through a structured graph comes to every node once. *)
LEMMA StepKeepsOnce ==
  ASSUME ShapeInv, WalksInv, TreeInv, FreshInv, OnceInv, [Next]_vars
  PROVE  OnceInv'
<1>1. graph' = graph /\ (\A w \in Walks : StepOf(w)) /\ IsGraph(graph)
  BY Steps, GraphsAssumption DEF ShapeInv
<1>2. SUFFICES ASSUME graph \in StructuredGraphs, NEW w \in Walks
               PROVE  OnceOK(graph, branch'[w], taken'[w])
  BY <1>1 DEF OnceInv
<1>3. /\ Structured(graph) /\ OnceOK(graph, branch[w], taken[w]) /\ BranchesOK(graph, branch[w])
      /\ TreeOK(graph, branch[w]) /\ taken[w] \in SUBSET DOMAIN graph.kind
      /\ walk[w].at # "walking" => DOMAIN branch[w] = {}
  BY <1>2 DEF OnceInv, StructuredGraphs, ShapeInv, TreeInv, Nodes
<1>4. CASE branch'[w] = branch[w] /\ taken'[w] = taken[w]
  BY <1>3, <1>4
<1>5. CASE \E b \in DOMAIN branch[w] :
             BranchMove(graph, branch[w], branch'[w], taken[w], taken'[w], b, walk'[w].marked)
  BY <1>1, <1>3, <1>5, MoveKeepsOnce
<1>6. CASE /\ walk[w].at = "new" /\ branch'[w] = With(branch[w], <<>>, NewBranch(Start(graph), {}))
           /\ taken'[w] = taken[w]
  <2>1. taken[w] = {}
    BY <1>6 DEF FreshInv
  <2>2. branch'[w] = Beginning(graph)
    BY <1>1, <1>3, <1>6, BeginsWithStart
  <2> QED BY <1>1, <1>3, <1>6, <2>1, <2>2, BeginsOnce
<1>7. CASE branch'[w] = <<>> /\ taken'[w] = taken[w]
  <2>1. DOMAIN branch'[w] = {}
    BY <1>7
  <2>2. OnceOK(graph, branch'[w], taken[w])
    BY <1>1, <1>3, <2>1, QuietKeepsOnce
  <2> QED BY <1>7, <2>2
<1> QED BY <1>1, <1>4, <1>5, <1>6, <1>7 DEF StepOf

(* Who works on a node did so before, or has just taken it. *)
LEMMA VisitsAfter ==
  ASSUME NEW g, IsGraph(g), Structured(g), NEW br, BranchesOK(g, br), TreeOK(g, br),
         NEW tk \in SUBSET DOMAIN g.kind, OnceOK(g, br, tk), NEW b \in DOMAIN br,
         NEW new, NEW tkn, NEW lost, BranchMove(g, br, new, tk, tkn, b, lost),
         NEW c \in DOMAIN new, new[c].at = "visit"
  PROVE  \/ c \in DOMAIN br /\ br[c].at = "visit" /\ br[c].node = new[c].node
         \/ new[c].node \notin tk
<1>1. br[b] = [at |-> br[b].at, queue |-> br[b].queue, node |-> br[b].node, stop |-> br[b].stop, copy |-> br[b].copy]
  BY DEF BranchesOK, BranchRows
<1>2. ASSUME NEW row, new = [br EXCEPT ![b] = row], row.at # "visit" \/ row.node \notin tk
      PROVE  \/ c \in DOMAIN br /\ br[c].at = "visit" /\ br[c].node = new[c].node
             \/ new[c].node \notin tk
  BY <1>2
<1>3. CASE Ends(br, new, tk, tkn, b, lost)
  BY <1>3 DEF Ends, Restrict
<1>4. CASE Takes(br, new, tk, tkn, b)
  <2> DEFINE row == [br[b] EXCEPT !.at = "visit", !.node = Head(br[b].queue), !.queue = Tail(br[b].queue)]
  <2>1. row.node = Head(br[b].queue) /\ Head(br[b].queue) \notin tk
    BY <1>1, <1>4, TakeKeepsOnce
  <2>2. new = [br EXCEPT ![b] = row]
    BY <1>4 DEF Takes
  <2> HIDE DEF row
  <2> QED BY <1>2, <2>1, <2>2
<1>5. CASE Moves(g, br, new, tk, tkn, b)
  <2>1. PICK at, copy : new = [br EXCEPT ![b] = [br[b] EXCEPT !.at = at, !.copy = copy]] /\ at # "visit"
    BY <1>5 DEF Moves
  <2> DEFINE row == [br[b] EXCEPT !.at = at, !.copy = copy]
  <2>2. row.at # "visit"
    BY <1>1, <2>1
  <2> HIDE DEF row
  <2> QED BY <1>2, <2>1, <2>2 DEF row
<1>6. CASE Queues(g, br, new, tk, tkn, b)
  <2>1. PICK next : new = [br EXCEPT ![b] = Completed(br[b], next)]
    BY <1>6 DEF Queues
  <2>2. Completed(br[b], next).at # "visit"
    BY <1>1 DEF Completed
  <2> QED BY <1>2, <2>1, <2>2
<1>7. CASE Forks(g, br, new, tk, tkn, b)
  <2>1. ForkedFrom(g, br, new, b)
    BY <1>7, StartedAre
  <2>2. \A d \in Started(g, br, b) : new[d].at = "head"
    <3>1. \A i \in DOMAIN Branches(g, br[b].node) :
            new[Append(b, i)] = NewBranch(Branches(g, br[b].node)[i], SectionJoins(g, br[b].node))
      BY <2>1 DEF ForkedFrom
    <3>2. \A n, stop : NewBranch(n, stop).at = "head"
      BY DEF NewBranch
    <3> QED BY <3>1, <3>2 DEF Started
  <2>3. Forking(br[b]).at = "fork"
    BY <1>1 DEF Forking
  <2> QED BY <2>1, <2>2, <2>3 DEF ForkedFrom
<1> QED BY <1>3, <1>4, <1>5, <1>6, <1>7 DEF BranchMove

(* A walk takes up what the checkpoint had. *)
LEMMA StepKeepsResume ==
  ASSUME ShapeInv, WalksInv, TreeInv, FreshInv, OnceInv, ResumeInv, [Next]_vars
  PROVE  ResumeInv'
<1>1. graph' = graph /\ (\A w \in Walks : UseOf(w)) /\ IsGraph(graph) /\ Nodes' = Nodes
  BY Steps, StepUses, GraphsAssumption DEF ShapeInv, Nodes
<1>2. SUFFICES ASSUME graph \in StructuredGraphs, NEW w \in Walks, NEW n \in basis'[w], Kind(n) \in Resumable
               PROVE  /\ fired'[w][n] = 0
                      /\ walk'[w].at \in {"new", "walking"} /\ n \notin taken'[w] => n \in walk'[w].cached
                      /\ \A c \in DOMAIN branch'[w] :
                           branch'[w][c].at = "visit" /\ branch'[w][c].node = n => n \in walk'[w].cached
  BY <1>1 DEF ResumeInv, ResumeOK, Kind
<1>3. /\ Structured(graph) /\ OnceOK(graph, branch[w], taken[w]) /\ BranchesOK(graph, branch[w])
      /\ TreeOK(graph, branch[w]) /\ taken[w] \in SUBSET DOMAIN graph.kind
      /\ walk[w].at # "walking" => DOMAIN branch[w] = {}
      /\ basis[w] \subseteq Nodes /\ fired[w] \in [Nodes -> Nat]
  BY <1>2 DEF OnceInv, StructuredGraphs, ShapeInv, TreeInv, Nodes
<1>4. n \in basis[w] =>
        /\ fired[w][n] = 0
        /\ walk[w].at \in {"new", "walking"} /\ n \notin taken[w] => n \in walk[w].cached
        /\ \A c \in DOMAIN branch[w] : branch[w][c].at = "visit" /\ branch[w][c].node = n => n \in walk[w].cached
  BY <1>2 DEF ResumeInv, ResumeOK
<1>5. CASE walks' = walks /\ walk'[w].at = walk[w].at /\ \E b \in DOMAIN branch[w] :
             /\ BranchMove(graph, branch[w], branch'[w], taken[w], taken'[w], b, walk'[w].marked)
             /\ Uses(w, b)
  <2>1. PICK b \in DOMAIN branch[w] :
          /\ BranchMove(graph, branch[w], branch'[w], taken[w], taken'[w], b, walk'[w].marked)
          /\ Uses(w, b)
    BY <1>5
  <2> DEFINE m == branch[w][b].node
             tk == taken[w]
  <2>2. n \in basis[w] /\ n \in Nodes
    BY <1>2, <1>3, <2>1 DEF Uses
  <2>3. walk[w].at = "walking"
    BY <1>3
  <2>4. tk \subseteq taken'[w]
    BY <2>1 DEF BranchMove, Ends, Takes, Moves, Queues, Forks
  <2>5. fired'[w][n] = 0
    BY <1>2, <1>3, <1>4, <2>1, <2>2 DEF Uses
  <2>6. n \in walk[w].cached /\ n \notin walk'[w].cached =>
          /\ n = m /\ branch[w][b].at = "visit" /\ branch'[w][b].at = "copy"
    BY <2>1 DEF Uses
  <2>7. n \notin taken'[w] => n \in walk'[w].cached
    <3>1. branch[w][b].at # "head" => m \in tk
      BY <1>3 DEF OnceOK, WorkedOnce
    <3> QED BY <1>4, <2>2, <2>3, <2>4, <2>6, <3>1
  <2>8. ASSUME NEW c \in DOMAIN branch'[w], branch'[w][c].at = "visit", branch'[w][c].node = n
        PROVE  n \in walk'[w].cached
    <3>1. \/ c \in DOMAIN branch[w] /\ branch[w][c].at = "visit" /\ branch[w][c].node = n
          \/ n \notin tk
      BY <1>1, <1>3, <2>1, <2>8, VisitsAfter
    <3>2. n \in walk[w].cached
      BY <1>4, <2>2, <2>3, <3>1
    <3>3. n \in tk => c \in DOMAIN branch[w] /\ branch[w][c].at = "visit" /\ branch[w][c].node = n
      BY <3>1
    <3>4. branch[w][b].at = "visit" /\ n = m => c = b
      BY <1>3, <3>3 DEF OnceOK, WorkedOnce
    <3> QED BY <2>6, <2>8, <3>2, <3>4
  <2> QED BY <2>5, <2>7, <2>8
<1>6. CASE Rests(w)
  <2>1. n \in basis[w]
    BY <1>2, <1>6 DEF Rests
  <2>2. \A c \in DOMAIN branch'[w] : branch'[w][c].at = "visit" =>
          c \in DOMAIN branch[w] /\ branch'[w][c] = branch[w][c] /\ walk[w].at = "walking"
    <3>1. CASE branch'[w] = branch[w]
      BY <1>3, <3>1
    <3>2. CASE branch'[w] = <<>>
      BY <3>2
    <3>3. CASE branch'[w] = With(branch[w], <<>>, NewBranch(Start(graph), {})) /\ branch'[w] # branch[w]
      <4>1. ASSUME NEW c \in DOMAIN branch'[w], branch'[w][c].at = "visit"
            PROVE  c \in DOMAIN branch[w] /\ branch'[w][c] = branch[w][c]
        BY <3>3, <4>1 DEF With, NewBranch
      <4> QED BY <1>3, <3>3, <4>1
    <3> QED BY <1>6, <3>1, <3>2, <3>3 DEF Rests
  <2> QED BY <1>4, <1>6, <2>1, <2>2 DEF Rests
<1>7. CASE Recovers(w)
  <2>1. DOMAIN branch'[w] = {} /\ n \in walk'[w].cached
    BY <1>2, <1>3, <1>7 DEF Recovers
  <2>2. n \in Nodes
    BY <1>2, <1>7, <1>1, StepKeepsVariables DEF Variables
  <2>3. fired[w][n] = 0
    BY <1>7, <2>2 DEF FreshInv, Recovers
  <2> QED BY <1>7, <2>1, <2>3 DEF Recovers
<1> QED BY <1>1, <1>5, <1>6, <1>7 DEF UseOf

(* A walk through a structured graph comes to every node at most once,     *)
(* and uses what the checkpoint had when it comes to it.                   *)
THEOREM WalksOnce == Spec => [](FreshInv /\ OnceInv /\ ResumeInv)
<1>1. ASSUME Init
      PROVE  FreshInv /\ OnceInv /\ ResumeInv
  <2>1. /\ basis = [w \in Walks |-> {}] /\ taken = [w \in Walks |-> {}] /\ fired = [w \in Walks |-> [n \in Nodes |-> 0]]
        /\ branch = [w \in Walks |-> <<>>] /\ graph \in Graphs
    BY <1>1 DEF Init
  <2>2. FreshInv
    BY <2>1 DEF FreshInv
  <2>3. ASSUME graph \in StructuredGraphs, NEW w \in Walks
        PROVE  OnceOK(graph, branch[w], taken[w])
    <3>1. taken[w] = {} /\ DOMAIN branch[w] = {}
      BY <2>1
    <3>2. IsGraph(graph) /\ Structured(graph)
      BY <2>1, <2>3, GraphsAssumption DEF StructuredGraphs
    <3>3. OnceOK(graph, Beginning(graph), {})
      BY <3>2, BeginsOnce
    <3>4. OnceOK(graph, branch[w], {})
      BY <3>1, <3>2, <3>3, QuietKeepsOnce
    <3> QED BY <3>1, <3>4
  <2>4. ResumeInv
    BY <2>1 DEF ResumeInv, ResumeOK
  <2> QED BY <2>2, <2>3, <2>4 DEF OnceInv
<1>2. ASSUME ShapeInv, WalksInv, TreeInv, FreshInv, OnceInv, ResumeInv, [Next]_vars
      PROVE  (FreshInv /\ OnceInv /\ ResumeInv)'
  BY <1>2, StepKeepsFresh, StepKeepsOnce, StepKeepsResume
<1> QED BY <1>1, <1>2, WorkflowInvariant, PTL DEF Spec

(* What a resumed walk found in its checkpoint it does not execute again   *)
(* (consumeResumed), however many walks there have been, and whatever      *)
(* failed or was cancelled, where no loop leads back to it.                *)
THEOREM ResumedOnce == Spec => []ResumedNotRerun
<1>1. ResumeInv => ResumedNotRerun
  BY DEF ResumeInv, ResumeOK, ResumedNotRerun
<1> QED BY <1>1, WalksOnce, PTL

-----------------------------------------------------------------------------
(* Part 8: a walk that ends well has come to every required node *)

(* Whatever is queued, one of `on` is, until it is n. *)
LeadsOn(g, n, on) ==
  /\ Start(g) \in on
  /\ \A m \in on \ {n} :
       \/ \A next \in Options(g, m) : Range(next) \cap on # {}
       \/ m \in Parallel(g) /\ Range(Branches(g, m)) \cap on # {}

(* The walk has come to n, or is on the way: one of `on` is queued, worked *)
(* on, or a join that a parallel node is going to queue.                   *)
Coming(g, br, tk, n, on) ==
  \/ n \in tk
  \/ \E b \in DOMAIN br :
       \/ \E i \in DOMAIN br[b].queue : br[b].queue[i] \in on
       \/ br[b].at \in {"visit", "busy"} /\ br[b].node \in on
       \/ br[b].at = "fork" /\ SectionJoins(g, br[b].node) \cap on # {}

(* In a section whose nodes have one successor a branch has one node to go *)
(* to, or joins that it leaves to the root.                                *)
NarrowOK(g, br) ==
  \A b \in DOMAIN br : b # <<>> =>
    /\ br[b].at \in {"visit", "busy", "fork"} => br[b].queue = <<>>
    /\ Len(br[b].queue) <= 1 \/ \A i \in DOMAIN br[b].queue : g.kind[br[b].queue[i]] = "join"

(* One row changes and stays narrow. *)
LEMMA RowKeepsNarrow ==
  ASSUME NEW g, NEW br, NarrowOK(g, br), NEW b \in DOMAIN br, NEW r,
         b # <<>> => /\ r.at \in {"visit", "busy", "fork"} => r.queue = <<>>
                     /\ Len(r.queue) <= 1 \/ \A i \in DOMAIN r.queue : g.kind[r.queue[i]] = "join"
  PROVE  NarrowOK(g, [br EXCEPT ![b] = r])
BY DEF NarrowOK

(* A step of a branch keeps the queues of a narrow section so. *)
LEMMA MoveKeepsNarrow ==
  ASSUME NEW g, IsGraph(g), Narrow(g), NEW br, BranchesOK(g, br), TreeOK(g, br), NarrowOK(g, br),
         NEW b \in DOMAIN br, NEW new, NEW tk, NEW tkn, NEW lost, BranchMove(g, br, new, tk, tkn, b, lost)
  PROVE  NarrowOK(g, new)
<1> DEFINE D == DOMAIN g.kind
           r == br[b]
           p == r.node
           f == br[Front(b)].node
<1>1. /\ r \in BranchRows(g) /\ r.queue \in Seq(D) /\ p \in D
      /\ r = [at |-> r.at, queue |-> r.queue, node |-> r.node, stop |-> r.stop, copy |-> r.copy]
      /\ DOMAIN r.queue = 1..Len(r.queue) /\ Len(r.queue) \in Nat
  <2>1. r \in BranchRows(g)
    BY DEF BranchesOK
  <2>2. r.queue \in Seq(D)
    BY <2>1 DEF BranchRows
  <2> QED BY <2>1, <2>2, LenProperties DEF BranchRows
<1>2. b # <<>> =>
        /\ r.at \in {"visit", "busy", "fork"} => r.queue = <<>>
        /\ Len(r.queue) <= 1 \/ \A i \in DOMAIN r.queue : g.kind[r.queue[i]] = "join"
        /\ f \in Parallel(g) /\ r.stop = SectionJoins(g, f)
        /\ \A i \in DOMAIN r.queue : r.queue[i] \in Section(g, f)
        /\ r.at # "head" => p \in Inside(g, f)
  BY DEF NarrowOK, TreeOK, BelowParent
<1>3. CASE Ends(br, new, tk, tkn, b, lost)
  BY <1>3 DEF Ends, Restrict, NarrowOK
<1>4. CASE Takes(br, new, tk, tkn, b)
  <2> DEFINE row == [r EXCEPT !.at = "visit", !.node = Head(r.queue), !.queue = Tail(r.queue)]
  <2>1. row.at = "visit" /\ row.queue = Tail(r.queue) /\ new = [br EXCEPT ![b] = row]
    BY <1>1, <1>4 DEF Takes
  <2>2. /\ Head(r.queue) = r.queue[1] /\ 1 \in DOMAIN r.queue /\ Head(r.queue) \notin r.stop
        /\ Len(Tail(r.queue)) = Len(r.queue) - 1 /\ Tail(r.queue) \in Seq(D)
    BY <1>1, <1>4, QueueParts DEF Takes
  <2> HIDE DEF row, r, p, f
  <2>3. b # <<>> => Len(r.queue) <= 1
    BY <1>2, <2>2 DEF SectionJoins
  <2>4. b # <<>> => Len(Tail(r.queue)) = 0
    <3>1. \A k \in Nat : k <= 1 /\ 1 \in 1..k => k - 1 = 0
      OBVIOUS
    <3> QED BY <1>1, <2>2, <2>3, <3>1
  <2>5. b # <<>> => row.queue = <<>>
    BY <2>1, <2>2, <2>4, EmptySeq
  <2>6. Len(<<>>) = 0
    OBVIOUS
  <2>7. NarrowOK(g, [br EXCEPT ![b] = row])
    BY <2>5, <2>6, RowKeepsNarrow
  <2> QED BY <2>1, <2>7
<1>5. CASE Moves(g, br, new, tk, tkn, b)
  <2>1. PICK at, copy : /\ new = [br EXCEPT ![b] = [r EXCEPT !.at = at, !.copy = copy]]
                        /\ at \in {"visit", "busy", "fork"} => r.at = "visit"
    BY <1>5 DEF Moves
  <2> DEFINE row == [r EXCEPT !.at = at, !.copy = copy]
  <2>2. row.at = at /\ row.queue = r.queue
    BY <1>1
  <2> HIDE DEF row, r, p, f
  <2>3. NarrowOK(g, [br EXCEPT ![b] = row])
    BY <1>2, <2>1, <2>2, RowKeepsNarrow
  <2> QED BY <2>1, <2>3 DEF row
<1>6. CASE Queues(g, br, new, tk, tkn, b)
  <2>1. PICK next \in Options(g, p) : new = [br EXCEPT ![b] = Completed(r, next)]
    BY <1>6 DEF Queues
  <2> DEFINE row == Completed(r, next)
  <2>2. row.at = "copy" /\ row.queue = r.queue \o next
    BY <1>1 DEF Completed
  <2>3. /\ r.at \in {"visit", "busy", "fork"}
        /\ p \notin Parallel(g) \/ (r.at = "fork" /\ p \in Parallel(g))
    BY <1>6 DEF Queues, TreeOK
  <2>4. next \in Seq(D)
    BY <1>1, <2>1, OptionsLead
  <2> HIDE DEF row, r, p, f
  <2>5. b # <<>> => row.queue = next
    BY <1>2, <2>2, <2>3, <2>4, ConcatEmptySeq
  <2>6. ASSUME b # <<>>
        PROVE  Len(next) <= 1 \/ \A i \in DOMAIN next : g.kind[next[i]] = "join"
    <3>1. CASE p \in Parallel(g)
      <4>1. next = Sorted(SectionJoins(g, p))
        BY <1>1, <2>1, <3>1, OptionsLead
      <4>2. \A i \in DOMAIN next : next[i] \in SectionJoins(g, p)
        BY <4>1, JoinsOfSection DEF Range
      <4> QED BY <4>2 DEF SectionJoins
    <3>2. CASE p \notin Parallel(g)
      <4>1. f \in Parallel(g) /\ p \in Inside(g, f)
        BY <1>2, <2>3, <2>6
      <4> QED BY <2>1, <3>2, <4>1 DEF Narrow
    <3> QED BY <3>1, <3>2
  <2>7. NarrowOK(g, [br EXCEPT ![b] = row])
    BY <2>2, <2>5, <2>6, RowKeepsNarrow
  <2> QED BY <2>1, <2>7 DEF row
<1>7. CASE Forks(g, br, new, tk, tkn, b)
  <2>1. ForkedFrom(g, br, new, b)
    BY <1>7, StartedAre
  <2>2. ASSUME NEW c \in Started(g, br, b)
        PROVE  new[c].at = "head" /\ Len(new[c].queue) = 1
    <3>1. PICK i \in DOMAIN Branches(g, p) : c = Append(b, i)
      BY DEF Started
    <3>2. new[c] = NewBranch(Branches(g, p)[i], SectionJoins(g, p))
      BY <2>1, <3>1 DEF ForkedFrom
    <3> QED BY <3>2 DEF NewBranch
  <2>3. Forking(r).at = "fork" /\ Forking(r).queue = r.queue /\ r.at = "visit"
    BY <1>1, <1>7 DEF Forking, Forks
  <2>4. ASSUME NEW c \in DOMAIN br \ Started(g, br, b)
        PROVE  new[c].queue = br[c].queue /\ (new[c].at = br[c].at \/ (c = b /\ br[b].at = "visit"))
    BY <2>1, <2>3 DEF ForkedFrom
  <2>5. DOMAIN new = Started(g, br, b) \cup DOMAIN br
    BY <2>1 DEF ForkedFrom
  <2> HIDE DEF r, p, f
  <2>6. ASSUME NEW c \in DOMAIN new, c # <<>>
        PROVE  /\ new[c].at \in {"visit", "busy", "fork"} => new[c].queue = <<>>
               /\ Len(new[c].queue) <= 1 \/ \A i \in DOMAIN new[c].queue : g.kind[new[c].queue[i]] = "join"
    <3>1. CASE c \in Started(g, br, b)
      <4>1. new[c].at = "head" /\ Len(new[c].queue) = 1 /\ 1 <= 1
        BY <2>2, <3>1
      <4> QED BY <4>1
    <3>2. CASE c \in DOMAIN br \ Started(g, br, b)
      BY <2>4, <2>6, <3>2 DEF NarrowOK
    <3> QED BY <2>5, <3>1, <3>2
  <2> QED BY <2>6 DEF NarrowOK
<1> QED BY <1>3, <1>4, <1>5, <1>6, <1>7 DEF BranchMove

(* A step of a branch that loses nothing leaves a walk on its way to n. *)
LEMMA MoveKeepsComing ==
  ASSUME NEW g, IsGraph(g), NEW br, BranchesOK(g, br), TreeOK(g, br), NarrowOK(g, br), NEW b \in DOMAIN br,
         NEW new, NEW tk, NEW tkn, NEW lost, BranchMove(g, br, new, tk, tkn, b, lost), ~lost, WorkedOnce(br, tk),
         NEW n, NEW on, LeadsOn(g, n, on), Coming(g, br, tk, n, on)
  PROVE  Coming(g, new, tkn, n, on)
<1> DEFINE D == DOMAIN g.kind
           r == br[b]
           p == r.node
           Shows(c) == \/ \E i \in DOMAIN new[c].queue : new[c].queue[i] \in on
                       \/ new[c].at \in {"visit", "busy"} /\ new[c].node \in on
                       \/ new[c].at = "fork" /\ SectionJoins(g, new[c].node) \cap on # {}
<1>1. /\ r \in BranchRows(g) /\ r.queue \in Seq(D) /\ p \in D
      /\ r = [at |-> r.at, queue |-> r.queue, node |-> p, stop |-> r.stop, copy |-> r.copy]
      /\ DOMAIN r.queue = 1..Len(r.queue) /\ Len(r.queue) \in Nat
  <2>1. r \in BranchRows(g)
    BY DEF BranchesOK
  <2>2. r.queue \in Seq(D)
    BY <2>1 DEF BranchRows
  <2> QED BY <2>1, <2>2, LenProperties DEF BranchRows
<1>2. tk \subseteq tkn
  BY DEF BranchMove, Ends, Takes, Moves, Queues, Forks
<1>3. ASSUME NEW c \in DOMAIN new, Shows(c)
      PROVE  Coming(g, new, tkn, n, on)
  BY <1>3 DEF Coming
<1>4. CASE n \in tk
  BY <1>2, <1>4 DEF Coming
<1>5. ASSUME NEW c \in DOMAIN br, c # b,
             \/ \E i \in DOMAIN br[c].queue : br[c].queue[i] \in on
             \/ br[c].at \in {"visit", "busy"} /\ br[c].node \in on
             \/ br[c].at = "fork" /\ SectionJoins(g, br[c].node) \cap on # {}
      PROVE  Coming(g, new, tkn, n, on)
  <2>1. c \in DOMAIN new /\ new[c] = br[c]
    <3>1. CASE Ends(br, new, tk, tkn, b, lost)
      BY <1>5, <3>1 DEF Ends, Restrict
    <3>2. CASE Takes(br, new, tk, tkn, b) \/ Moves(g, br, new, tk, tkn, b) \/ Queues(g, br, new, tk, tkn, b)
      BY <1>5, <3>2 DEF Takes, Moves, Queues
    <3>3. CASE Forks(g, br, new, tk, tkn, b)
      <4>1. ForkedFrom(g, br, new, b)
        BY <3>3, StartedAre
      <4>2. c \notin Started(g, br, b)
        <5>1. CASE c = <<>>
          BY <4>1, <5>1 DEF ForkedFrom
        <5>2. CASE c # <<>>
          BY <3>3, <4>1, <5>2 DEF ForkedFrom, TreeOK, BelowParent, Forks
        <5> QED BY <5>1, <5>2
      <4> QED BY <1>5, <4>1, <4>2 DEF ForkedFrom
    <3> QED BY <3>1, <3>2, <3>3 DEF BranchMove
  <2>2. Shows(c)
    BY <1>5, <2>1
  <2> HIDE DEF Shows
  <2> QED BY <1>3, <2>1, <2>2
<1> HIDE DEF Shows
<1>6. CASE /\ n \notin tk
           /\ \/ \E i \in DOMAIN r.queue : r.queue[i] \in on
              \/ r.at \in {"visit", "busy"} /\ p \in on
              \/ r.at = "fork" /\ SectionJoins(g, p) \cap on # {}
  <2>1. r.at \in {"visit", "busy"} /\ p \in on =>
          /\ \/ \A next \in Options(g, p) : Range(next) \cap on # {}
             \/ p \in Parallel(g) /\ Range(Branches(g, p)) \cap on # {}
    BY <1>6 DEF LeadsOn, WorkedOnce
  <2>2. CASE Ends(br, new, tk, tkn, b, lost)
    <3>1. r.at = "head" /\ r.queue # <<>> /\ Head(r.queue) \in r.stop
      BY <1>1, <1>6, <2>2, EmptySeq DEF Ends
    <3>2. PICK i \in DOMAIN r.queue : r.queue[i] \in on
      BY <1>6, <3>1
    <3> DEFINE u == Front(b)
               f == br[u].node
    <3>3. b # <<>> /\ BelowParent(g, br, b)
      BY <3>1 DEF TreeOK
    <3>4. /\ u \in DOMAIN br /\ br[u].at = "fork" /\ u # b /\ r.stop = SectionJoins(g, f)
          /\ r.queue[i] \in Section(g, f)
      BY <3>1, <3>3 DEF BelowParent
    <3> HIDE DEF u, f
    <3>5. g.kind[r.queue[i]] = "join"
      <4>1. Head(r.queue) = r.queue[1]
        BY <1>1, <3>1, QueueParts
      <4>2. CASE Len(r.queue) <= 1
        <5>1. i = 1
          BY <1>1, <3>2, <4>2
        <5> QED BY <3>1, <3>4, <4>1, <5>1 DEF SectionJoins
      <4> QED BY <3>2, <3>3, <4>2 DEF NarrowOK
    <3>6. u \in DOMAIN new /\ new[u] = br[u]
      BY <2>2, <3>4 DEF Ends, Restrict
    <3>7. SectionJoins(g, new[u].node) \cap on # {}
      BY <3>2, <3>4, <3>5, <3>6 DEF SectionJoins, f
    <3> QED BY <1>3, <3>4, <3>6, <3>7 DEF Shows
  <2>3. CASE Takes(br, new, tk, tkn, b)
    <3> DEFINE row == [r EXCEPT !.at = "visit", !.node = Head(r.queue), !.queue = Tail(r.queue)]
    <3>1. /\ row.at = "visit" /\ row.node = Head(r.queue) /\ row.queue = Tail(r.queue)
          /\ new = [br EXCEPT ![b] = row] /\ r.at = "head" /\ r.queue # <<>>
      BY <1>1, <2>3 DEF Takes
    <3>2. new[b] = row /\ b \in DOMAIN new
      BY <3>1
    <3>3. PICK i \in DOMAIN r.queue : r.queue[i] \in on
      BY <1>6, <3>1
    <3>4. /\ Head(r.queue) = r.queue[1]
          /\ i # 1 => i - 1 \in DOMAIN Tail(r.queue) /\ Tail(r.queue)[i - 1] = r.queue[i]
      BY <1>1, <3>1, QueueParts
    <3> HIDE DEF row, r
    <3>5. Shows(b)
      BY <3>1, <3>2, <3>3, <3>4 DEF Shows
    <3> QED BY <1>3, <3>2, <3>5
  <2>4. CASE Moves(g, br, new, tk, tkn, b)
    <3>1. PICK at, copy :
            /\ new = [br EXCEPT ![b] = [r EXCEPT !.at = at, !.copy = copy]] /\ r.at # "fork"
            /\ r.at \in {"visit", "busy"} =>
                 at = "busy" \/ (p \notin Parallel(g) /\ <<>> \in Options(g, p))
      BY <2>4 DEF Moves
    <3> DEFINE row == [r EXCEPT !.at = at, !.copy = copy]
    <3>2. row.at = at /\ row.node = p /\ row.queue = r.queue
      BY <1>1
    <3>3. new[b] = row /\ b \in DOMAIN new
      BY <3>1
    <3>4. Range(<<>>) = {}
      BY DEF Range
    <3> HIDE DEF row, r, p
    <3>5. Shows(b)
      BY <1>6, <2>1, <3>1, <3>2, <3>3, <3>4 DEF Shows
    <3> QED BY <1>3, <3>3, <3>5
  <2>5. CASE Queues(g, br, new, tk, tkn, b)
    <3>1. PICK next \in Options(g, p) : new = [br EXCEPT ![b] = Completed(r, next)]
      BY <2>5 DEF Queues
    <3> DEFINE row == Completed(r, next)
    <3>2. row.queue = r.queue \o next /\ new[b] = row /\ b \in DOMAIN new
      BY <1>1, <3>1 DEF Completed
    <3>3. p \notin Parallel(g) \/ (r.at = "fork" /\ p \in Parallel(g))
      BY <2>5 DEF Queues, TreeOK
    <3>4. next \in Seq(D)
      BY <1>1, <3>1, OptionsLead
    <3>5. /\ \A i \in DOMAIN r.queue : i \in DOMAIN (r.queue \o next) /\ (r.queue \o next)[i] = r.queue[i]
          /\ \A k \in DOMAIN next : /\ Len(r.queue) + k \in DOMAIN (r.queue \o next)
                                    /\ (r.queue \o next)[Len(r.queue) + k] = next[k]
      BY <1>1, <3>4, QueueAppended
    <3>6. r.at = "fork" => Range(next) = SectionJoins(g, p)
      <4>1. r.at = "fork" => p \in Parallel(g)
        BY DEF TreeOK
      <4> QED BY <1>1, <3>1, <4>1, OptionsLead, JoinsOfSection
    <3> HIDE DEF row, r, p
    <3>7. \/ \E i \in DOMAIN r.queue : r.queue[i] \in on
          \/ Range(next) \cap on # {}
      BY <1>6, <2>1, <3>1, <3>3, <3>6
    <3>8. \E i \in DOMAIN row.queue : row.queue[i] \in on
      BY <3>2, <3>5, <3>7 DEF Range
    <3> QED BY <1>3, <3>2, <3>8 DEF Shows
  <2>6. CASE Forks(g, br, new, tk, tkn, b)
    <3>1. ForkedFrom(g, br, new, b) /\ r.at = "visit" /\ p \in Parallel(g)
      BY <2>6, StartedAre DEF Forks
    <3>2. b \notin Started(g, br, b) /\ b \in DOMAIN new /\ new[b] = Forking(r)
      BY <3>1 DEF ForkedFrom
    <3>3. new[b].at = "fork" /\ new[b].node = p /\ new[b].queue = r.queue
      BY <1>1, <3>2 DEF Forking
    <3>4. \A next \in Options(g, p) : Range(next) = SectionJoins(g, p)
      BY <1>1, <3>1, OptionsLead, JoinsOfSection
    <3>5. Options(g, p) # {}
      BY <3>1 DEF Options, Parallel
    <3>6. CASE \E i \in DOMAIN r.queue : r.queue[i] \in on
      BY <1>3, <3>2, <3>3, <3>6 DEF Shows
    <3>7. CASE SectionJoins(g, p) \cap on # {}
      BY <1>3, <3>2, <3>3, <3>7 DEF Shows
    <3>8. CASE Range(Branches(g, p)) \cap on # {}
      <4>1. PICK i \in DOMAIN Branches(g, p) : Branches(g, p)[i] \in on
        BY <3>8 DEF Range
      <4>2. /\ new[Append(b, i)] = NewBranch(Branches(g, p)[i], SectionJoins(g, p))
            /\ Append(b, i) \in DOMAIN new
        BY <3>1 DEF ForkedFrom, Started
      <4>3. new[Append(b, i)].queue = <<Branches(g, p)[i]>>
        BY <4>2 DEF NewBranch
      <4>4. \A x : 1 \in DOMAIN <<x>> /\ <<x>>[1] = x
        OBVIOUS
      <4>5. \E k \in DOMAIN new[Append(b, i)].queue : new[Append(b, i)].queue[k] \in on
        BY <4>1, <4>3, <4>4
      <4> QED BY <1>3, <4>2, <4>5 DEF Shows
    <3> QED BY <1>6, <2>1, <3>1, <3>4, <3>5, <3>6, <3>7, <3>8
  <2> QED BY <2>2, <2>3, <2>4, <2>5, <2>6 DEF BranchMove
<1> QED BY <1>4, <1>5, <1>6 DEF Coming


-----------------------------------------------------------------------------
(* Part 9: what a success has had done, when nothing overlaps *)

(* The sub-run of n has succeeded. *)
Achieved(n) == sub[n] = "success" /\ \E w \in Walks : fired[w][n] > 0

(* A walk under way: an output is there of no node that is worked on, and  *)
(* of every agent that is done with, unless the walk has failed; what is   *)
(* to be written was there; who works has not found an output.             *)
HeldOK(w) ==
  /\ walk[w].out \subseteq taken[w]
  /\ \A b \in DOMAIN branch[w] :
       /\ branch[w][b].at \in {"visit", "busy"} => branch[w][b].node \notin walk[w].out
       /\ branch[w][b].at = "write" => branch[w][b].copy.out \subseteq walk[w].out
       /\ branch[w][b].at = "busy" => branch[w][b].node \notin walk[w].cached
  /\ walk[w].marked \/ \A n \in taken[w] : Kind(n) \in SubKinds =>
       \/ n \in walk[w].out
       \/ \E b \in DOMAIN branch[w] : branch[w][b].node = n /\ branch[w][b].at \in {"visit", "busy"}

(* It is on its way to whatever must be come to, unless it has failed. *)
ComingOK(w) ==
  Narrow(graph) =>
    /\ NarrowOK(graph, branch[w])
    /\ walk[w].marked \/ \A n \in Nodes, on \in SUBSET Nodes :
         LeadsOn(graph, n, on) => Coming(graph, branch[w], taken[w], n, on)

HeldInv ==
  graph \in StructuredGraphs =>
    \A w \in Walks : /\ walk[w].at \in {"off", "new"} => walk[w].out = {}
                     /\ walk[w].at = "walking" => HeldOK(w) /\ ComingOK(w)

(* There is one walk at a time, beside no recovery. *)
AloneInv ==
  /\ \A w \in Walks :
       /\ walk[w].at = "off" => walk[w] = Asleep
       /\ walk[w].at # "off" => w = walks /\ recovery = "idle"
       /\ walk[w].at \in {"new", "walking"} => status # "success"
       /\ walk[w].ctx => touched
  /\ recovery = "listed" => status # "success"
  /\ cancelling => touched

(* An agent that is waited for has a run. *)
RunsOK(w) ==
  \A b \in DOMAIN branch[w] : branch[w][b].at = "busy" =>
    /\ fired[w][branch[w][b].node] > 0
    /\ Kind(branch[w][b].node) \in SubKinds => touched \/ sub[branch[w][b].node] # "none"

(* The checkpoint has no more than the walk; what is there of an agent was *)
(* achieved; and so was all that is required of a success.                 *)
AchievedInv ==
  graph \in StructuredGraphs =>
    /\ \A w \in Walks :
         /\ walk[w].at = "walking" => RunsOK(w)
         /\ walk[w].at \in {"new", "walking"} => checkpoint.out \subseteq walk[w].out \cup walk[w].cached
         /\ touched \/ \A n \in walk[w].out \cup walk[w].cached : Kind(n) \in SubKinds => Achieved(n)
    /\ touched \/ \A n \in checkpoint.out : Kind(n) \in SubKinds => Achieved(n)
    /\ status = "success" /\ ~touched => \A n \in Required(graph) : Achieved(n)

(* What a step of b does to the outputs and the sub-runs.  Nothing;        *)
Quiet(w, b) ==
  LET r == branch[w][b]
  IN  /\ sub' = sub /\ fired' = fired /\ touched' = touched
      /\ walk'[w].out = walk[w].out /\ walk'[w].cached = walk[w].cached
      /\ r.at \notin {"visit", "busy"} \/ Kind(r.node) \notin SubKinds
      /\ b \in DOMAIN branch'[w] =>
           /\ branch'[w][b].at # "busy"
           /\ branch'[w][b].at = "write" => branch'[w][b].copy.out \subseteq walk[w].out
      /\ checkpoint' = checkpoint \/ (r.at = "write" /\ checkpoint' = r.copy)

(* it adds an output that is of no agent, or was there;                    *)
Passes(w, b) ==
  LET r == branch[w][b]
      n == r.node
  IN  /\ sub' = sub /\ touched' = touched /\ checkpoint' = checkpoint
      /\ fired' = fired \/ fired' = [fired EXCEPT ![w][n] = @ + 1]
      /\ r.at = "visit" /\ branch'[w][b].at = "copy"
      /\ walk'[w].out = walk[w].out \cup {n}
      /\ \/ Kind(n) \notin SubKinds /\ walk'[w].cached = walk[w].cached
         \/ n \in walk[w].cached /\ walk'[w].cached = walk[w].cached \ {n} /\ fired' = fired

(* it starts a run;                                                        *)
Starts(w, b) ==
  LET r == branch[w][b]
      n == r.node
  IN  /\ touched' = touched /\ checkpoint' = checkpoint
      /\ fired' = [fired EXCEPT ![w][n] = @ + 1]
      /\ r.at = "visit" /\ branch'[w][b].at = "busy" /\ branch'[w][b].node = n /\ b \in DOMAIN branch'[w]
      /\ walk'[w].out = walk[w].out /\ walk'[w].cached = walk[w].cached /\ n \notin walk[w].cached
      /\ \A m \in Nodes \ {n} : sub'[m] = sub[m]
      /\ Kind(n) \in SubKinds => walk[w].ctx \/ sub'[n] # "none"

(* or takes the result of one.                                             *)
Reads(w, b) ==
  LET r == branch[w][b]
      n == r.node
  IN  /\ fired' = fired /\ checkpoint' = checkpoint
      /\ r.at = "busy" /\ walk'[w].cached = walk[w].cached
      /\ \A m \in Nodes \ {n} : sub'[m] = sub[m]
      /\ \/ walk'[w].out = walk[w].out /\ walk'[w].marked = TRUE /\ b \notin DOMAIN branch'[w]
         \/ /\ walk'[w].out = walk[w].out \cup {n} /\ branch'[w][b].at = "copy"
            /\ \/ Kind(n) \notin SubKinds
               \/ sub[n] = "none"
               \/ touched'
               \/ sub'[n] = "success"

Acts(w, b) ==
  /\ walks' = walks /\ recovery' = recovery /\ cancelling' = cancelling /\ walk'[w].ctx = walk[w].ctx
  /\ status' = status \/ status' = FailRun(status)
  /\ touched => touched'
  /\ walk[w].marked => walk'[w].marked
  /\ Quiet(w, b) \/ Passes(w, b) \/ Starts(w, b) \/ Reads(w, b)

(* What the steps of a branch do. *)
LEMMA BranchStepActs ==
  ASSUME ShapeInv, TreeInv, NEW w \in Walks, NEW b \in DOMAIN branch[w], BranchStep(w, b)
  PROVE  Acts(w, b)
<1> USE DEF constVars, histVars, dbVars
<1> DEFINE r == branch[w][b]
           n == r.node
<1>1. /\ walk \in [Walks -> WalkRows(graph)] /\ walk[w] \in WalkRows(graph)
      /\ DOMAIN branch = Walks /\ fired \in [Walks -> [Nodes -> Nat]]
      /\ sub \in [Nodes -> {"none", "running", "success", "failed", "cancelled"}]
      /\ r = [at |-> r.at, queue |-> r.queue, node |-> n, stop |-> r.stop, copy |-> r.copy] /\ n \in Nodes
      /\ branch[w] = [c \in DOMAIN branch[w] |-> branch[w][c]]
      /\ touched \in BOOLEAN
  BY DEF ShapeInv, BranchesOK, BranchRows, Nodes
<1>2. ASSUME NEW row, Put(w, b, row)
      PROVE  branch'[w][b] = row /\ DOMAIN branch'[w] = DOMAIN branch[w]
  BY <1>1, <1>2 DEF Put, With
<1>3. ASSUME EndBranch(w, b)
      PROVE  b \notin DOMAIN branch'[w]
  BY <1>1, <1>3 DEF EndBranch, Restrict
<1>6. \A next : Completed(r, next).at = "copy"
  BY <1>1 DEF Completed
<1>7. ASSUME NEW next, Put(w, b, Completed(r, next))
      PROVE  branch'[w][b].at = "copy"
  BY <1>2, <1>6, <1>7
<1>8. ASSUME NEW copy
      PROVE  /\ [r EXCEPT !.at = "write", !.copy = copy].at = "write"
             /\ [r EXCEPT !.at = "write", !.copy = copy].copy = copy
             /\ [r EXCEPT !.at = "head", !.copy = copy].at = "head"
  BY <1>1
<1>4. /\ r.at = "fork" => Kind(n) \notin SubKinds
      /\ r.at = "busy" => Kind(n) \in Resumable
  BY DEF TreeInv, TreeOK, Kind, Parallel, SubKinds
<1>5. ASSUME UNCHANGED <<walk, walks, recovery, cancelling, status, touched>> PROVE
        /\ walks' = walks /\ recovery' = recovery /\ cancelling' = cancelling /\ walk'[w].ctx = walk[w].ctx
        /\ status' = status \/ status' = FailRun(status)
        /\ touched => touched'
        /\ walk[w].marked => walk'[w].marked
  BY <1>5
<1>10. CASE BranchEnds(w, b)
  <2>1. Quiet(w, b)
    BY <1>3, <1>10 DEF BranchEnds, At, Quiet
  <2> QED BY <1>5, <1>10, <2>1 DEF BranchEnds, Acts
<1>11. CASE AbortWalk(w, b)
  <2>1. /\ walk'[w].out = walk[w].out /\ walk'[w].cached = walk[w].cached /\ walk'[w].marked = TRUE
        /\ walk'[w].ctx = walk[w].ctx
    BY <1>1, <1>11 DEF AbortWalk, WalkRows
  <2>2. Quiet(w, b)
    BY <1>3, <1>11, <2>1 DEF AbortWalk, Ready, At, Quiet
  <2> QED BY <1>11, <2>1, <2>2 DEF AbortWalk, Acts
<1>12. CASE TakeNode(w, b)
  <2>1. /\ walk'[w].out = walk[w].out /\ walk'[w].cached = walk[w].cached /\ walk'[w].marked = walk[w].marked
        /\ walk'[w].ctx = walk[w].ctx
    BY <1>1, <1>12 DEF TakeNode, WalkRows
  <2>2. b \in DOMAIN branch'[w] => branch'[w][b].at = "visit"
    <3>1. CASE HandedOff(w, b)
      BY <1>3, <1>12, <3>1 DEF TakeNode
    <3>2. CASE ~HandedOff(w, b)
      <4> DEFINE row == [r EXCEPT !.at = "visit", !.node = Head(r.queue), !.queue = Tail(r.queue)]
      <4>1. Put(w, b, row)
        BY <1>12, <3>2 DEF TakeNode
      <4>2. row.at = "visit"
        BY <1>1
      <4> HIDE DEF row
      <4> QED BY <1>2, <4>1, <4>2
    <3> QED BY <3>1, <3>2
  <2>3. Quiet(w, b)
    BY <1>12, <2>1, <2>2 DEF TakeNode, Ready, At, Quiet
  <2> QED BY <1>12, <2>1, <2>3 DEF TakeNode, Acts
<1>13. CASE StartNode(w, b) \/ JoinNode(w, b) \/ UnknownNode(w, b)
  <2>1. PICK kind \in {"start", "join", "tool"} : PassOn(w, b, kind)
    BY <1>13 DEF StartNode, JoinNode, UnknownNode
  <2>2. /\ walk'[w].out = walk[w].out \cup {n} /\ walk'[w].cached = walk[w].cached
        /\ walk'[w].marked = walk[w].marked /\ walk'[w].ctx = walk[w].ctx
    BY <1>1, <2>1 DEF PassOn, WalkRows
  <2>3. r.at = "visit" /\ Kind(n) \notin SubKinds /\ Put(w, b, Completed(r, Successors(graph, n)))
    BY <2>1 DEF PassOn, Visiting, At, SubKinds
  <2>4. branch'[w][b].at = "copy"
    BY <1>7, <2>3
  <2>5. Passes(w, b)
    BY <2>1, <2>2, <2>3, <2>4 DEF PassOn, Passes
  <2> QED BY <2>1, <2>2, <2>5 DEF PassOn, Acts
<1>14. CASE DeliverEnd(w, b)
  <2>2. /\ walk'[w].out = walk[w].out \cup {n} /\ walk'[w].cached = walk[w].cached
        /\ walk'[w].marked = walk[w].marked /\ walk'[w].ctx = walk[w].ctx
    BY <1>1, <1>14 DEF DeliverEnd, WalkRows
  <2>3. r.at = "visit" /\ Kind(n) \notin SubKinds /\ Put(w, b, Completed(r, <<>>))
    BY <1>14 DEF DeliverEnd, Visiting, At, SubKinds
  <2>4. branch'[w][b].at = "copy"
    BY <1>7, <2>3
  <2>5. Passes(w, b)
    BY <1>14, <2>2, <2>3, <2>4 DEF DeliverEnd, Passes
  <2> QED BY <1>14, <2>2, <2>5 DEF DeliverEnd, Acts
<1>15. CASE Reuse(w, b)
  <2>2. /\ walk'[w].out = walk[w].out \cup {n} /\ walk'[w].cached = walk[w].cached \ {n}
        /\ walk'[w].marked = walk[w].marked /\ walk'[w].ctx = walk[w].ctx
    BY <1>1, <1>15 DEF Reuse, WalkRows
  <2>3. r.at = "visit" /\ n \in walk[w].cached /\ Put(w, b, Completed(r, Successors(graph, n)))
    BY <1>15 DEF Reuse, Resumes, Visiting, At
  <2>4. branch'[w][b].at = "copy"
    BY <1>7, <2>3
  <2>5. Passes(w, b)
    BY <1>15, <2>2, <2>3, <2>4 DEF Reuse, Passes
  <2> QED BY <1>15, <2>2, <2>5 DEF Reuse, Acts
<1>16. CASE RunAgent(w, b) \/ Supervise(w, b) \/ CallWebhook(w, b) \/ SendMessage(w, b)
  <2>1. PICK kind \in Resumable : Execute(w, b, kind) /\ (StartSubRun(w, n) \/ (sub' = sub /\ kind \notin SubKinds))
    BY <1>16 DEF RunAgent, Supervise, CallWebhook, SendMessage, Resumable, SubKinds, EffectKinds
  <2>2. /\ r.at = "visit" /\ n \notin walk[w].cached /\ Kind(n) = kind /\ Put(w, b, [r EXCEPT !.at = "busy"])
        /\ fired' = [fired EXCEPT ![w][n] = @ + 1]
        /\ UNCHANGED <<status, checkpoint, recovery, walk, cancelling, walks, touched>>
    BY <2>1 DEF Execute, Resumes, Visiting, At
  <2>3. branch'[w][b].at = "busy" /\ branch'[w][b].node = n /\ b \in DOMAIN branch'[w]
    BY <1>1, <1>2, <2>2
  <2>4. /\ \A m \in Nodes \ {n} : sub'[m] = sub[m]
        /\ Kind(n) \in SubKinds => walk[w].ctx \/ sub'[n] # "none"
    BY <1>1, <2>1, <2>2 DEF StartSubRun
  <2>5. Starts(w, b)
    BY <2>2, <2>3, <2>4 DEF Starts
  <2> QED BY <1>5, <2>2, <2>5 DEF Acts
<1>17. CASE Return(w, b)
  <2>1. PICK o \in Outcomes(n) :
          /\ IF o = "cancelled" THEN Fault /\ touched' = TRUE ELSE UNCHANGED <<faults, touched>>
          /\ sub' = [sub EXCEPT ![n] = o]
          /\ IF FailsWorkflow(o)
             THEN /\ walk' = [walk EXCEPT ![w].marked = TRUE]
                  /\ status' = FailRun(status)
                  /\ EndBranch(w, b)
             ELSE /\ walk' = [walk EXCEPT ![w].out = @ \cup {n}]
                  /\ Put(w, b, Completed(branch[w][b], Successors(graph, n)))
                  /\ UNCHANGED status
    BY <1>17 DEF Return
  <2>2. /\ r.at = "busy"
        /\ UNCHANGED <<checkpoint, recovery, cancelling, walks, fired>>
    BY <1>17 DEF Return, At
  <2>3. (touched => touched') /\ \A m \in Nodes \ {n} : sub'[m] = sub[m]
    BY <1>1, <2>1
  <2>4. CASE FailsWorkflow(o)
    <3>1. /\ walk'[w].out = walk[w].out /\ walk'[w].cached = walk[w].cached /\ walk'[w].marked = TRUE
          /\ walk'[w].ctx = walk[w].ctx
      BY <1>1, <2>1, <2>4 DEF WalkRows
    <3>2. Reads(w, b)
      BY <1>3, <2>1, <2>2, <2>3, <2>4, <3>1 DEF Reads
    <3> QED BY <2>1, <2>2, <2>3, <2>4, <3>1, <3>2 DEF Acts
  <2>5. CASE ~FailsWorkflow(o)
    <3>1. /\ walk'[w].out = walk[w].out \cup {n} /\ walk'[w].cached = walk[w].cached
          /\ walk'[w].marked = walk[w].marked /\ walk'[w].ctx = walk[w].ctx
      BY <1>1, <2>1, <2>5 DEF WalkRows
    <3>2. branch'[w][b].at = "copy"
      BY <1>7, <2>1, <2>5
    <3>3. \/ Kind(n) \notin SubKinds \/ sub[n] = "none" \/ touched' \/ sub'[n] = "success"
      BY <1>1, <2>1, <2>5 DEF Outcomes, FailsWorkflow
    <3>4. Reads(w, b)
      BY <2>2, <2>3, <3>1, <3>2, <3>3 DEF Reads
    <3> QED BY <2>1, <2>2, <2>3, <2>5, <3>1, <3>4 DEF Acts
  <2> QED BY <2>4, <2>5
<1>18. CASE FollowRoute(w, b) \/ SkipNode(w, b)
  <2>1. PICK row : Put(w, b, row) /\ row.at \in {"head", "copy"}
    <3>1. [r EXCEPT !.at = "head"].at = "head" /\ \A next : Completed(r, next).at = "copy"
      BY <1>1 DEF Completed
    <3> QED BY <1>18, <3>1 DEF FollowRoute, SkipNode
  <2>2. Kind(n) \notin SubKinds
    BY <1>18 DEF FollowRoute, SkipNode, Visiting, SubKinds
  <2>3. Quiet(w, b)
    BY <1>2, <1>18, <2>1, <2>2 DEF FollowRoute, SkipNode, Quiet
  <2> QED BY <1>5, <1>18, <2>3 DEF FollowRoute, SkipNode, Acts
<1>19. CASE Loop(w, b)
  <2>1. /\ walk'[w].out = walk[w].out /\ walk'[w].cached = walk[w].cached /\ walk'[w].marked = walk[w].marked
        /\ walk'[w].ctx = walk[w].ctx
    BY <1>1, <1>19 DEF Loop, WalkRows
  <2>2. PICK next : Put(w, b, Completed(r, next))
    BY <1>19 DEF Loop
  <2>3. branch'[w][b].at = "copy" /\ Kind(n) \notin SubKinds
    BY <1>7, <1>19, <2>2 DEF Loop, Visiting, SubKinds
  <2>4. Quiet(w, b)
    BY <1>19, <2>1, <2>3 DEF Loop, Quiet
  <2> QED BY <1>19, <2>1, <2>4 DEF Loop, Acts
<1>20. CASE Fork(w, b)
  <2>1. Kind(n) \notin SubKinds
    BY <1>20 DEF Fork, Visiting, SubKinds
  <2>2. b \in DOMAIN branch'[w] => branch'[w][b].at \in {"head", "fork"}
    <3> DEFINE starts == Branches(graph, n)
               forked == {Append(b, i) : i \in DOMAIN starts}
    <3>1. branch' = [branch EXCEPT ![w] = [c \in DOMAIN branch[w] \cup forked |->
                       IF c \in forked THEN NewBranch(starts[Last(c)], SectionJoins(graph, n))
                       ELSE IF c = b THEN [branch[w][b] EXCEPT !.at = "fork"] ELSE branch[w][c]]]
      BY <1>20 DEF Fork
    <3>2. \A m, stop : NewBranch(m, stop).at = "head"
      BY DEF NewBranch
    <3>3. [r EXCEPT !.at = "fork"].at = "fork"
      BY <1>1
    <3> HIDE DEF starts, forked
    <3>4. branch'[w] = [c \in DOMAIN branch[w] \cup forked |->
                       IF c \in forked THEN NewBranch(starts[Last(c)], SectionJoins(graph, n))
                       ELSE IF c = b THEN [branch[w][b] EXCEPT !.at = "fork"] ELSE branch[w][c]]
      BY <1>1, <3>1
    <3> QED BY <3>2, <3>3, <3>4
  <2>3. Quiet(w, b)
    BY <1>20, <2>1, <2>2 DEF Fork, Quiet
  <2> QED BY <1>5, <1>20, <2>3 DEF Fork, Acts
<1>21. CASE Join(w, b)
  <2>1. branch'[w][b].at = "copy"
    BY <1>7, <1>21 DEF Join
  <2>2. Quiet(w, b)
    BY <1>4, <1>21, <2>1 DEF Join, At, Quiet
  <2> QED BY <1>5, <1>21, <2>2 DEF Join, Acts
<1>22. CASE CopyProgress(w, b)
  <2>1. branch'[w][b].at = "write" /\ branch'[w][b].copy.out = walk[w].out
    <3> DEFINE copy == [out |-> walk[w].out, iter |-> walk[w].iter]
               row == [r EXCEPT !.at = "write", !.copy = copy]
    <3>1. Put(w, b, row)
      BY <1>22 DEF CopyProgress
    <3>2. row.at = "write" /\ row.copy.out = walk[w].out
      BY <1>8
    <3> HIDE DEF row
    <3> QED BY <1>2, <3>1, <3>2
  <2>2. Quiet(w, b)
    BY <1>22, <2>1 DEF CopyProgress, At, Quiet
  <2> QED BY <1>5, <1>22, <2>2 DEF CopyProgress, Acts
<1>23. CASE WriteCheckpoint(w, b)
  <2>1. branch'[w][b].at = "head"
    <3> DEFINE row == [r EXCEPT !.at = "head", !.copy = NoCheckpoint]
    <3>1. Put(w, b, row)
      BY <1>23 DEF WriteCheckpoint
    <3>2. row.at = "head"
      BY <1>8
    <3> HIDE DEF row
    <3> QED BY <1>2, <3>1, <3>2
  <2>2. Quiet(w, b)
    BY <1>23, <2>1 DEF WriteCheckpoint, At, Quiet
  <2> QED BY <1>5, <1>23, <2>2 DEF WriteCheckpoint, Acts
<1> QED BY <1>10, <1>11, <1>12, <1>13, <1>14, <1>15, <1>16, <1>17, <1>18, <1>19, <1>20, <1>21, <1>22, <1>23
        DEF BranchStep

(* What a step leaves of the branches: the others as they are, new ones at *)
(* their beginning; and what a walk has come to, a branch works on.        *)
After(br, new, tk, tkn, b) ==
  /\ \A c \in DOMAIN br \ {b} : c \in DOMAIN new /\ new[c] = br[c]
  /\ \A c \in DOMAIN new \ DOMAIN br : new[c].at = "head"
  /\ b \in DOMAIN new => new[b].node = br[b].node \/ new[b].at = "visit"
  /\ \/ tkn = tk /\ (b \in DOMAIN new => new[b].at # "visit")
     \/ /\ br[b].at = "head" /\ b \in DOMAIN new /\ new[b].at = "visit"
        /\ new[b].node \notin tk /\ tkn = tk \cup {new[b].node}

LEMMA BranchesAfter ==
  ASSUME NEW g, IsGraph(g), Structured(g), NEW br, BranchesOK(g, br), TreeOK(g, br),
         NEW tk \in SUBSET DOMAIN g.kind, OnceOK(g, br, tk), NEW b \in DOMAIN br,
         NEW new, NEW tkn, NEW lost, BranchMove(g, br, new, tk, tkn, b, lost)
  PROVE  After(br, new, tk, tkn, b)
<1>1. br[b] = [at |-> br[b].at, queue |-> br[b].queue, node |-> br[b].node, stop |-> br[b].stop, copy |-> br[b].copy]
  BY DEF BranchesOK, BranchRows
<1>2. ASSUME NEW row, new = [br EXCEPT ![b] = row], row.node = br[b].node, row.at # "visit", tkn = tk
      PROVE  After(br, new, tk, tkn, b)
  BY <1>2 DEF After
<1>3. CASE Ends(br, new, tk, tkn, b, lost)
  <2>1. tkn = tk /\ b \notin DOMAIN new /\ (\A c \in DOMAIN br \ {b} : c \in DOMAIN new /\ new[c] = br[c])
        /\ DOMAIN new \subseteq DOMAIN br
    BY <1>3 DEF Ends, Restrict
  <2> QED BY <2>1 DEF After
<1>4. CASE Takes(br, new, tk, tkn, b)
  <2> DEFINE row == [br[b] EXCEPT !.at = "visit", !.node = Head(br[b].queue), !.queue = Tail(br[b].queue)]
  <2>1. /\ row.node = Head(br[b].queue) /\ row.at = "visit" /\ Head(br[b].queue) \notin tk
        /\ br[b].at = "head" /\ tkn = tk \cup {Head(br[b].queue)}
    BY <1>1, <1>4, TakeKeepsOnce DEF Takes
  <2>2. new = [br EXCEPT ![b] = row]
    BY <1>4 DEF Takes
  <2> HIDE DEF row
  <2> QED BY <2>1, <2>2 DEF After
<1>5. CASE Moves(g, br, new, tk, tkn, b)
  <2>1. PICK at, copy : new = [br EXCEPT ![b] = [br[b] EXCEPT !.at = at, !.copy = copy]] /\ at # "visit" /\ tkn = tk
    BY <1>5 DEF Moves
  <2> DEFINE row == [br[b] EXCEPT !.at = at, !.copy = copy]
  <2>2. row.at # "visit" /\ row.node = br[b].node
    BY <1>1, <2>1
  <2>3. new = [br EXCEPT ![b] = row]
    BY <2>1
  <2> HIDE DEF row
  <2> QED BY <1>2, <2>1, <2>2, <2>3
<1>6. CASE Queues(g, br, new, tk, tkn, b)
  <2>1. PICK next : new = [br EXCEPT ![b] = Completed(br[b], next)] /\ tkn = tk
    BY <1>6 DEF Queues
  <2>2. Completed(br[b], next).at # "visit" /\ Completed(br[b], next).node = br[b].node
    BY <1>1 DEF Completed
  <2> QED BY <1>2, <2>1, <2>2
<1>7. CASE Forks(g, br, new, tk, tkn, b)
  <2>1. ForkedFrom(g, br, new, b) /\ tkn = tk /\ br[b].at = "visit"
    BY <1>7, StartedAre DEF Forks
  <2>2. \A c \in Started(g, br, b) : new[c].at = "head"
    <3>1. \A i \in DOMAIN Branches(g, br[b].node) :
            new[Append(b, i)] = NewBranch(Branches(g, br[b].node)[i], SectionJoins(g, br[b].node))
      BY <2>1 DEF ForkedFrom
    <3>2. \A n, stop : NewBranch(n, stop).at = "head"
      BY DEF NewBranch
    <3> QED BY <3>1, <3>2 DEF Started
  <2>3. Forking(br[b]).at = "fork" /\ Forking(br[b]).node = br[b].node
    BY <1>1 DEF Forking
  <2>4. ASSUME NEW c \in DOMAIN br, c \in Started(g, br, b)
        PROVE  FALSE
    <3>1. c # <<>> /\ Front(c) = b
      BY <2>1, <2>4 DEF ForkedFrom
    <3>2. br[Front(c)].at = "fork"
      BY <2>4, <3>1 DEF TreeOK, BelowParent
    <3> QED BY <2>1, <3>1, <3>2
  <2>5. /\ DOMAIN new = Started(g, br, b) \cup DOMAIN br
        /\ \A c \in DOMAIN br : new[c] = IF c = b THEN Forking(br[b]) ELSE br[c]
    BY <2>1, <2>4 DEF ForkedFrom
  <2>6. /\ \A c \in DOMAIN br \ {b} : c \in DOMAIN new /\ new[c] = br[c]
        /\ \A c \in DOMAIN new \ DOMAIN br : new[c].at = "head"
        /\ new[b].node = br[b].node /\ new[b].at = "fork"
    BY <2>2, <2>3, <2>5
  <2> QED BY <2>1, <2>6 DEF After
<1> QED BY <1>3, <1>4, <1>5, <1>6, <1>7 DEF BranchMove

(* A step of a branch keeps what is held of its walk. *)
LEMMA ActKeepsHeld ==
  ASSUME ShapeInv, NEW w \in Walks, NEW b \in DOMAIN branch[w], graph' = graph,
         WorkedOnce(branch[w], taken[w]), After(branch[w], branch'[w], taken[w], taken'[w], b),
         Acts(w, b), HeldOK(w)
  PROVE  HeldOK(w)'
<1> DEFINE r == branch[w][b]
           n == r.node
           br == branch[w]
           new == branch'[w]
           out == walk[w].out
           outn == walk'[w].out
           tk == taken[w]
           tkn == taken'[w]
           Working(row) == row.at \in {"visit", "busy"}
<1>1. /\ out \subseteq tk
      /\ \A c \in DOMAIN br :
           /\ Working(br[c]) => br[c].node \notin out
           /\ br[c].at = "write" => br[c].copy.out \subseteq out
           /\ br[c].at = "busy" => br[c].node \notin walk[w].cached
      /\ walk[w].marked \/ \A m \in tk : Kind(m) \in SubKinds =>
           m \in out \/ \E c \in DOMAIN br : br[c].node = m /\ Working(br[c])
  BY DEF HeldOK
<1>2. /\ \A c \in DOMAIN br \ {b} : c \in DOMAIN new /\ new[c] = br[c]
      /\ \A c \in DOMAIN new \ DOMAIN br : new[c].at = "head"
      /\ b \in DOMAIN new => new[b].node = n \/ new[b].at = "visit"
      /\ \/ tkn = tk /\ (b \in DOMAIN new => new[b].at # "visit")
         \/ /\ r.at = "head" /\ b \in DOMAIN new /\ new[b].at = "visit"
            /\ new[b].node \notin tk /\ tkn = tk \cup {new[b].node}
  BY DEF After
<1>3. r.at # "head" => n \in tk /\ \A c \in DOMAIN br : br[c].at # "head" /\ br[c].node = n => c = b
  BY DEF WorkedOnce
(* the output of b's node may be new, which nobody else works on *)
<1>4. /\ out \subseteq outn /\ outn \subseteq out \cup {n} /\ (outn # out => Working(r))
      /\ walk'[w].cached \subseteq walk[w].cached
      /\ walk[w].marked => walk'[w].marked
  BY DEF Acts, Quiet, Passes, Starts, Reads
<1>5. b \in DOMAIN new /\ new[b].at = "busy" =>
        r.at = "visit" /\ new[b].node = n /\ outn = out /\ n \notin walk[w].cached
  BY DEF Acts, Quiet, Passes, Starts, Reads
<1>6. b \in DOMAIN new /\ new[b].at = "write" => new[b].copy.out \subseteq out
  BY DEF Acts, Quiet, Passes, Starts, Reads
<1>7. Working(r) /\ Kind(n) \in SubKinds =>
        n \in outn \/ walk'[w].marked \/ (b \in DOMAIN new /\ new[b].at = "busy" /\ new[b].node = n)
  BY DEF Acts, Quiet, Passes, Starts, Reads
<1>8. outn \subseteq tkn
  BY <1>1, <1>2, <1>3, <1>4
<1>9. ASSUME NEW c \in DOMAIN new
      PROVE  /\ Working(new[c]) => new[c].node \notin outn
             /\ new[c].at = "write" => new[c].copy.out \subseteq outn
             /\ new[c].at = "busy" => new[c].node \notin walk'[w].cached
  <2>1. CASE c \notin DOMAIN br
    BY <1>2, <2>1
  <2>2. CASE c \in DOMAIN br /\ c # b
    BY <1>1, <1>2, <1>3, <1>4, <2>2
  <2>3. CASE c = b
    <3>1. CASE new[b].at = "visit"
      BY <1>1, <1>2, <1>4, <2>3, <3>1
    <3>2. CASE new[b].at = "busy"
      BY <1>1, <1>4, <1>5, <2>3, <3>2
    <3>3. CASE new[b].at \notin {"visit", "busy"}
      BY <1>4, <1>6, <2>3, <3>3
    <3> QED BY <3>1, <3>2, <3>3
  <2> QED BY <2>1, <2>2, <2>3
<1>10. ASSUME ~walk'[w].marked, NEW m \in tkn, Kind(m) \in SubKinds
       PROVE  m \in outn \/ \E c \in DOMAIN new : new[c].node = m /\ Working(new[c])
  <2>1. CASE m \notin tk
    BY <1>2, <2>1
  <2>2. CASE m \in outn
    BY <2>2
  <2>3. CASE m \in tk /\ m \notin outn
    <3>1. PICK c \in DOMAIN br : br[c].node = m /\ Working(br[c])
      BY <1>1, <1>4, <1>10, <2>3
    <3>2. CASE c = b
      BY <1>7, <1>10, <2>3, <3>1, <3>2
    <3>3. CASE c # b
      BY <1>2, <3>1, <3>3
    <3> QED BY <3>2, <3>3
  <2> QED BY <2>1, <2>2, <2>3
<1>11. \A m : Kind(m)' = Kind(m)
  BY DEF Kind
<1> QED BY <1>8, <1>9, <1>10, <1>11 DEF HeldOK

(* Nor does it lose the way to what must be come to. *)
LEMMA ActKeepsComing ==
  ASSUME graph \in StructuredGraphs, ShapeInv, TreeInv, OnceInv, NEW w \in Walks, NEW b \in DOMAIN branch[w],
         graph' = graph, BranchMove(graph, branch[w], branch'[w], taken[w], taken'[w], b, walk'[w].marked),
         Acts(w, b), ComingOK(w)
  PROVE  ComingOK(w)'
<1>1. /\ IsGraph(graph) /\ BranchesOK(graph, branch[w]) /\ TreeOK(graph, branch[w]) /\ Nodes' = Nodes
      /\ WorkedOnce(branch[w], taken[w]) /\ taken[w] \in SUBSET DOMAIN graph.kind
  BY GraphsAssumption DEF ShapeInv, TreeInv, OnceInv, OnceOK, Nodes
<1>2. SUFFICES ASSUME Narrow(graph)
               PROVE  /\ NarrowOK(graph, branch'[w])
                      /\ walk'[w].marked \/ \A n \in Nodes, on \in SUBSET Nodes :
                           LeadsOn(graph, n, on) => Coming(graph, branch'[w], taken'[w], n, on)
  BY <1>1 DEF ComingOK
<1>3. NarrowOK(graph, branch[w])
  BY <1>2 DEF ComingOK
<1>4. NarrowOK(graph, branch'[w])
  BY <1>1, <1>2, <1>3, MoveKeepsNarrow
<1>5. ASSUME ~walk'[w].marked, NEW n \in Nodes, NEW on \in SUBSET Nodes, LeadsOn(graph, n, on)
      PROVE  Coming(graph, branch'[w], taken'[w], n, on)
  <2>1. ~walk[w].marked
    BY <1>5 DEF Acts
  <2>2. Coming(graph, branch[w], taken[w], n, on)
    BY <1>2, <1>5, <2>1 DEF ComingOK
  <2> QED BY <1>1, <1>3, <1>5, <2>2, MoveKeepsComing
<1> QED BY <1>4, <1>5

(* What every step is for a walk: a step of one of its branches; nothing   *)
(* of what is held; its beginning; or it is done, and begins anew.         *)
Stays(w) ==
  /\ walk'[w].at = walk[w].at /\ walk'[w].out = walk[w].out /\ walk'[w].cached = walk[w].cached
  /\ walk'[w].marked = walk[w].marked
  /\ branch'[w] = branch[w] /\ taken'[w] = taken[w]
Begins(w) ==
  /\ walk[w].at = "new" /\ walk'[w].at = "walking" /\ walk'[w].out = walk[w].out
  /\ branch'[w] = With(branch[w], <<>>, NewBranch(Start(graph), {})) /\ taken'[w] = taken[w]
Stops(w) == walk'[w].at = "clean" \/ (walk'[w].at \in {"off", "new"} /\ walk'[w].out = {})

WalkGoes(w) ==
  \/ \E b \in DOMAIN branch[w] :
       /\ BranchMove(graph, branch[w], branch'[w], taken[w], taken'[w], b, walk'[w].marked)
       /\ Acts(w, b) /\ walk'[w].at = walk[w].at
  \/ Stays(w) \/ Begins(w) \/ Stops(w)

LEMMA WalksGo ==
  ASSUME ShapeInv, WalksInv, TreeInv, [Next]_vars
  PROVE  \A w \in Walks : WalkGoes(w)
<1> USE DEF constVars, histVars, dbVars
<1>1. walk \in [Walks -> WalkRows(graph)] /\ DOMAIN branch = Walks
  BY DEF ShapeInv
<1>2. ASSUME NEW w \in Walks, branch'[w] = branch[w], taken'[w] = taken[w], walk'[w] = walk[w]
      PROVE  WalkGoes(w)
  BY <1>2 DEF WalkGoes, Stays
<1>3. ASSUME NEW w \in Walks, LoadGraph(w)
      PROVE  \A v \in Walks : WalkGoes(v)
  <2>1. taken' = taken /\ walk[w].at = "new"
    BY <1>3 DEF LoadGraph
  <2>2. CASE walk' = [walk EXCEPT ![w].at = "walking"] /\ Put(w, <<>>, NewBranch(Start(graph), {}))
    <3>1. /\ walk'[w].at = "walking" /\ walk'[w].out = walk[w].out
          /\ branch'[w] = With(branch[w], <<>>, NewBranch(Start(graph), {}))
      BY <1>1, <2>2 DEF WalkRows, Put
    <3>2. \A v \in Walks \ {w} : walk'[v] = walk[v] /\ branch'[v] = branch[v]
      BY <1>1, <2>2 DEF Put
    <3>3. WalkGoes(w)
      BY <2>1, <3>1 DEF WalkGoes, Begins
    <3> QED BY <1>2, <2>1, <3>2, <3>3
  <2>3. CASE walk' = [walk EXCEPT ![w].at = "clean", ![w].marked = TRUE] /\ UNCHANGED branch
    <3>1. (\A v \in Walks \ {w} : walk'[v] = walk[v]) /\ walk'[w].at = "clean"
      BY <1>1, <2>3 DEF WalkRows
    <3>2. WalkGoes(w)
      BY <3>1 DEF WalkGoes, Stops
    <3> QED BY <1>2, <2>1, <2>3, <3>1, <3>2
  <2> QED BY <1>3, <2>2, <2>3 DEF LoadGraph
<1>4. ASSUME NEW w \in Walks, FinishWalk(w)
      PROVE  \A v \in Walks : WalkGoes(v)
  <2>1. (\A v \in Walks \ {w} : walk'[v] = walk[v]) /\ walk'[w].at = "clean" /\ UNCHANGED <<branch, taken>>
    BY <1>1, <1>4 DEF FinishWalk, WalkRows
  <2>2. WalkGoes(w)
    BY <2>1 DEF WalkGoes, Stops
  <2> QED BY <1>2, <2>1, <2>2
<1>5. ASSUME NEW w \in Walks, DeleteCheckpoint(w)
      PROVE  \A v \in Walks : WalkGoes(v)
  <2>1. /\ \A v \in Walks \ {w} : walk'[v] = walk[v]
        /\ walk'[w].at = "off" /\ walk'[w].out = {} /\ UNCHANGED <<branch, taken>>
    BY <1>1, <1>5 DEF DeleteCheckpoint, Asleep
  <2>2. WalkGoes(w)
    BY <2>1 DEF WalkGoes, Stops
  <2> QED BY <1>2, <2>1, <2>2
<1>6. ASSUME NEW w \in Walks, NEW b \in DOMAIN branch[w], BranchStep(w, b)
      PROVE  \A v \in Walks : WalkGoes(v)
  <2>1. /\ BranchMove(graph, branch[w], branch'[w], taken[w], taken'[w], b, walk'[w].marked)
        /\ Elsewhere(w) /\ Acts(w, b)
    BY <1>6, BranchStepMoves, BranchStepActs
  <2>2. WalkGoes(w)
    BY <2>1 DEF WalkGoes, Elsewhere
  <2> QED BY <1>2, <2>1, <2>2 DEF Elsewhere
<1>7. CASE CancelRun
  <2>1. ASSUME NEW w \in Walks
        PROVE  /\ walk'[w].at = walk[w].at /\ walk'[w].out = walk[w].out /\ walk'[w].cached = walk[w].cached
               /\ walk'[w].marked = walk[w].marked
    BY <1>1, <1>7 DEF CancelRun, WalkRows
  <2> QED BY <1>7, <2>1 DEF CancelRun, WalkGoes, Stays
<1>8. CASE ListInterrupted
  BY <1>2, <1>8 DEF ListInterrupted
<1>9. CASE RecoverRun
  <2>1. walks + 1 \in Walks /\ walk[walks + 1].at = "off"
    BY <1>9, NextWalk
  <2>2. CASE checkpoint = NoCheckpoint
    BY <1>2, <1>9, <2>2 DEF RecoverRun
  <2>3. CASE checkpoint # NoCheckpoint
    <3>1. /\ UNCHANGED <<branch, taken>>
          /\ walk' = [walk EXCEPT ![walks + 1] = [Asleep EXCEPT !.at = "new", !.cached = checkpoint.out,
                                                                !.iter = checkpoint.iter]]
      BY <1>9, <2>3 DEF RecoverRun
    <3>2. \A w \in Walks \ {walks + 1} : walk'[w] = walk[w]
      BY <1>1, <3>1
    <3>3. walk'[walks + 1].at = "new" /\ walk'[walks + 1].out = {}
      BY <1>1, <2>1, <3>1 DEF Asleep
    <3> QED BY <1>2, <3>1, <3>2, <3>3 DEF WalkGoes, Stops
  <2> QED BY <2>2, <2>3
<1>10. CASE CancelStatus
  BY <1>2, <1>10 DEF CancelStatus
<1>11. CASE Restart
  <2>1. \A w \in Walks : walk'[w].at = "off" /\ walk'[w].out = {}
    BY <1>11 DEF Restart, Asleep
  <2> QED BY <2>1 DEF WalkGoes, Stops
<1>12. ASSUME NEW w \in Walks, Disconnect(w)
       PROVE  \A v \in Walks : WalkGoes(v)
  <2>1. ASSUME NEW v \in Walks
        PROVE  /\ walk'[v].at = walk[v].at /\ walk'[v].out = walk[v].out /\ walk'[v].cached = walk[v].cached
               /\ walk'[v].marked = walk[v].marked
    BY <1>1, <1>12 DEF Disconnect, WalkRows
  <2> QED BY <1>12, <2>1 DEF Disconnect, WalkGoes, Stays
<1>13. CASE UNCHANGED vars
  BY <1>2, <1>13 DEF vars
<1> QED BY <1>3, <1>4, <1>5, <1>6, <1>7, <1>8, <1>9, <1>10, <1>11, <1>12, <1>13 DEF Next, Work

(* What is held of the walks is kept by every step. *)
LEMMA StepKeepsHeld ==
  ASSUME ShapeInv, WalksInv, TreeInv, FreshInv, OnceInv, HeldInv, [Next]_vars
  PROVE  HeldInv'
<1>1. graph' = graph /\ (\A w \in Walks : WalkGoes(w)) /\ IsGraph(graph) /\ Nodes' = Nodes
  BY Steps, WalksGo, GraphsAssumption DEF ShapeInv, Nodes
<1>2. SUFFICES ASSUME graph \in StructuredGraphs, NEW w \in Walks
               PROVE  (/\ walk[w].at \in {"off", "new"} => walk[w].out = {}
                       /\ walk[w].at = "walking" => HeldOK(w) /\ ComingOK(w))'
  BY <1>1 DEF HeldInv
<1>3. /\ walk[w].at \in {"off", "new"} => walk[w].out = {}
      /\ walk[w].at = "walking" => HeldOK(w) /\ ComingOK(w)
  BY <1>2 DEF HeldInv
<1>4. /\ Structured(graph) /\ OnceOK(graph, branch[w], taken[w]) /\ BranchesOK(graph, branch[w])
      /\ TreeOK(graph, branch[w]) /\ taken[w] \in SUBSET DOMAIN graph.kind
      /\ walk[w].at # "walking" => DOMAIN branch[w] = {}
  BY <1>2 DEF OnceInv, StructuredGraphs, ShapeInv, TreeInv, Nodes
<1>5. CASE \E b \in DOMAIN branch[w] :
             /\ BranchMove(graph, branch[w], branch'[w], taken[w], taken'[w], b, walk'[w].marked)
             /\ Acts(w, b) /\ walk'[w].at = walk[w].at
  <2>1. PICK b \in DOMAIN branch[w] :
          /\ BranchMove(graph, branch[w], branch'[w], taken[w], taken'[w], b, walk'[w].marked)
          /\ Acts(w, b) /\ walk'[w].at = walk[w].at
    BY <1>5
  <2>2. walk[w].at = "walking" /\ HeldOK(w) /\ ComingOK(w)
    BY <1>3, <1>4
  <2>3. After(branch[w], branch'[w], taken[w], taken'[w], b)
    BY <1>1, <1>4, <2>1, BranchesAfter
  <2>4. HeldOK(w)'
    BY <1>1, <1>4, <2>1, <2>2, <2>3, ActKeepsHeld DEF OnceOK
  <2>5. ComingOK(w)'
    BY <1>1, <1>2, <2>1, <2>2, ActKeepsComing
  <2> QED BY <2>1, <2>2, <2>4, <2>5
<1>6. CASE Stays(w)
  BY <1>1, <1>3, <1>6 DEF Stays, HeldOK, ComingOK, Kind
<1>7. CASE Begins(w)
  <2>1. branch'[w] = Beginning(graph) /\ Start(graph) \in DOMAIN graph.kind
    BY <1>1, <1>4, <1>7, BeginsWithStart DEF Begins
  <2>2. DOMAIN branch'[w] = {<<>>} /\ branch'[w][<<>>] = NewBranch(Start(graph), {})
    BY <2>1 DEF Beginning
  <2>3. branch'[w][<<>>].at = "head" /\ branch'[w][<<>>].queue = <<Start(graph)>>
    BY <2>2 DEF NewBranch
  <2>4. walk'[w].out = {} /\ taken'[w] = {} /\ walk'[w].at = "walking"
    BY <1>3, <1>7 DEF Begins, FreshInv
  <2>5. HeldOK(w)'
    BY <2>2, <2>3, <2>4 DEF HeldOK
  <2>6. ASSUME NEW n, NEW on, LeadsOn(graph, n, on)
        PROVE  Coming(graph, branch'[w], taken'[w], n, on)
    <3>1. Start(graph) \in on
      BY <2>6 DEF LeadsOn
    <3>2. 1 \in DOMAIN <<Start(graph)>> /\ <<Start(graph)>>[1] = Start(graph)
      OBVIOUS
    <3> QED BY <2>2, <2>3, <3>1, <3>2 DEF Coming
  <2>7. NarrowOK(graph, branch'[w])
    BY <2>2 DEF NarrowOK
  <2>8. ComingOK(w)'
    BY <1>1, <2>6, <2>7 DEF ComingOK
  <2> QED BY <2>4, <2>5, <2>8
<1>8. CASE Stops(w)
  BY <1>8 DEF Stops
<1> QED BY <1>1, <1>5, <1>6, <1>7, <1>8 DEF WalkGoes

(* No two walks are under way. *)
LEMMA StepKeepsAlone ==
  ASSUME ShapeInv, WalksInv, TreeInv, AloneInv, [Next]_vars
  PROVE  AloneInv'
<1> USE DEF constVars, histVars, dbVars
<1>1. /\ walk \in [Walks -> WalkRows(graph)] /\ DOMAIN branch = Walks
      /\ status \in {"running", "success", "failed", "cancelled"} /\ touched \in BOOLEAN
  BY DEF ShapeInv
<1>2. graph' = graph /\ Nodes' = Nodes /\ Asleep' = Asleep
  BY Steps DEF Nodes, Asleep
<1>3. /\ \A w \in Walks :
           /\ walk[w].at = "off" => walk[w] = Asleep
           /\ walk[w].at # "off" => w = walks /\ recovery = "idle"
           /\ walk[w].at \in {"new", "walking"} => status # "success"
           /\ walk[w].ctx => touched
      /\ recovery = "listed" => status # "success"
      /\ cancelling => touched
  BY DEF AloneInv
<1>4. FailRun(status) # "success"
  BY DEF FailRun
<1>5. Asleep.at = "off" /\ Asleep.ctx = FALSE
  BY DEF Asleep
(* a step of one walk, which touches nobody *)
<1>6. ASSUME NEW w \in Walks, walk[w].at # "off", UNCHANGED <<walks, recovery, cancelling>>, touched => touched',
             \A v \in Walks \ {w} : walk'[v] = walk[v],
             walk'[w].ctx = walk[w].ctx \/ ~walk'[w].ctx,
             \/ walk'[w].at \in {"new", "walking"} /\ walk[w].at \in {"new", "walking"}
                /\ (status' = status \/ status' = FailRun(status))
             \/ walk'[w].at = "clean"
             \/ walk'[w] = Asleep
      PROVE  AloneInv'
  <2>1. \A v \in Walks \ {w} : walk[v] = Asleep /\ walk'[v] = Asleep
    BY <1>3, <1>6
  <2>2. recovery' = "idle" /\ w = walks'
    BY <1>3, <1>6
  <2>3. walk'[w].at \in {"new", "walking"} => status' # "success"
    BY <1>3, <1>4, <1>5, <1>6
  <2>4. (walk'[w].ctx => touched') /\ (cancelling' => touched')
    BY <1>3, <1>6
  <2>5. walk'[w].at = "off" => walk'[w] = Asleep
    BY <1>6
  <2>6. ASSUME NEW v \in Walks
        PROVE  /\ walk'[v].at = "off" => walk'[v] = Asleep'
               /\ walk'[v].at # "off" => v = walks' /\ recovery' = "idle"
               /\ walk'[v].at \in {"new", "walking"} => status' # "success"
               /\ walk'[v].ctx => touched'
    BY <1>2, <1>5, <2>1, <2>2, <2>3, <2>4, <2>5
  <2> QED BY <2>2, <2>4, <2>6 DEF AloneInv
<1>10. ASSUME NEW w \in Walks, LoadGraph(w)
      PROVE  AloneInv'
  <2>1. /\ walk[w].at = "new" /\ UNCHANGED <<walks, recovery, cancelling, touched>>
        /\ \A v \in Walks \ {w} : walk'[v] = walk[v]
        /\ walk'[w].ctx = walk[w].ctx
        /\ (walk'[w].at = "walking" /\ status' = status) \/ walk'[w].at = "clean"
    BY <1>1, <1>10 DEF LoadGraph, WalkRows
  <2> QED BY <1>6, <2>1
<1>11. ASSUME NEW w \in Walks, FinishWalk(w)
      PROVE  AloneInv'
  <2>1. /\ walk[w].at = "walking" /\ UNCHANGED <<walks, recovery, cancelling, touched>>
        /\ \A v \in Walks \ {w} : walk'[v] = walk[v]
        /\ walk'[w].ctx = walk[w].ctx /\ walk'[w].at = "clean"
    BY <1>1, <1>11 DEF FinishWalk, WalkRows
  <2> QED BY <1>6, <2>1
<1>12. ASSUME NEW w \in Walks, DeleteCheckpoint(w)
      PROVE  AloneInv'
  <2>1. /\ walk[w].at = "clean" /\ UNCHANGED <<walks, recovery, cancelling, touched>>
        /\ \A v \in Walks \ {w} : walk'[v] = walk[v]
        /\ walk'[w] = Asleep
    BY <1>1, <1>12 DEF DeleteCheckpoint
  <2> QED BY <1>5, <1>6, <2>1
<1>13. ASSUME NEW w \in Walks, NEW b \in DOMAIN branch[w], BranchStep(w, b)
      PROVE  AloneInv'
  <2>1. Elsewhere(w) /\ Acts(w, b)
    BY <1>13, BranchStepMoves, BranchStepActs
  <2>2. walk[w].at = "walking"
    BY DEF TreeInv
  <2>3. /\ UNCHANGED <<walks, recovery, cancelling>> /\ (touched => touched')
        /\ walk'[w].ctx = walk[w].ctx /\ (status' = status \/ status' = FailRun(status))
    BY <2>1 DEF Acts
  <2>4. (\A v \in Walks \ {w} : walk'[v] = walk[v]) /\ walk'[w].at = walk[w].at
    BY <2>1 DEF Elsewhere
  <2> QED BY <1>6, <2>2, <2>3, <2>4
<1>14. CASE CancelRun
  <2>1. touched /\ UNCHANGED <<walks, recovery, status, touched>> /\ cancelling' = FALSE
    BY <1>3, <1>14 DEF CancelRun
  <2>2. ASSUME NEW w \in Walks
        PROVE  walk'[w].at = walk[w].at /\ (walk[w] = Asleep => walk'[w] = Asleep)
    <3> DEFINE x == walk[w].ctx \/ walk[w].at = "walking"
    <3>1. walk'[w] = [walk[w] EXCEPT !.ctx = x]
      BY <1>14 DEF CancelRun
    <3>2. walk[w] = Asleep => x = walk[w].ctx
      BY <1>5
    <3>3. walk[w] = [at |-> walk[w].at, out |-> walk[w].out, cached |-> walk[w].cached, iter |-> walk[w].iter,
                     steps |-> walk[w].steps, marked |-> walk[w].marked, ctx |-> walk[w].ctx, client |-> walk[w].client]
      BY <1>1 DEF WalkRows
    <3> HIDE DEF x
    <3> QED BY <3>1, <3>2, <3>3
  <2> QED BY <1>2, <1>3, <2>1, <2>2 DEF AloneInv
<1>15. CASE ListInterrupted
  <2>1. UNCHANGED <<walks, walk, status, touched, cancelling>> /\ recovery = "due"
        /\ (recovery' = "listed" => status = "running")
    BY <1>15 DEF ListInterrupted, Interrupted
  <2> QED BY <1>2, <1>3, <2>1 DEF AloneInv
<1>16. CASE RecoverRun
  <2>1. recovery = "listed" /\ recovery' = "idle" /\ UNCHANGED <<cancelling, touched>> /\ status # "success"
    BY <1>3, <1>16 DEF RecoverRun
  <2>2. \A w \in Walks : walk[w] = Asleep
    BY <1>3, <2>1
  <2>3. CASE checkpoint = NoCheckpoint
    <3>1. UNCHANGED <<walk, walks>>
      BY <1>16, <2>3 DEF RecoverRun
    <3> QED BY <1>2, <1>3, <1>5, <2>1, <2>2, <3>1 DEF AloneInv
  <2>4. CASE checkpoint # NoCheckpoint
    <3>1. /\ walks' = walks + 1 /\ status' = status
          /\ walk' = [walk EXCEPT ![walks + 1] = [Asleep EXCEPT !.at = "new", !.cached = checkpoint.out,
                                                                !.iter = checkpoint.iter]]
      BY <1>16, <2>4 DEF RecoverRun
    <3>2. \A w \in Walks \ {walks'} : walk'[w] = Asleep
      BY <1>1, <2>2, <3>1
    <3>3. walks' \in Walks /\ walk'[walks'].at = "new" /\ ~walk'[walks'].ctx
      BY <1>1, <1>16, <3>1, NextWalk DEF Asleep
    <3>4. ASSUME NEW v \in Walks
          PROVE  /\ walk'[v].at = "off" => walk'[v] = Asleep'
                 /\ walk'[v].at # "off" => v = walks' /\ recovery' = "idle"
                 /\ walk'[v].at \in {"new", "walking"} => status' # "success"
                 /\ walk'[v].ctx => touched'
      BY <1>2, <1>5, <2>1, <3>1, <3>2, <3>3
    <3> QED BY <1>3, <2>1, <3>4 DEF AloneInv
  <2> QED BY <2>3, <2>4
<1>17. CASE CancelStatus
  <2>1. UNCHANGED <<walks, walk, recovery>> /\ status' = "cancelled" /\ touched'
    BY <1>17 DEF CancelStatus
  <2> QED BY <1>2, <1>3, <2>1 DEF AloneInv
<1>18. CASE Restart
  <2>1. recovery' = "due" /\ cancelling' = FALSE /\ \A w \in Walks : walk'[w] = Asleep
    BY <1>18 DEF Restart
  <2> QED BY <1>2, <1>5, <2>1 DEF AloneInv
<1>19. ASSUME NEW w \in Walks, Disconnect(w)
      PROVE  AloneInv'
  <2>1. /\ walk[w].at \in {"new", "walking"} /\ UNCHANGED <<walks, recovery, cancelling, status>> /\ touched'
        /\ \A v \in Walks \ {w} : walk'[v] = walk[v]
        /\ walk'[w].at = walk[w].at
    BY <1>1, <1>19 DEF Disconnect, WalkRows
  <2>2. ASSUME NEW v \in Walks
        PROVE  /\ walk'[v].at = "off" => walk'[v] = Asleep'
               /\ walk'[v].at # "off" => v = walks' /\ recovery' = "idle"
               /\ walk'[v].at \in {"new", "walking"} => status' # "success"
               /\ walk'[v].ctx => touched'
    BY <1>2, <1>3, <2>1
  <2> QED BY <1>3, <2>1, <2>2 DEF AloneInv
<1>20. CASE UNCHANGED vars
  BY <1>2, <1>3, <1>20 DEF vars, AloneInv
<1> QED BY <1>10, <1>11, <1>12, <1>13, <1>14, <1>15, <1>16, <1>17, <1>18, <1>19, <1>20 DEF Next, Work

(* What every step but those of a branch leaves as it is: nobody's success *)
(* is taken back, no walk waits for more than it did, and a checkpoint has *)
(* no more than the walk that is to use it.                                *)
Calm ==
  /\ graph' = graph /\ fired' = fired /\ (touched => touched')
  /\ \A n \in Nodes : /\ sub[n] = "success" => sub'[n] = "success"
                      /\ sub[n] # "none" => sub'[n] # "none"
  /\ checkpoint'.out \subseteq checkpoint.out
  /\ \A w \in Walks :
       /\ walk'[w].at = "walking" => \/ walk[w].at = "walking" /\ branch'[w] = branch[w]
                                     \/ \A b \in DOMAIN branch'[w] : branch'[w][b].at # "busy"
       /\ walk'[w].at \in {"new", "walking"} =>
            \/ walk[w].at \in {"new", "walking"} /\ walk'[w].out = walk[w].out /\ walk'[w].cached = walk[w].cached
            \/ checkpoint'.out \subseteq walk'[w].cached
       /\ walk'[w].out \cup walk'[w].cached \subseteq walk[w].out \cup walk[w].cached \cup checkpoint.out

LEMMA CalmKeepsAchieved ==
  ASSUME ShapeInv, AchievedInv, Calm,
         graph \in StructuredGraphs /\ status' = "success" =>
           status = "success" \/ touched' \/ \A n \in Required(graph) : Achieved(n)
  PROVE  AchievedInv'
<1>1. SUFFICES ASSUME graph \in StructuredGraphs
               PROVE  (/\ \A w \in Walks :
                            /\ walk[w].at = "walking" => RunsOK(w)
                            /\ walk[w].at \in {"new", "walking"} => checkpoint.out \subseteq walk[w].out \cup walk[w].cached
                            /\ touched \/ \A n \in walk[w].out \cup walk[w].cached : Kind(n) \in SubKinds => Achieved(n)
                       /\ touched \/ \A n \in checkpoint.out : Kind(n) \in SubKinds => Achieved(n)
                       /\ status = "success" /\ ~touched => \A n \in Required(graph) : Achieved(n))'
  BY DEF AchievedInv, Calm
<1>2. /\ \A w \in Walks :
           /\ walk[w].at = "walking" => RunsOK(w)
           /\ walk[w].at \in {"new", "walking"} => checkpoint.out \subseteq walk[w].out \cup walk[w].cached
           /\ touched \/ \A n \in walk[w].out \cup walk[w].cached : Kind(n) \in SubKinds => Achieved(n)
      /\ touched \/ \A n \in checkpoint.out : Kind(n) \in SubKinds => Achieved(n)
      /\ status = "success" /\ ~touched => \A n \in Required(graph) : Achieved(n)
  BY <1>1 DEF AchievedInv
<1>3. /\ walk \in [Walks -> WalkRows(graph)] /\ checkpoint.out \subseteq Nodes /\ Required(graph) \subseteq Nodes
      /\ \A w \in Walks : \A b \in DOMAIN branch[w] : branch[w][b].node \in Nodes
      /\ \A w \in Walks : walk[w].out \cup walk[w].cached \subseteq Nodes
  <2>1. checkpoint.out \subseteq Nodes
    BY DEF ShapeInv, CopiesOf, NoCheckpoint, Nodes
  <2> QED BY <2>1 DEF ShapeInv, BranchesOK, BranchRows, WalkRows, Required, Nodes
<1>4. \A n : Kind(n)' = Kind(n)
  BY DEF Kind, Calm
<1>5. \A n \in Nodes : Achieved(n) => Achieved(n)'
  BY DEF Calm, Achieved
<1>6. ASSUME NEW w \in Walks, walk'[w].at = "walking"
      PROVE  RunsOK(w)'
  BY <1>2, <1>3, <1>4, <1>6 DEF Calm, RunsOK
<1>7. ASSUME NEW w \in Walks, walk'[w].at \in {"new", "walking"}
      PROVE  checkpoint'.out \subseteq walk'[w].out \cup walk'[w].cached
  BY <1>2, <1>7 DEF Calm
<1>8. ASSUME ~touched', NEW w \in Walks, NEW n \in walk'[w].out \cup walk'[w].cached, Kind(n) \in SubKinds
      PROVE  Achieved(n)'
  <2>1. ~touched /\ n \in walk[w].out \cup walk[w].cached \cup checkpoint.out
    BY <1>8 DEF Calm
  <2> QED BY <1>2, <1>3, <1>5, <1>8, <2>1
<1>9. ASSUME ~touched', NEW n \in checkpoint'.out, Kind(n) \in SubKinds
      PROVE  Achieved(n)'
  <2>1. ~touched /\ n \in checkpoint.out
    BY <1>9 DEF Calm
  <2> QED BY <1>2, <1>3, <1>5, <1>9, <2>1
<1>10. ASSUME ~touched', status' = "success", NEW n \in Required(graph)
       PROVE  Achieved(n)'
  <2>1. ~touched
    BY <1>10 DEF Calm
  <2> QED BY <1>1, <1>2, <1>3, <1>5, <1>10, <2>1
<1>11. graph' = graph
  BY DEF Calm
<1> QED BY <1>4, <1>6, <1>7, <1>8, <1>9, <1>10, <1>11

(* A step of a branch: the one walk adds an output only of an agent that   *)
(* has succeeded, and starts none whose result is there.                   *)
LEMMA ActKeepsAchieved ==
  ASSUME ShapeInv, TreeInv, OnceInv, HeldInv, AloneInv, AchievedInv, NEW w \in Walks, NEW b \in DOMAIN branch[w],
         graph \in StructuredGraphs, After(branch[w], branch'[w], taken[w], taken'[w], b),
         Elsewhere(w), Acts(w, b)
  PROVE  AchievedInv'
<1> DEFINE r == branch[w][b]
           n == r.node
           br == branch[w]
           new == branch'[w]
           have == walk[w].out \cup walk[w].cached
           haven == walk'[w].out \cup walk'[w].cached
<1>1. /\ walk[w].at = "walking" /\ HeldOK(w) /\ RunsOK(w) /\ checkpoint.out \subseteq have
      /\ touched \/ \A m \in have : Kind(m) \in SubKinds => Achieved(m)
      /\ touched \/ \A m \in checkpoint.out : Kind(m) \in SubKinds => Achieved(m)
  BY DEF TreeInv, HeldInv, AchievedInv
<1>2. /\ graph' = graph /\ walk'[w].at = "walking"
      /\ \A v \in Walks \ {w} : walk'[v] = walk[v]
      /\ (touched => touched')
      /\ status' = status \/ status' = FailRun(status)
  BY <1>1 DEF Elsewhere, Acts
<1>3. \A v \in Walks \ {w} : walk'[v].at = "off" /\ walk'[v].out = {} /\ walk'[v].cached = {}
  BY <1>1, <1>2 DEF AloneInv, Asleep
<1>4. status' # "success"
  BY <1>1, <1>2 DEF AloneInv, FailRun
<1>5. /\ \A c \in DOMAIN br \ {b} : c \in DOMAIN new /\ new[c] = br[c]
      /\ \A c \in DOMAIN new \ DOMAIN br : new[c].at = "head"
  BY DEF After
<1>6. r.at # "head" => \A c \in DOMAIN br : br[c].at # "head" /\ br[c].node = n => c = b
  BY DEF OnceInv, OnceOK, WorkedOnce
<1>7. /\ r.at \in {"visit", "busy"} => n \notin walk[w].out
      /\ r.at = "busy" => n \notin walk[w].cached
      /\ r.at = "write" => r.copy.out \subseteq walk[w].out
  BY <1>1 DEF HeldOK
<1>8. \A c \in DOMAIN br : br[c].at = "busy" =>
        /\ fired[w][br[c].node] > 0
        /\ Kind(br[c].node) \in SubKinds => touched \/ sub[br[c].node] # "none"
  BY <1>1 DEF RunsOK
<1>9. /\ n \in Nodes /\ have \subseteq Nodes /\ checkpoint.out \subseteq Nodes
      /\ fired \in [Walks -> [Nodes -> Nat]] /\ \A c \in DOMAIN br : br[c].node \in Nodes
  <2>1. have \subseteq Nodes /\ \A c \in DOMAIN br : br[c].node \in Nodes
    BY DEF ShapeInv, BranchesOK, BranchRows, WalkRows, Nodes
  <2> QED BY <1>1, <2>1 DEF ShapeInv
<1>10. \A m : Kind(m)' = Kind(m)
  BY <1>2 DEF Kind
(* what was executed once has been *)
<1>11. \A v \in Walks, m \in Nodes : fired[v][m] > 0 => fired'[v][m] > 0
  <2>1. fired' = fired \/ fired' = [fired EXCEPT ![w][n] = @ + 1]
    BY DEF Acts, Quiet, Passes, Starts, Reads
  <2> QED BY <1>9, <2>1
<1>12. ASSUME NEW m \in Nodes, sub'[m] = sub[m], Achieved(m)
       PROVE  Achieved(m)'
  BY <1>11, <1>12 DEF Achieved
<1>13. SUFFICES /\ RunsOK(w)'
                /\ checkpoint'.out \subseteq haven
                /\ touched' \/ \A m \in haven : Kind(m) \in SubKinds => Achieved(m)'
                /\ touched' \/ \A m \in checkpoint'.out : Kind(m) \in SubKinds => Achieved(m)'
  BY <1>2, <1>3, <1>4, <1>10 DEF AchievedInv
<1>14. ASSUME \A c \in DOMAIN br \ {b} : br[c].at = "busy" => sub'[br[c].node] = sub[br[c].node],
              b \in DOMAIN new /\ new[b].at = "busy" =>
                /\ fired'[w][new[b].node] > 0
                /\ Kind(new[b].node) \in SubKinds => touched' \/ sub'[new[b].node] # "none"
       PROVE  RunsOK(w)'
  <2>1. ASSUME NEW c \in DOMAIN new, new[c].at = "busy"
        PROVE  /\ fired'[w][new[c].node] > 0
               /\ Kind(new[c].node) \in SubKinds => touched' \/ sub'[new[c].node] # "none"
    <3>1. CASE c = b
      BY <1>14, <2>1, <3>1
    <3>2. CASE c # b
      <4>1. c \in DOMAIN br /\ new[c] = br[c]
        BY <1>5, <2>1, <3>2
      <4> QED BY <1>2, <1>8, <1>9, <1>11, <1>14, <2>1, <3>2, <4>1
    <3> QED BY <3>1, <3>2
  <2> QED BY <1>10, <2>1 DEF RunsOK
<1>15. CASE Quiet(w, b)
  <2>1. /\ sub' = sub /\ touched' = touched /\ haven = have
        /\ checkpoint' = checkpoint \/ checkpoint'.out \subseteq walk[w].out
        /\ b \in DOMAIN new => new[b].at # "busy"
    BY <1>7, <1>15 DEF Quiet
  <2>2. RunsOK(w)'
    BY <1>14, <2>1
  <2>3. checkpoint'.out \subseteq have
    BY <1>1, <2>1
  <2>4. touched \/ \A m \in have : Kind(m) \in SubKinds => Achieved(m)'
    BY <1>1, <1>9, <1>12, <2>1
  <2> QED BY <2>1, <2>2, <2>3, <2>4
<1>16. CASE Passes(w, b)
  <2>1. /\ sub' = sub /\ touched' = touched /\ checkpoint' = checkpoint /\ have \subseteq haven
        /\ new[b].at = "copy"
        /\ \/ Kind(n) \notin SubKinds /\ haven \subseteq have \cup {n}
           \/ haven \subseteq have
    BY <1>16 DEF Passes
  <2>2. RunsOK(w)'
    BY <1>14, <2>1
  <2>3. touched \/ \A m \in have : Kind(m) \in SubKinds => Achieved(m)'
    BY <1>1, <1>9, <1>12, <2>1
  <2> QED BY <1>1, <2>1, <2>2, <2>3
<1>17. CASE Starts(w, b)
  <2>1. /\ touched' = touched /\ checkpoint' = checkpoint /\ haven = have
        /\ fired' = [fired EXCEPT ![w][n] = @ + 1]
        /\ r.at = "visit" /\ new[b].node = n /\ n \notin have
        /\ \A m \in Nodes \ {n} : sub'[m] = sub[m]
        /\ Kind(n) \in SubKinds => walk[w].ctx \/ sub'[n] # "none"
    BY <1>7, <1>17 DEF Starts
  <2>2. fired'[w][n] > 0
    BY <1>9, <2>1
  <2>3. walk[w].ctx => touched'
    BY <2>1 DEF AloneInv
  <2>4. RunsOK(w)'
    BY <1>6, <1>9, <1>14, <2>1, <2>2, <2>3
  <2>5. touched \/ \A m \in have : Kind(m) \in SubKinds => Achieved(m)'
    BY <1>1, <1>9, <1>12, <2>1
  <2> QED BY <1>1, <2>1, <2>4, <2>5
<1>18. CASE Reads(w, b)
  <2>1. /\ checkpoint' = checkpoint /\ r.at = "busy" /\ n \notin have
        /\ have \subseteq haven
        /\ \A m \in Nodes \ {n} : sub'[m] = sub[m]
        /\ b \in DOMAIN new => new[b].at # "busy"
        /\ \/ haven = have
           \/ /\ haven = have \cup {n}
              /\ Kind(n) \notin SubKinds \/ sub[n] = "none" \/ touched' \/ sub'[n] = "success"
    BY <1>7, <1>18 DEF Reads
  <2>2. RunsOK(w)'
    BY <1>6, <1>9, <1>14, <2>1
  <2>3. touched' \/ \A m \in have : Kind(m) \in SubKinds => Achieved(m)'
    BY <1>1, <1>2, <1>9, <1>12, <2>1
  <2>4. ASSUME ~touched', n \in haven, Kind(n) \in SubKinds
        PROVE  sub'[n] = "success" /\ \E v \in Walks : fired'[v][n] > 0
    <3>1. fired'[w][n] > 0 /\ sub[n] # "none"
      BY <1>2, <1>8, <1>9, <1>11, <2>1, <2>4
    <3>2. sub'[n] = "success"
      BY <2>1, <2>4, <3>1
    <3>3. \E v \in Walks : fired'[v][n] > 0
      BY <3>1
    <3> QED BY <3>2, <3>3
  <2>5. ASSUME ~touched', NEW m \in haven, Kind(m) \in SubKinds
        PROVE  Achieved(m)'
    <3>1. CASE m = n
      BY <2>4, <2>5, <3>1 DEF Achieved
    <3>2. CASE m # n
      BY <2>1, <2>3, <2>5, <3>2
    <3> QED BY <3>1, <3>2
  <2>6. checkpoint'.out \subseteq have
    BY <1>1, <2>1
  <2>7. touched' \/ \A m \in checkpoint'.out : Kind(m) \in SubKinds => Achieved(m)'
    BY <2>3, <2>6
  <2>8. checkpoint'.out \subseteq haven
    BY <2>1, <2>6
  <2>9. touched' \/ \A m \in haven : Kind(m) \in SubKinds => Achieved(m)'
    BY <2>5
  <2> QED BY <2>2, <2>7, <2>8, <2>9
<1> QED BY <1>15, <1>16, <1>17, <1>18 DEF Acts

(* What the steps other than those of a branch leave as it is. *)
LEMMA OthersAreCalm ==
  ASSUME ShapeInv, WalksInv, TreeInv, [Next]_vars,
         \A w \in Walks : \A b \in DOMAIN branch[w] : ~BranchStep(w, b)
  PROVE  Calm
<1> USE DEF constVars, histVars, dbVars
<1>1. /\ walk \in [Walks -> WalkRows(graph)] /\ DOMAIN branch = Walks
      /\ sub \in [Nodes -> {"none", "running", "success", "failed", "cancelled"}]
  BY DEF ShapeInv
<1>2. graph' = graph
  BY Steps
<1>3. \A w \in Walks : walk[w].at # "walking" => DOMAIN branch[w] = {}
  BY DEF TreeInv
(* rows that keep what they have *)
<1>4. ASSUME UNCHANGED <<fired, sub, branch>>, touched => touched',
             checkpoint' = checkpoint \/ checkpoint' = NoCheckpoint,
             \A w \in Walks :
               \/ /\ walk'[w].at = walk[w].at \/ walk'[w].at = "clean"
                  /\ walk'[w].out = walk[w].out /\ walk'[w].cached = walk[w].cached
               \/ walk'[w].at = "off" /\ walk'[w].out = {} /\ walk'[w].cached = {}
      PROVE  Calm
  <2>1. checkpoint'.out \subseteq checkpoint.out
    BY <1>4 DEF NoCheckpoint
  <2>2. ASSUME NEW w \in Walks
        PROVE  /\ walk'[w].at = "walking" => walk[w].at = "walking" /\ branch'[w] = branch[w]
               /\ walk'[w].at \in {"new", "walking"} =>
                    walk[w].at \in {"new", "walking"} /\ walk'[w].out = walk[w].out /\ walk'[w].cached = walk[w].cached
               /\ walk'[w].out \cup walk'[w].cached \subseteq walk[w].out \cup walk[w].cached \cup checkpoint.out
    <3>1. CASE /\ walk'[w].at = walk[w].at \/ walk'[w].at = "clean"
               /\ walk'[w].out = walk[w].out /\ walk'[w].cached = walk[w].cached
      BY <1>4, <3>1
    <3>2. CASE walk'[w].at = "off" /\ walk'[w].out = {} /\ walk'[w].cached = {}
      BY <3>2
    <3> QED BY <1>4, <3>1, <3>2
  <2> QED BY <1>2, <1>4, <2>1, <2>2 DEF Calm
<1>5. ASSUME FailSubRuns
      PROVE  \A n \in Nodes : /\ sub[n] = "success" => sub'[n] = "success"
                              /\ sub[n] # "none" => sub'[n] # "none"
  BY <1>1, <1>5 DEF FailSubRuns
<1>10. ASSUME NEW w \in Walks, LoadGraph(w)
      PROVE  Calm
  <2>1. UNCHANGED <<fired, sub, touched, checkpoint>> /\ walk[w].at = "new"
    BY <1>10 DEF LoadGraph
  <2>2. CASE walk' = [walk EXCEPT ![w].at = "walking"] /\ Put(w, <<>>, NewBranch(Start(graph), {}))
    <3>1. /\ walk'[w].at = "walking" /\ walk'[w].out = walk[w].out /\ walk'[w].cached = walk[w].cached
          /\ branch'[w] = With(branch[w], <<>>, NewBranch(Start(graph), {}))
          /\ \A v \in Walks \ {w} : walk'[v] = walk[v] /\ branch'[v] = branch[v]
      BY <1>1, <2>2 DEF WalkRows, Put
    <3>2. \A b \in DOMAIN branch'[w] : branch'[w][b].at # "busy"
      BY <1>3, <2>1, <3>1 DEF With, NewBranch
    <3>3. ASSUME NEW v \in Walks
          PROVE  /\ walk'[v].at = "walking" => \/ walk[v].at = "walking" /\ branch'[v] = branch[v]
                                               \/ \A b \in DOMAIN branch'[v] : branch'[v][b].at # "busy"
                 /\ walk'[v].at \in {"new", "walking"} =>
                      walk[v].at \in {"new", "walking"} /\ walk'[v].out = walk[v].out /\ walk'[v].cached = walk[v].cached
                 /\ walk'[v].out \cup walk'[v].cached \subseteq walk[v].out \cup walk[v].cached \cup checkpoint.out
      BY <2>1, <3>1, <3>2
    <3> QED BY <1>2, <2>1, <3>3 DEF Calm
  <2>3. CASE walk' = [walk EXCEPT ![w].at = "clean", ![w].marked = TRUE] /\ UNCHANGED branch
    <3>1. /\ walk'[w].at = "clean" /\ walk'[w].out = walk[w].out /\ walk'[w].cached = walk[w].cached
          /\ \A v \in Walks \ {w} : walk'[v] = walk[v]
      BY <1>1, <2>3 DEF WalkRows
    <3> QED BY <1>4, <2>1, <2>3, <3>1
  <2> QED BY <1>10, <2>2, <2>3 DEF LoadGraph
<1>11. ASSUME NEW w \in Walks, FinishWalk(w)
      PROVE  Calm
  <2>1. /\ walk'[w].at = "clean" /\ walk'[w].out = walk[w].out /\ walk'[w].cached = walk[w].cached
        /\ \A v \in Walks \ {w} : walk'[v] = walk[v]
    BY <1>1, <1>11 DEF FinishWalk, WalkRows
  <2> QED BY <1>4, <1>11, <2>1 DEF FinishWalk
<1>12. ASSUME NEW w \in Walks, DeleteCheckpoint(w)
      PROVE  Calm
  <2>1. /\ walk'[w].at = "off" /\ walk'[w].out = {} /\ walk'[w].cached = {}
        /\ \A v \in Walks \ {w} : walk'[v] = walk[v]
    BY <1>1, <1>12 DEF DeleteCheckpoint, Asleep
  <2> QED BY <1>4, <1>12, <2>1 DEF DeleteCheckpoint
<1>14. CASE CancelRun
  <2>1. \A w \in Walks : walk'[w].at = walk[w].at /\ walk'[w].out = walk[w].out /\ walk'[w].cached = walk[w].cached
    BY <1>1, <1>14 DEF CancelRun, WalkRows
  <2> QED BY <1>4, <1>14, <2>1 DEF CancelRun
<1>15. CASE ListInterrupted
  BY <1>4, <1>15 DEF ListInterrupted
<1>16. CASE RecoverRun
  <2>1. UNCHANGED <<checkpoint, branch, fired, touched>> /\ FailSubRuns
    BY <1>16 DEF RecoverRun
  <2>2. ASSUME NEW w \in Walks
        PROVE  /\ walk'[w].at = "walking" => walk[w].at = "walking"
               /\ walk'[w].at \in {"new", "walking"} =>
                    \/ walk[w].at \in {"new", "walking"} /\ walk'[w].out = walk[w].out /\ walk'[w].cached = walk[w].cached
                    \/ checkpoint'.out \subseteq walk'[w].cached
               /\ walk'[w].out \cup walk'[w].cached \subseteq walk[w].out \cup walk[w].cached \cup checkpoint.out
    <3>1. CASE walk' = walk
      BY <3>1
    <3>2. CASE walk' = [walk EXCEPT ![walks + 1] = [Asleep EXCEPT !.at = "new", !.cached = checkpoint.out,
                                                                  !.iter = checkpoint.iter]]
      <4>1. w # walks + 1 => walk'[w] = walk[w]
        BY <1>1, <3>2
      <4>2. w = walks + 1 => walk'[w].at = "new" /\ walk'[w].out = {} /\ walk'[w].cached = checkpoint.out
        BY <1>1, <3>2 DEF Asleep
      <4> QED BY <2>1, <4>1, <4>2
    <3> QED BY <1>16, <3>1, <3>2 DEF RecoverRun
  <2> QED BY <1>2, <1>5, <2>1, <2>2 DEF Calm
<1>17. CASE CancelStatus
  BY <1>4, <1>17 DEF CancelStatus
<1>18. CASE Restart
  <2>1. UNCHANGED <<checkpoint, fired, touched>> /\ FailSubRuns
    BY <1>18 DEF Restart
  <2>2. \A w \in Walks : walk'[w].at = "off" /\ walk'[w].out = {} /\ walk'[w].cached = {}
    BY <1>18 DEF Restart, Asleep
  <2> QED BY <1>2, <1>5, <2>1, <2>2 DEF Calm
<1>19. ASSUME NEW w \in Walks, Disconnect(w)
      PROVE  Calm
  <2>1. \A v \in Walks : walk'[v].at = walk[v].at /\ walk'[v].out = walk[v].out /\ walk'[v].cached = walk[v].cached
    BY <1>1, <1>19 DEF Disconnect, WalkRows
  <2> QED BY <1>4, <1>19, <2>1 DEF Disconnect
<1>20. CASE UNCHANGED vars
  BY <1>4, <1>20 DEF vars
<1> QED BY <1>10, <1>11, <1>12, <1>14, <1>15, <1>16, <1>17, <1>18, <1>19, <1>20 DEF Next, Work

(* Who declares a success has come to all that is required. *)
LEMMA SuccessIsEarned ==
  ASSUME ShapeInv, WalksInv, TreeInv, HeldInv, AloneInv, AchievedInv, [Next]_vars,
         graph \in StructuredGraphs, status # "success", status' = "success"
  PROVE  touched' \/ \A n \in Required(graph) : Achieved(n)
<1> USE DEF constVars, histVars, dbVars
<1>1. FailRun(status) # "success"
  BY DEF FailRun
<1>2. PICK w \in Walks : FinishWalk(w)
  <2>1. ASSUME NEW w \in Walks, NEW b \in DOMAIN branch[w], BranchStep(w, b)
        PROVE  FALSE
    BY <1>1, <2>1, BranchStepActs DEF Acts
  <2>2. ASSUME NEW w \in Walks, LoadGraph(w) \/ DeleteCheckpoint(w) \/ Disconnect(w)
        PROVE  FALSE
    BY <1>1, <2>2 DEF LoadGraph, DeleteCheckpoint, Disconnect
  <2>3. ~(CancelRun \/ ListInterrupted \/ RecoverRun \/ CancelStatus \/ Restart \/ UNCHANGED vars)
    BY <1>1 DEF CancelRun, ListInterrupted, RecoverRun, CancelStatus, Restart, vars
  <2> QED BY <2>1, <2>2, <2>3 DEF Next, Work
<1>3. walk[w].at = "walking" /\ ~walk[w].marked /\ <<>> \notin DOMAIN branch[w]
  BY <1>2 DEF FinishWalk, Settle
<1>4. DOMAIN branch[w] = {}
  BY <1>3 DEF TreeInv, TreeOK, BelowParent
<1>5. HeldOK(w) /\ ComingOK(w)
  BY <1>3 DEF HeldInv
<1>6. ASSUME NEW n \in Required(graph), ~touched'
      PROVE  Achieved(n)
  <2>1. n \in Nodes /\ Kind(n) \in SubKinds /\ Narrow(graph)
    BY DEF Required, Nodes, Kind
  <2>2. PICK on \in SUBSET Nodes : LeadsOn(graph, n, on)
    BY DEF Required, Nodes, LeadsOn
  <2>3. n \in taken[w]
    BY <1>3, <1>4, <1>5, <2>1, <2>2 DEF ComingOK, Coming
  <2>4. n \in walk[w].out
    BY <1>3, <1>4, <1>5, <2>1, <2>3 DEF HeldOK
  <2>5. ~touched
    BY <1>2, <1>6 DEF FinishWalk
  <2> QED BY <2>1, <2>4, <2>5 DEF AchievedInv
<1> QED BY <1>6

(* Every step keeps what has been achieved. *)
LEMMA StepKeepsAchieved ==
  ASSUME ShapeInv, WalksInv, TreeInv, OnceInv, HeldInv, AloneInv, AchievedInv, [Next]_vars
  PROVE  AchievedInv'
<1>1. ASSUME NEW w \in Walks, NEW b \in DOMAIN branch[w], BranchStep(w, b)
      PROVE  AchievedInv'
  <2>1. /\ BranchMove(graph, branch[w], branch'[w], taken[w], taken'[w], b, walk'[w].marked)
        /\ Elsewhere(w) /\ Acts(w, b)
    BY <1>1, BranchStepMoves, BranchStepActs
  <2>2. CASE graph \in StructuredGraphs
    <3>1. /\ IsGraph(graph) /\ Structured(graph) /\ OnceOK(graph, branch[w], taken[w]) /\ BranchesOK(graph, branch[w])
          /\ TreeOK(graph, branch[w]) /\ taken[w] \in SUBSET DOMAIN graph.kind
      BY <2>2, GraphsAssumption DEF OnceInv, StructuredGraphs, ShapeInv, TreeInv, Nodes
    <3>2. After(branch[w], branch'[w], taken[w], taken'[w], b)
      BY <2>1, <3>1, BranchesAfter
    <3> QED BY <2>1, <2>2, <3>2, ActKeepsAchieved
  <2>3. CASE graph \notin StructuredGraphs
    BY <2>1, <2>3 DEF AchievedInv, Elsewhere
  <2> QED BY <2>2, <2>3
<1>2. CASE \A w \in Walks : \A b \in DOMAIN branch[w] : ~BranchStep(w, b)
  BY <1>2, OthersAreCalm, SuccessIsEarned, CalmKeepsAchieved
<1> QED BY <1>1, <1>2

(* A success has the result of every agent that is on every way through    *)
(* the graph (executeGroupRun marks a run successful when its walk ends),  *)
(* over all its walks and restarts, when nobody cancels a part of it or    *)
(* leaves, and the run is not started between a boot and its recovery.     *)
THEOREM SuccessComplete ==
  ASSUME ~Overlap
  PROVE  Spec => []SuccessIsComplete
<1>1. ASSUME Init
      PROVE  HeldInv /\ AloneInv /\ AchievedInv
  <2>1. PICK client \in BOOLEAN : FirstWalk(client)
    BY <1>1 DEF Init, Group, RunWorkflowInline
  <2>2. /\ walks = 1 /\ recovery = "idle" /\ status = "running" /\ cancelling = FALSE /\ checkpoint = NoCheckpoint
        /\ touched = FALSE
    BY <1>1 DEF Init
  <2>3. 1 \in Walks
    BY BoundsAssumption DEF Walks
  <2>4. /\ walk[1].at = "new" /\ walk[1].out = {} /\ walk[1].cached = {} /\ ~walk[1].ctx
        /\ \A w \in Walks \ {1} : walk[w] = Asleep
    BY <2>1, <2>3 DEF FirstWalk, Asleep
  <2>5. Asleep.at = "off" /\ Asleep.out = {} /\ Asleep.cached = {} /\ Asleep.ctx = FALSE
    BY DEF Asleep
  <2>6. \A w \in Walks : walk[w].at # "walking" /\ walk[w].out = {} /\ walk[w].cached = {} /\ ~walk[w].ctx
    BY <2>4, <2>5
  <2>7. HeldInv
    BY <2>6 DEF HeldInv
  <2>8. AloneInv
    BY <2>2, <2>4, <2>5, <2>6 DEF AloneInv
  <2>9. AchievedInv
    BY <2>2, <2>6 DEF AchievedInv, NoCheckpoint
  <2> QED BY <2>7, <2>8, <2>9
<1>2. ASSUME ShapeInv, WalksInv, TreeInv, FreshInv, OnceInv, HeldInv, AloneInv, AchievedInv, [Next]_vars
      PROVE  (HeldInv /\ AloneInv /\ AchievedInv)'
  BY <1>2, StepKeepsHeld, StepKeepsAlone, StepKeepsAchieved
<1>3. AchievedInv => SuccessIsComplete
  <2>1. graph \in StructuredGraphs => RequiredIn[graph] = Required(graph)
    BY DEF RequiredIn
  <2> QED BY <2>1 DEF AchievedInv, Achieved, SuccessIsComplete
<1> QED BY <1>1, <1>2, <1>3, WorkflowInvariant, WalksOnce, PTL DEF Spec

=============================================================================
