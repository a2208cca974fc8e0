----------------------------- MODULE WorkflowGraph -----------------------------
(***************************************************************************)
(* The graph of a workflow: where a walk can go from a node, where the     *)
(* branches of a parallel section stop, and which graphs a walk comes to   *)
(* every node of at most once.                                             *)
(*                                                                         *)
(* A graph is [kind, edges]: nodes are numbers, edges a sequence in the    *)
(* order in which the rows are loaded.  "agentless" is a node whose agent  *)
(* is missing, "tool" one of a type that no longer exists.                 *)
(***************************************************************************)
EXTENDS Integers, FiniteSets, Sequences, Functions

SubKinds == {"agent", "supervisor"}          \* executed as a sub-run
EffectKinds == {"webhook", "gateway"}        \* executed inline
Resumable == SubKinds \cup EffectKinds
NodeKinds ==
  Resumable \cup {"start", "parallel", "join", "condition", "loop", "tool", "agentless", "end"}

(* The rows of a workflow that can be walked: edges are between its nodes. *)
IsGraph(g) ==
  /\ g.kind \in Seq(NodeKinds) /\ \E n \in DOMAIN g.kind : g.kind[n] = "start"
  /\ g.edges \in Seq([from : DOMAIN g.kind, to : DOMAIN g.kind, label : STRING])

Start(g) == CHOOSE n \in DOMAIN g.kind : g.kind[n] = "start"

-----------------------------------------------------------------------------
(* Edges *)

(* The members of a finite set of numbers, in increasing order. *)
Sorted(S) == [k \in 1..Cardinality(S) |-> CHOOSE i \in S : Cardinality({j \in S : j <= i}) = k]

(* What a sequence has at the places in I. *)
Keep(s, I) == [k \in 1..Cardinality(I) |-> s[Sorted(I)[k]]]

Out(g, n) == Keep(g.edges, {i \in DOMAIN g.edges : g.edges[i].from = n})
Targets(edges) == [i \in DOMAIN edges |-> edges[i].to]
Labelled(g, n, label) ==
  LET out == Out(g, n) IN Keep(out, {i \in DOMAIN out : out[i].label = label})
Others(g, n, label) ==
  LET out == Out(g, n) IN Keep(out, {i \in DOMAIN out : out[i].label # label})

Successors(g, n) == Targets(IF g.kind[n] = "supervisor" THEN Others(g, n, "delegate") ELSE Out(g, n))

First(s) == IF s = <<>> THEN <<>> ELSE <<Head(s)>>

(* The edge a condition that is met, or not, takes: the first one labelled *)
(* for it, else the default, else the one for "no", else none.             *)
Route(g, n, met) ==
  LET matching == Labelled(g, n, IF met THEN "yes" ELSE "no")
      default  == Labelled(g, n, "*")
  IN  Targets(First(IF matching # <<>> THEN matching
                    ELSE IF default # <<>> THEN default ELSE Labelled(g, n, "no")))

(* A loop goes on by its other edges, or round again by its first "loop".  *)
Round(g, n, done) == Targets(IF done THEN Others(g, n, "loop") ELSE First(Labelled(g, n, "loop")))

-----------------------------------------------------------------------------
(* Parallel sections *)

(* One branch per edge. *)
Branches(g, f) == Targets(Out(g, f))

(* What a search from these edges meets, which does not go beyond a join:  *)
(* the least set closed under the other edges.                             *)
Searched(g, f, met) ==
  \A i \in DOMAIN g.edges :
    LET e == g.edges[i] IN e.from = f \/ (e.from \in met /\ g.kind[e.from] # "join") => e.to \in met
Section(g, f) == {n \in DOMAIN g.kind : \A met \in SUBSET DOMAIN g.kind : Searched(g, f, met) => n \in met}
SectionJoins(g, f) == {j \in Section(g, f) : g.kind[j] = "join"}

-----------------------------------------------------------------------------
(* What the shape of a graph says of the walks through it *)

(* What a visit to n can queue; the branches of a section come on top.     *)
Options(g, n) ==
  CASE g.kind[n] = "condition" -> {Route(g, n, met) : met \in BOOLEAN}
    [] g.kind[n] = "loop" -> {Round(g, n, done) : done \in BOOLEAN}
    [] g.kind[n] = "parallel" -> {Sorted(SectionJoins(g, n))}
    [] g.kind[n] \in {"end", "agentless"} -> {<<>>}
    [] OTHER -> {Successors(g, n)}

Parallel(g) == {f \in DOMAIN g.kind : g.kind[f] = "parallel"}
Inside(g, f) == Section(g, f) \ SectionJoins(g, f)

(* The nodes that can queue n, or start a branch with it. *)
Sources(g, n) ==
  {p \in DOMAIN g.kind : \/ \E next \in Options(g, p) : n \in Range(next)
                         \/ p \in Parallel(g) /\ n \in Range(Branches(g, p))}

(* Every way to n leads over t. *)
Dominates(g, t, n) ==
  \E met \in SUBSET DOMAIN g.kind :
    /\ Start(g) \in met /\ n \notin met
    /\ \A m \in DOMAIN g.kind \ (met \cup {t}) : Sources(g, m) \cap met = {}

(* A condition decides between p and q. *)
Exclusive(g, p, q) ==
  \E c, t, u \in DOMAIN g.kind :
    /\ g.kind[c] = "condition" /\ t # u /\ Sources(g, t) = {c} /\ Sources(g, u) = {c}
    /\ Dominates(g, t, p) /\ Dominates(g, u, q)

(* A section is entered by its parallel node alone; ways meet again only   *)
(* behind a condition, or at a join whose section they are in; and nothing *)
(* leads back.  A walk comes to every node of such a graph at most once.   *)
Structured(g) ==
  /\ \A i \in DOMAIN g.edges : g.edges[i].to # Start(g)
  /\ \A p \in DOMAIN g.kind : /\ \A next \in Options(g, p) : IsInjective(next)
                              /\ p \in Parallel(g) => IsInjective(Branches(g, p))
  /\ \A f \in Parallel(g) : \A n \in Inside(g, f) : Sources(g, n) \subseteq Inside(g, f) \cup {f}
  /\ \A n \in DOMAIN g.kind : \A p, q \in Sources(g, n) :
       \/ p = q \/ Exclusive(g, p, q)
       \/ g.kind[n] = "join" /\ \E f \in Parallel(g) : {p, q} \subseteq Inside(g, f) \cup {f}

(* A branch that comes to the join of its section drops what else it has   *)
(* queued: nothing can be, when every node has one successor there.        *)
Narrow(g) ==
  \A f \in Parallel(g) : \A m \in Inside(g, f) \ Parallel(g) : \A next \in Options(g, m) : Len(next) <= 1

(* The agents that every walk that ends well comes to: whatever is queued, *)
(* one of the nodes in `on` is, until it is n.                             *)
Required(g) ==
  {n \in DOMAIN g.kind :
     /\ g.kind[n] \in SubKinds /\ Narrow(g)
     /\ \E on \in SUBSET DOMAIN g.kind :
          /\ Start(g) \in on
          /\ \A m \in on \ {n} :
               \/ \A next \in Options(g, m) : Range(next) \cap on # {}
               \/ m \in Parallel(g) /\ Range(Branches(g, m)) \cap on # {}}
=============================================================================
