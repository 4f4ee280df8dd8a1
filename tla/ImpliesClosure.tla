-------------------------- MODULE ImpliesClosure --------------------------
(***************************************************************************)
(* closure.py: the transitive IMPLIES edges that `oddsgraph closure` adds  *)
(* to an exported graph.  For every node and every descendant that is not  *)
(* a direct successor, a breadth-first search finds the path that becomes  *)
(* the edge's premises; the edge's evidence is that of the path's edges.   *)
(* An exported graph has no implication cycle (GraphBuild).                *)
(***************************************************************************)
EXTENDS Naturals, Sequences, SequencesExt, FiniteSets

CONSTANT Nodes   \* what an implication can lead from or to

VARIABLES
  direct,   \* direct: the exported IMPLIES pairs
  todo,     \* pairs of a node and a descendant whose search has not begun
  search,   \* the pair searched for, or <<>>
  queue,    \* queue of _shortest_path
  parent,   \* parent of _shortest_path, on the nodes met
  closure   \* the edges found: [src, tgt, premises]

vars == <<direct, todo, search, queue, parent, closure>>

\* Slip: an implication is followed against its direction too.
SuccessorsEither(n) == {m \in Nodes : <<n, m>> \in direct \/ <<m, n>> \in direct}

Successors(n) == {m \in Nodes : <<n, m>> \in direct}

\* Nodes within k steps of n, and rx.descendants.
Within(n) ==
  LET ball[k \in 0..Cardinality(Nodes)] ==
        IF k = 0 THEN {n} ELSE ball[k - 1] \cup UNION {Successors(m) : m \in ball[k - 1]}
  IN ball
descendants(n) == Within(n)[Cardinality(Nodes)] \ {n}

\* Slip: a pair is searched though it is a direct edge.
SearchedAgain == {st \in Nodes \X Nodes : st[2] \in descendants(st[1])}

\* The pairs the outer loops search for: direct edges are not searched again.
Searched == {st \in Nodes \X Nodes : st[2] \in descendants(st[1]) /\ st \notin direct}

Init ==
  /\ direct = {} /\ todo = {}
  /\ search = <<>> /\ queue = <<>> /\ parent = <<>>
  /\ closure = {}

\* compute_implies_closure begins, on the implications of an exported graph.
Start(implies) ==
  /\ direct' = implies
  /\ todo' = Searched'
  /\ UNCHANGED <<search, queue, parent, closure>>

\* _shortest_path(source, target) begins.
Begin(st) ==
  /\ search = <<>>
  /\ todo' = todo \ {st}
  /\ search' = st
  /\ queue' = <<st[1]>>
  /\ parent' = [n \in {st[1]} |-> st[1]]
  /\ UNCHANGED <<direct, closure>>

\* The path that the parents spell out, from the source to n.
Path(pred, n) ==
  LET walk[m \in DOMAIN pred] == IF pred[m] = m THEN <<m>> ELSE Append(walk[pred[m]], m)
  IN walk[n]

\* The successors a search has not met.
Unmet(n) == Successors(n) \ DOMAIN parent

\* Slip: the new nodes go in front of the queue.
EnqueueInFront(found) == found \o Tail(queue)

\* The new nodes join the queue.
Enqueue(found) == Tail(queue) \o found

\* The head of the queue leaves it and its new successors get it as parent, in
\* the order successor_indices gives; the search stops at the target.
Expand ==
  /\ queue # <<>>
  /\ LET current == Head(queue)
         new == Unmet(current)
         target == search[2]
     IN /\ parent' = [n \in DOMAIN parent \cup new |-> IF n \in new THEN current ELSE parent[n]]
        /\ \E found \in SetToSeqs(new) : queue' = IF target \in new THEN <<>> ELSE Enqueue(found)
        /\ IF target \in new
           THEN /\ closure' = closure \cup
                     {[src |-> search[1], tgt |-> target, premises |-> Path(parent', target)]}
                /\ search' = <<>>
           ELSE UNCHANGED <<closure, search>>
  /\ UNCHANGED <<direct, todo>>

Done == todo = {} /\ search = <<>>

Search == (\E st \in todo : Begin(st)) \/ Expand

=============================================================================
