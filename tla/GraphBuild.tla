---------------------------- MODULE GraphBuild ----------------------------
(***************************************************************************)
(* Edges on their way into the exported graph: graphbuild.py, and the rule *)
(* merge of pipeline.py.  Fragment edges (their ends already resolved) are *)
(* deduplicated, accepted or rejected, freed of progression cycles one     *)
(* cycle at a time and of implication cycles all at once; then the rule    *)
(* engine's edges are merged in.                                           *)
(*                                                                         *)
(* A confidence is a level; texts and rule ids are left out.  The finder   *)
(* of cycles is rustworkx: it returns some simple cycle of a cyclic graph, *)
(* which one is its choice, so the code's two safety exits for a cyclic    *)
(* graph without a cycle are not reached.                                  *)
(***************************************************************************)
EXTENDS Naturals, FiniteSets

CONSTANTS
  Nodes,          \* canonical nodes
  NodeType,       \* NodeType[n], one of NodeTypes
  Builds,         \* what a build may start from: the edges of the fragments
                  \* (raw) and of the rule engine (rules)
  MinConfidence   \* settings.minimum_confidence, as a level

Confidences == 0..2

\* The ontology: which types of node an edge of a type may lead from and to.
NodeTypes == {"COMPETITION", "STAGE", "GROUP", "ROUND", "MATCH", "TEAM", "EVENT", "MARKET",
              "OUTCOME", "CONSTRAINT"}
ALLOWED_EDGE_PATTERNS ==
  LET outcomes == {<<"OUTCOME", "OUTCOME">>}
  IN [PART_OF |-> ({"STAGE", "GROUP", "ROUND"} \X {"COMPETITION"})
                    \cup ({"MATCH"} \X {"STAGE", "GROUP", "ROUND"})
                    \cup ({"GROUP", "ROUND"} \X {"STAGE"}),
      HAS_MARKET |-> {<<"EVENT", "MARKET">>},
      HAS_OUTCOME |-> {<<"MARKET", "OUTCOME">>},
      PARTICIPATES_IN |-> {"TEAM"} \X {"COMPETITION", "GROUP", "MATCH", "STAGE", "ROUND"},
      PRICES |-> {"MARKET"} \X {"TEAM", "MATCH", "OUTCOME"},
      QUALIFIES_FOR |-> ({"TEAM"} \X {"STAGE", "ROUND", "GROUP"}) \cup {<<"MATCH", "ROUND">>},
      ADVANCES_TO |-> ({"TEAM"} \X {"ROUND", "STAGE"})
                        \cup {<<"MATCH", "MATCH">>, <<"STAGE", "STAGE">>},
      IMPLIES |-> ({"MARKET"} \X {"MARKET", "OUTCOME"}) \cup outcomes,
      REFERS_TO |-> {"OUTCOME"} \X {"TEAM", "MATCH", "STAGE", "COMPETITION", "GROUP"},
      EQUIVALENT |-> outcomes,
      COMPLEMENT |-> outcomes,
      MUTEX |-> outcomes,
      EXACTLY_ONE |-> {<<"CONSTRAINT", "OUTCOME">>}]
EdgeTypes == DOMAIN ALLOWED_EDGE_PATTERNS
PROGRESSION_EDGE_TYPES == {"ADVANCES_TO", "QUALIFIES_FOR"}

Reasons == {"below_minimum_confidence", "missing_evidence", "missing_endpoint",
            "invalid_pattern", "progression_cycle", "implies_cycle"}

VARIABLES
  pc,        \* "accept", "cycles", "implies", "rules", "done"
  raw,       \* raw_edges: the fragments' edges
  rules,     \* the rule engine's edges
  accepted,  \* accepted edges; graph.edges from "rules" on
  progress,  \* remaining progression edges of the cycle loop
  rejected   \* rejected edges, with their rejection_reason

vars == <<pc, raw, rules, accepted, progress, rejected>>

---------------------------------------------------------------------------
Key(e) == <<e.src, e.tgt, e.type>>
Keys(es) == {Key(e) : e \in es}
OfType(es, type) == {e \in es : e.type = type}
Progression(es) == {e \in es : e.type \in PROGRESSION_EDGE_TYPES}
Reject(es, reason) == {[edge |-> e, reason |-> reason] : e \in es}

\* _dedupe_edges: one edge a key, of the highest confidence and with all the
\* evidence; of equals the earlier edge is the primary, and fragments come first.
Primary(es) ==
  LET best == {e \in es : \A f \in es : f.conf <= e.conf}
  IN IF \E e \in best : e.from = "fragment" THEN "fragment" ELSE "rule"

\* Slip: the evidence of the most confident edge is the merged evidence.
PrimaryEvidence(es) == UNION {e.ev : e \in {x \in es : \A f \in es : f.conf <= x.conf}}
Evidence(es) == UNION {e.ev : e \in es}

Merged(es) ==
  LET e == CHOOSE x \in es : \A f \in es : f.conf <= x.conf
  IN [e EXCEPT !.from = Primary(es), !.ev = Evidence(es)]

Dedupe(es) == {Merged({e \in es : Key(e) = k}) : k \in Keys(es)}

is_allowed_edge(e) == <<NodeType[e.src], NodeType[e.tgt]>> \in ALLOWED_EDGE_PATTERNS[e.type]

\* accept_edges: the first reason against an edge, or its acceptance.  The
\* schema keeps a confidence within 0 and 1, so it is never invalid.
Verdict(e) ==
  IF e.conf < MinConfidence THEN "below_minimum_confidence"
  ELSE IF e.ev = {} THEN "missing_evidence"
  ELSE IF e.src \notin Nodes \/ e.tgt \notin Nodes THEN "missing_endpoint"
  ELSE IF ~is_allowed_edge(e) THEN "invalid_pattern"
  ELSE "accepted"

Acceptable(es) == {e \in es : Verdict(e) = "accepted"}
Refused(es) == {[edge |-> e, reason |-> Verdict(e)] : e \in es \ Acceptable(es)}

\* An edge is on a cycle when its source is in every set of vertices that holds
\* its target and is closed under the edges.
Vertices(es) == {e.src : e \in es} \cup {e.tgt : e \in es}
Closed(S, es) == \A e \in es : e.src \in S => e.tgt \in S
OnCycle(e, es) == \A S \in SUBSET Vertices(es) : e.tgt \in S /\ Closed(S, es) => e.src \in S
Cyclic(es) == \E e \in es : OnCycle(e, es)

\* rx.digraph_find_cycle: the edges of a simple cycle, a self-loop included.
Chained(C) ==
  \A e \in C : /\ Cardinality({f \in C : f.src = e.tgt}) = 1
               /\ Cardinality({f \in C : f.tgt = e.src}) = 1
SimpleCycles(es) ==
  {C \in SUBSET es : C # {} /\ Chained(C) /\ \A D \in SUBSET C : D # {} /\ Chained(D) => D = C}

\* Edge: what the schema lets an edge be.
IsEdge(e) ==
  e \in [src : {e.src}, tgt : {e.tgt}, type : EdgeTypes, conf : Confidences, ev : {e.ev},
         from : {"fragment", "rule"}]

\* The rule engine asserts implications and exclusions, never progressions.
ASSUME BuildAssumption ==
  /\ IsFiniteSet(Nodes)
  /\ NodeType \in [Nodes -> NodeTypes]
  /\ MinConfidence \in Confidences
  /\ \A b \in Builds :
       /\ IsFiniteSet(b.raw)
       /\ \A e \in b.raw : IsEdge(e) /\ e.from = "fragment"
       /\ \A e \in b.rules : IsEdge(e) /\ e.from = "rule" /\ e.type \notin PROGRESSION_EDGE_TYPES

---------------------------------------------------------------------------
Init ==
  /\ pc = "accept"
  /\ \E b \in Builds : raw = b.raw /\ rules = b.rules
  /\ accepted = {} /\ progress = {} /\ rejected = {}

\* build_graph_from_fragments: deduplicate, accept, set progression edges aside.
AcceptEdges ==
  /\ pc = "accept"
  /\ LET ok == Acceptable(Dedupe(raw))
     IN /\ accepted' = ok \ Progression(ok)
        /\ progress' = Progression(ok)
  /\ rejected' = Refused(Dedupe(raw))
  /\ pc' = "cycles"
  /\ UNCHANGED <<raw, rules>>

\* Slips: every edge at a node of the cycle goes; none goes.
DroppedAround(cycle) == {e \in progress : \E f \in cycle : e.src = f.src \/ e.tgt = f.src}
DroppedNone(cycle) == {}

\* One round of _reject_cyclic_progression_edges drops the edges of a cycle.
Dropped(cycle) == cycle

BreakCycle ==
  /\ pc = "cycles" /\ Cyclic(progress)
  /\ \E cycle \in SimpleCycles(progress) :
       /\ progress' = progress \ Dropped(cycle)
       /\ rejected' = rejected \cup Reject(Dropped(cycle), "progression_cycle")
  /\ UNCHANGED <<pc, raw, rules, accepted>>

NoCycleLeft ==
  /\ pc = "cycles" /\ ~Cyclic(progress)
  /\ accepted' = accepted \cup progress
  /\ progress' = {}
  /\ pc' = "implies"
  /\ UNCHANGED <<raw, rules, rejected>>

\* reject_implies_cycle: a cycle takes every implication with it.
RejectImpliesCycle ==
  /\ pc = "implies"
  /\ LET implies == OfType(accepted, "IMPLIES")
     IN IF Cyclic(implies)
        THEN /\ accepted' = accepted \ implies
             /\ rejected' = rejected \cup Reject(implies, "implies_cycle")
        ELSE UNCHANGED <<accepted, rejected>>
  /\ pc' = "rules"
  /\ UNCHANGED <<raw, rules, progress>>

\* Slips in Merge: no cycle is looked for; on a cycle every implication goes.
MergeUnchecked(ok) == Dedupe(accepted \cup ok)
MergeWithoutImplications(ok) ==
  IF Cyclic(OfType(Dedupe(accepted \cup ok), "IMPLIES"))
  THEN Dedupe(accepted \cup ok) \ OfType(Dedupe(accepted \cup ok), "IMPLIES")
  ELSE Dedupe(accepted \cup ok)

\* The graph's edges with the accepted rule edges; a cycle keeps out the rules'
\* implications, never the fragments'.
Merge(ok) ==
  IF Cyclic(OfType(Dedupe(accepted \cup ok), "IMPLIES"))
  THEN Dedupe(accepted \cup (ok \ OfType(ok, "IMPLIES")))
  ELSE Dedupe(accepted \cup ok)

MergeRules ==
  /\ pc = "rules"
  /\ LET ok == Acceptable(rules)
         cyclic == Cyclic(OfType(Dedupe(accepted \cup ok), "IMPLIES"))
     IN /\ accepted' = Merge(ok)
        /\ rejected' = rejected \cup Refused(rules)
             \cup (IF cyclic THEN Reject(OfType(ok, "IMPLIES"), "implies_cycle") ELSE {})
  /\ pc' = "done"
  /\ UNCHANGED <<raw, rules, progress>>

Next == AcceptEdges \/ BreakCycle \/ NoCycleLeft \/ RejectImpliesCycle \/ MergeRules

Spec == Init /\ [][Next]_vars

---------------------------------------------------------------------------
TypeOK ==
  /\ pc \in {"accept", "cycles", "implies", "rules", "done"}
  /\ \A e \in raw : e.from = "fragment"
  /\ \A e \in rules : e.from = "rule"
  /\ \A e \in accepted \cup progress : e.src \in Nodes /\ e.tgt \in Nodes
  /\ progress = Progression(progress)
  /\ \A r \in rejected : r.reason \in Reasons

\* validate_exported_graph, on the edges of the finished build: known ends,
\* evidence, allowed patterns, and neither kind of cycle.
validate_exported_graph(es) ==
  /\ \A e \in es : e.src \in Nodes /\ e.tgt \in Nodes
  /\ \A e \in es : e.ev # {} /\ is_allowed_edge(e)
  /\ ~Cyclic(Progression(es))
  /\ ~Cyclic(OfType(es, "IMPLIES"))

\* What a build exports passes `oddsgraph validate` (pipeline.py:205), whatever
\* the fragments and the rules bring and whichever cycles the finder picks.
ExportValidates == pc = "done" => validate_exported_graph(accepted)

\* "Keep non-cyclic progression edges; reject only edges found on cycles"
\* (graphbuild.py:151): a progression edge is rejected for a cycle only if it is
\* on a cycle of the accepted edges, although the loop's later rounds look at
\* what earlier ones left.
OnlyCyclesRejected ==
  \A r \in rejected : r.reason = "progression_cycle" =>
    OnCycle(r.edge, Progression(Acceptable(Dedupe(raw))))

\* No edge and no evidence goes missing: at the end each fragment's and each
\* rule's edge is in the graph or among the rejected, with the markets it named.
EvidenceAccounted ==
  pc = "done" =>
    \A e \in raw \cup rules :
      \E f \in accepted \cup {r.edge : r \in rejected} : Key(f) = Key(e) /\ e.ev \subseteq f.ev

\* Merging the rules takes no fragment edge out of the graph: on a cycle only
\* the rule implications are dropped (pipeline.py:140).
FragmentEdgesSurvive == [][pc = "rules" => Keys(accepted) \subseteq Keys(accepted')]_vars

=============================================================================
