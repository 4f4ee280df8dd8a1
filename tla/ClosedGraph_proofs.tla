------------------------- MODULE ClosedGraph_proofs -------------------------
(***************************************************************************)
(* What a build exports is valid and accounts for every edge and every     *)
(* market named as evidence, for every set of fragment and rule edges and  *)
(* every choice of cycles.                                                 *)
(*                                                                         *)
(* A graph is cyclic by its pairs of ends alone, so that deduplication,    *)
(* which keeps the keys, keeps it acyclic; and an edge of a simple cycle   *)
(* is on a cycle in the sense of OnCycle, because the edges that leave a   *)
(* closed set of vertices form a chain of their own.                       *)
(*                                                                         *)
(* The closure of the export is exact and its premises are shortest paths, *)
(* because a search meets the claims ball by ball around its source.       *)
(***************************************************************************)
EXTENDS ClosedGraph, Integers, FiniteSetTheorems, TLAPS

AreEdges(es) == \A e \in es : IsEdge(e)

\* An edge's key and its evidence are in a set of edges.
Carried(e, fs) == \E f \in fs : Key(f) = Key(e) /\ e.ev \subseteq f.ev

---------------------------------------------------------------------------
(* Deduplication.                                                          *)

\* Some edge of a set is the most confident one.
LEMMA MostConfident ==
  ASSUME NEW es, es # {}, AreEdges(es)
  PROVE  \E x \in es : \A f \in es : f.conf <= x.conf
<1>1. \A e \in es : e.conf \in 0..2
  BY DEF AreEdges, IsEdge, Confidences
<1>2. CASE \E x \in es : x.conf = 2
  BY <1>1, <1>2
<1>3. CASE \A e \in es : e.conf < 2
  <2>1. CASE \E x \in es : x.conf = 1
    BY <1>1, <1>3, <2>1
  <2>2. CASE \A e \in es : e.conf = 0
    BY <2>2
  <2> QED BY <1>1, <1>3, <2>1, <2>2
<1> QED BY <1>1, <1>2, <1>3

\* Merging equal edges makes one edge with their key and all their evidence.
LEMMA MergedEdge ==
  ASSUME NEW es, es # {}, AreEdges(es)
  PROVE  /\ IsEdge(Merged(es))
         /\ \E e \in es : Key(Merged(es)) = Key(e)
         /\ Merged(es).ev = Evidence(es)
<1> DEFINE x == CHOOSE x \in es : \A f \in es : f.conf <= x.conf
<1>1. x \in es
  BY MostConfident
<1>2. Merged(es) = [x EXCEPT !.from = Primary(es), !.ev = Evidence(es)]
  BY DEF Merged
<1>3. x \in [src : {x.src}, tgt : {x.tgt}, type : EdgeTypes, conf : Confidences, ev : {x.ev},
             from : {"fragment", "rule"}]
  BY <1>1 DEF AreEdges, IsEdge
<1>4. Primary(es) \in {"fragment", "rule"}
  BY DEF Primary
<1> HIDE DEF x
<1> QED BY <1>1, <1>2, <1>3, <1>4 DEF IsEdge, Key

\* An edge of a deduplicated set has the key of an edge of the set, and the
\* evidence of all the edges with that key.
LEMMA DedupeEdge ==
  ASSUME NEW es, AreEdges(es), NEW d \in Dedupe(es)
  PROVE  /\ IsEdge(d)
         /\ \E e \in es : Key(d) = Key(e)
         /\ \A e \in es : Key(e) = Key(d) => e.ev \subseteq d.ev
<1>1. PICK k \in Keys(es) : d = Merged({e \in es : Key(e) = k})
  BY DEF Dedupe
<1> DEFINE same == {e \in es : Key(e) = k}
<1>2. same # {} /\ AreEdges(same)
  BY DEF Keys, AreEdges
<1>3. /\ IsEdge(d)
      /\ \E e \in same : Key(d) = Key(e)
      /\ d.ev = Evidence(same)
  BY <1>1, <1>2, MergedEdge
<1>4. Key(d) = k
  BY <1>3
<1> QED BY <1>3, <1>4 DEF Evidence

\* Deduplication leaves every edge its key and its evidence.
LEMMA DedupeCarries ==
  ASSUME NEW es, AreEdges(es), NEW e \in es
  PROVE  \E d \in Dedupe(es) : Key(d) = Key(e) /\ e.ev \subseteq d.ev
<1> DEFINE same == {f \in es : Key(f) = Key(e)}
           d == Merged(same)
<1>1. d \in Dedupe(es)
  BY DEF Dedupe, Keys
<1>2. same # {} /\ AreEdges(same)
  BY DEF AreEdges
<1>3. (\E f \in same : Key(d) = Key(f)) /\ d.ev = Evidence(same)
  BY <1>2, MergedEdge
<1> QED BY <1>1, <1>3 DEF Evidence

\* It neither adds nor loses a key,
LEMMA DedupeKeys ==
  ASSUME NEW es, AreEdges(es)
  PROVE  Keys(Dedupe(es)) = Keys(es)
BY DedupeEdge, DedupeCarries DEF Keys

\* and leaves a finite set finite.
LEMMA DedupeFinite ==
  ASSUME NEW es, IsFiniteSet(es)
  PROVE  IsFiniteSet(Dedupe(es))
<1> DEFINE f == [e \in es |-> Merged({x \in es : Key(x) = Key(e)})]
<1>1. f \in Surjection(es, Dedupe(es))
  <2>1. \A e \in es : f[e] \in Dedupe(es)
    BY DEF Dedupe, Keys
  <2>2. \A d \in Dedupe(es) : \E e \in es : f[e] = d
    BY DEF Dedupe, Keys
  <2> QED BY <2>1, <2>2 DEF Surjection
<1> QED BY <1>1, FS_Surjection

---------------------------------------------------------------------------
(* Cycles.                                                                 *)

\* Every edge of es has one with the same ends in fs.
EndsWithin(es, fs) == \A e \in es : \E f \in fs : f.src = e.src /\ f.tgt = e.tgt

\* An edge on a cycle is on one in every graph that has the ends of the edges.
LEMMA OnCycleMonotone ==
  ASSUME NEW es, NEW fs, EndsWithin(es, fs), NEW e, NEW f, f.src = e.src, f.tgt = e.tgt,
         e \in es, OnCycle(e, es)
  PROVE  OnCycle(f, fs)
<1> SUFFICES ASSUME NEW S \in SUBSET Vertices(fs), f.tgt \in S, Closed(S, fs)
             PROVE  f.src \in S
  BY DEF OnCycle
<1> DEFINE T == S \cap Vertices(es)
<1>1. e.tgt \in T
  BY DEF Vertices
<1>2. Closed(T, es)
  <2> SUFFICES ASSUME NEW d \in es, d.src \in T
               PROVE  d.tgt \in T
    BY DEF Closed
  <2>1. PICK g \in fs : g.src = d.src /\ g.tgt = d.tgt
    BY DEF EndsWithin
  <2> QED BY <2>1 DEF Closed, Vertices
<1> QED BY <1>1, <1>2 DEF OnCycle

\* So a cyclic graph is cyclic with more edges, or with merged ones.
LEMMA CyclicMonotone ==
  ASSUME NEW es, NEW fs, EndsWithin(es, fs), Cyclic(es)
  PROVE  Cyclic(fs)
<1>1. PICK e \in es : OnCycle(e, es)
  BY DEF Cyclic
<1>2. PICK f \in fs : f.src = e.src /\ f.tgt = e.tgt
  BY DEF EndsWithin
<1>3. OnCycle(f, fs)
  BY <1>1, <1>2, OnCycleMonotone
<1> QED BY <1>3 DEF Cyclic

\* An edge of a simple cycle is on a cycle: the edges of the cycle that leave a
\* closed set of vertices are a cycle of their own, hence all of it.
LEMMA SimpleCycleIsCycle ==
  ASSUME NEW es, IsFiniteSet(es), NEW C \in SimpleCycles(es), NEW e \in C
  PROVE  OnCycle(e, es)
<1> SUFFICES ASSUME NEW S \in SUBSET Vertices(es), e.tgt \in S, Closed(S, es)
             PROVE  e.src \in S
  BY DEF OnCycle
<1> DEFINE D == {f \in C : f.src \in S}
           after == [f \in D |-> CHOOSE g \in C : g.src = f.tgt]
<1>1. C \in SUBSET es /\ Chained(C) /\ \A X \in SUBSET C : X # {} /\ Chained(X) => X = C
  BY DEF SimpleCycles
<1>2. IsFiniteSet(C) /\ IsFiniteSet(D)
  BY <1>1, FS_Subset
<1>3. \A f \in C : \E g \in C : {x \in C : x.src = f.tgt} = {g}
  <2> TAKE f \in C
  <2> DEFINE N == {x \in C : x.src = f.tgt}
  <2>1. Cardinality(N) = 1 /\ IsFiniteSet(N)
    BY <1>1, <1>2, FS_Subset DEF Chained
  <2>2. PICK g : N = {g}
    <3> HIDE DEF N
    <3> QED BY <2>1, FS_Singleton
  <2> QED BY <2>2
<1>4. \A f \in C : \E g \in C : {x \in C : x.tgt = f.src} = {g}
  <2> TAKE f \in C
  <2> DEFINE N == {x \in C : x.tgt = f.src}
  <2>1. Cardinality(N) = 1 /\ IsFiniteSet(N)
    BY <1>1, <1>2, FS_Subset DEF Chained
  <2>2. PICK g : N = {g}
    <3> HIDE DEF N
    <3> QED BY <2>1, FS_Singleton
  <2> QED BY <2>2
<1>5. \A f \in D : after[f] \in D /\ after[f].src = f.tgt
  <2> TAKE f \in D
  <2>1. \E g \in C : g.src = f.tgt
    BY <1>3
  <2>2. after[f] \in C /\ after[f].src = f.tgt
    BY <2>1
  <2>3. f.tgt \in S
    BY <1>1 DEF Closed
  <2> QED BY <2>2, <2>3
<1>6. after \in Injection(D, D)
  <2>1. ASSUME NEW f \in D, NEW g \in D, after[f] = after[g]
        PROVE  f = g
    <3>1. f.tgt = after[f].src /\ g.tgt = after[f].src /\ after[f] \in C
      BY <1>5, <2>1
    <3>2. PICK h \in C : {x \in C : x.tgt = after[f].src} = {h}
      BY <1>4, <3>1
    <3>3. f \in {h} /\ g \in {h}
      BY <3>1, <3>2
    <3> QED BY <3>3
  <2>2. after \in [D -> D]
    BY <1>5
  <2> HIDE DEF after
  <2> QED BY <2>1, <2>2 DEF Injection, IsInjective
<1>7. after \in Surjection(D, D)
  <2> HIDE DEF after, D
  <2> QED BY <1>2, <1>6, FS_Injection
<1>8. D # {}
  <2>1. PICK g \in C : g \in {x \in C : x.src = e.tgt}
    BY <1>3
  <2> QED BY <2>1
<1>9. Chained(D)
  <2> SUFFICES ASSUME NEW d \in D
               PROVE  /\ Cardinality({f \in D : f.src = d.tgt}) = 1
                      /\ Cardinality({f \in D : f.tgt = d.src}) = 1
    BY DEF Chained
  <2>1. {f \in D : f.src = d.tgt} = {f \in C : f.src = d.tgt}
    <3>1. d.tgt \in S
      BY <1>1 DEF Closed
    <3> QED BY <3>1
  <2>2. {f \in D : f.tgt = d.src} = {f \in C : f.tgt = d.src}
    <3>1. PICK h \in C : {x \in C : x.tgt = d.src} = {h}
      BY <1>4
    <3>2. PICK g \in D : after[g] = d
      BY <1>7 DEF Surjection
    <3>3. g.tgt = d.src
      BY <1>5, <3>2
    <3>4. g = h
      <4>1. g \in {x \in C : x.tgt = d.src}
        BY <3>3
      <4> QED BY <3>1, <4>1
    <3> QED BY <3>1, <3>3, <3>4
  <2> QED BY <1>1, <2>1, <2>2 DEF Chained
<1>10. D = C
  BY <1>1, <1>8, <1>9
<1> QED BY <1>10

---------------------------------------------------------------------------
(* The invariant.                                                          *)

\* What an edge has to be to stay in the graph.
Good(e) == IsEdge(e) /\ e.src \in Nodes /\ e.tgt \in Nodes /\ e.ev # {} /\ is_allowed_edge(e)

\* The progression edges that the cycle loop starts from.
FirstProgress == Progression(Acceptable(Dedupe(raw)))

Kept == accepted \cup progress \cup {r.edge : r \in rejected}

InputInv ==
  /\ IsFiniteSet(raw)
  /\ AreEdges(raw) /\ \A e \in raw : e.from = "fragment"
  /\ AreEdges(rules) /\ \A e \in rules : e.from = "rule" /\ e.type \notin PROGRESSION_EDGE_TYPES

GraphInv ==
  /\ pc \in {"accept", "cycles", "implies", "rules", "done"}
  /\ \A e \in accepted \cup progress : Good(e)
  /\ \A e \in progress : e.type \in PROGRESSION_EDGE_TYPES
  /\ pc # "cycles" => progress = {}
  /\ pc = "cycles" => /\ \A e \in accepted : e.type \notin PROGRESSION_EDGE_TYPES
                      /\ progress \subseteq FirstProgress

AcyclicInv ==
  /\ pc \in {"implies", "rules", "done"} => ~Cyclic(Progression(accepted))
  /\ pc \in {"rules", "done"} => ~Cyclic(OfType(accepted, "IMPLIES"))

CarriedInv ==
  /\ pc # "accept" => \A e \in raw : Carried(e, Kept)
  /\ pc = "done" => \A e \in rules : Carried(e, Kept)

RejectedInv ==
  /\ \A r \in rejected : r.reason \in Reasons
  /\ OnlyCyclesRejected

BuildInv == InputInv /\ GraphInv /\ AcyclicInv /\ CarriedInv /\ RejectedInv

\* accept_edges splits the edges into good ones and refused ones.
LEMMA AcceptableEdges ==
  ASSUME NEW es, AreEdges(es)
  PROVE  /\ \A e \in Acceptable(es) : e \in es /\ Good(e)
         /\ \A r \in Refused(es) : r.reason \in Reasons \ {"progression_cycle", "implies_cycle"}
         /\ es \subseteq Acceptable(es) \cup {r.edge : r \in Refused(es)}
<1>1. \A e \in es : IsEdge(e)
  BY DEF AreEdges
<1>2. \A e \in es : Verdict(e) = "accepted" => Good(e)
  BY <1>1 DEF Verdict, Good
<1>3. \A e \in es : Verdict(e) \in {"accepted"} \cup (Reasons \ {"progression_cycle", "implies_cycle"})
  BY DEF Verdict, Reasons
<1>4. \A e \in es \ Acceptable(es) : [edge |-> e, reason |-> Verdict(e)] \in Refused(es)
  BY DEF Refused
<1>5. \A e \in es \ Acceptable(es) : \E r \in Refused(es) : r.edge = e
  BY <1>4
<1> QED BY <1>2, <1>3, <1>5 DEF Acceptable, Refused

\* Deduplicated edges are edges.
LEMMA DedupeOfEdges ==
  ASSUME NEW es, AreEdges(es)
  PROVE  AreEdges(Dedupe(es))
BY DedupeEdge DEF AreEdges

\* The ends of the deduplicated edges of a type, and of the deduplicated progression
\* edges, are those of such edges.
LEMMA DedupeEnds ==
  ASSUME NEW es, AreEdges(es), NEW type
  PROVE  /\ EndsWithin(OfType(Dedupe(es), type), OfType(es, type))
         /\ EndsWithin(Progression(Dedupe(es)), Progression(es))
<1>1. \A d \in Dedupe(es) : \E e \in es : e.src = d.src /\ e.tgt = d.tgt /\ e.type = d.type
  BY DedupeEdge DEF Key
<1> QED BY <1>1 DEF EndsWithin, OfType, Progression

\* A deduplicated set of good edges consists of good edges.
LEMMA DedupeGood ==
  ASSUME NEW es, \A e \in es : Good(e)
  PROVE  \A d \in Dedupe(es) : Good(d)
<1> SUFFICES ASSUME NEW d \in Dedupe(es)
             PROVE  Good(d)
  OBVIOUS
<1>1. AreEdges(es)
  BY DEF AreEdges, Good
<1>2. PICK e \in es : Key(d) = Key(e)
  BY <1>1, DedupeEdge
<1>3. e.ev \subseteq d.ev /\ IsEdge(d)
  BY <1>1, <1>2, DedupeEdge
<1>4. d.src = e.src /\ d.tgt = e.tgt /\ d.type = e.type
  BY <1>2 DEF Key
<1> QED BY <1>3, <1>4 DEF Good, is_allowed_edge

\* Before the build nothing has been judged.
LEMMA InitInv == Init => BuildInv
<1> SUFFICES ASSUME Init
             PROVE  BuildInv
  OBVIOUS
<1>1. InputInv
  BY BuildAssumption DEF Init, InputInv, AreEdges
<1> QED BY <1>1 DEF Init, BuildInv, GraphInv, AcyclicInv, CarriedInv, RejectedInv, OnlyCyclesRejected

\* Deduplication and the checks of accept_edges.
LEMMA AcceptInv ==
  ASSUME BuildInv, AcceptEdges
  PROVE  BuildInv'
<1> DEFINE ok == Acceptable(Dedupe(raw))
<1>1. AreEdges(raw) /\ AreEdges(Dedupe(raw))
  BY DedupeOfEdges DEF BuildInv, InputInv
<1>2. \A e \in ok : Good(e)
  BY <1>1, AcceptableEdges
<1>3. /\ pc' = "cycles" /\ raw' = raw /\ rules' = rules
      /\ accepted' = ok \ Progression(ok)
      /\ progress' = Progression(ok)
      /\ rejected' = Refused(Dedupe(raw))
  BY DEF AcceptEdges
<1>4. InputInv'
  BY <1>3 DEF BuildInv, InputInv
<1>5. GraphInv'
  <2>1. FirstProgress' = FirstProgress
    BY <1>3 DEF FirstProgress
  <2> QED BY <1>2, <1>3, <2>1 DEF GraphInv, FirstProgress, Progression
<1>6. AcyclicInv'
  BY <1>3 DEF AcyclicInv
<1>7. CarriedInv'
  <2>1. \A d \in Dedupe(raw) : d \in Kept'
    <3>1. Dedupe(raw) \subseteq ok \cup {r.edge : r \in Refused(Dedupe(raw))}
      BY <1>1, AcceptableEdges
    <3> QED BY <1>3, <3>1 DEF Kept
  <2>2. \A e \in raw : Carried(e, Kept')
    BY <1>1, <2>1, DedupeCarries DEF Carried
  <2> QED BY <1>3, <2>2 DEF CarriedInv
<1>8. RejectedInv'
  <2>1. \A r \in rejected' : r.reason \in Reasons \ {"progression_cycle", "implies_cycle"}
    BY <1>1, <1>3, AcceptableEdges
  <2> QED BY <2>1 DEF RejectedInv, OnlyCyclesRejected
<1> QED BY <1>4, <1>5, <1>6, <1>7, <1>8 DEF BuildInv

\* Edges that leave the graph for the list of rejected edges stay accounted for.
LEMMA KeptGrows ==
  ASSUME BuildInv, raw' = raw, rules' = rules, Kept \subseteq Kept', pc # "accept",
         pc' = "done" => pc = "done"
  PROVE  CarriedInv'
<1>1. \A e : Carried(e, Kept) => Carried(e, Kept')
  BY DEF Carried
<1> QED BY <1>1 DEF BuildInv, CarriedInv

\* One round of the loop that drops a cycle.
LEMMA BreakInv ==
  ASSUME BuildInv, BreakCycle
  PROVE  BuildInv'
<1>1. PICK cycle \in SimpleCycles(progress) :
        /\ progress' = progress \ cycle
        /\ rejected' = rejected \cup Reject(cycle, "progression_cycle")
  BY DEF BreakCycle, Dropped
<1>2. pc = "cycles" /\ pc' = pc /\ raw' = raw /\ rules' = rules /\ accepted' = accepted
  BY DEF BreakCycle
<1>3. cycle \subseteq progress
  BY DEF SimpleCycles
<1>4. FirstProgress' = FirstProgress
  BY <1>2 DEF FirstProgress
<1>5. InputInv'
  BY <1>2 DEF BuildInv, InputInv
<1>6. GraphInv'
  BY <1>1, <1>2, <1>4 DEF BuildInv, GraphInv
<1>7. AcyclicInv'
  BY <1>2 DEF AcyclicInv
<1>8. CarriedInv'
  <2>1. \A e \in cycle : e \in {r.edge : r \in rejected'}
    <3> TAKE e \in cycle
    <3>1. [edge |-> e, reason |-> "progression_cycle"] \in rejected'
      BY <1>1 DEF Reject
    <3> QED BY <3>1
  <2>2. Kept \subseteq Kept'
    BY <1>1, <1>2, <2>1 DEF Kept
  <2> QED BY <1>2, <2>2, KeptGrows
<1>9. RejectedInv'
  <2>1. \A r \in rejected' \ rejected : r.reason = "progression_cycle" /\ r.edge \in cycle
    BY <1>1 DEF Reject
  <2>2. IsFiniteSet(progress)
    <3>1. IsFiniteSet(Dedupe(raw))
      BY DedupeFinite DEF BuildInv, InputInv
    <3>2. progress \in SUBSET Dedupe(raw)
      BY <1>2 DEF BuildInv, GraphInv, FirstProgress, Progression, Acceptable
    <3> QED BY <3>1, <3>2, FS_Subset
  <2>3. \A e \in cycle : OnCycle(e, FirstProgress)
    <3> TAKE e \in cycle
    <3>1. OnCycle(e, progress)
      BY <2>2, SimpleCycleIsCycle
    <3>2. EndsWithin(progress, FirstProgress)
      BY <1>2 DEF BuildInv, GraphInv, EndsWithin
    <3> QED BY <1>3, <3>1, <3>2, OnCycleMonotone
  <2>4. \A r \in rejected' : r.reason \in Reasons
    BY <2>1 DEF BuildInv, RejectedInv, Reasons
  <2>5. OnlyCyclesRejected'
    BY <1>4, <2>1, <2>3 DEF BuildInv, RejectedInv, OnlyCyclesRejected, FirstProgress
  <2> QED BY <2>4, <2>5 DEF RejectedInv
<1> QED BY <1>5, <1>6, <1>7, <1>8, <1>9 DEF BuildInv

\* The loop is left when no cycle is found.
LEMMA NoCycleInv ==
  ASSUME BuildInv, NoCycleLeft
  PROVE  BuildInv'
<1>1. /\ pc = "cycles" /\ pc' = "implies" /\ ~Cyclic(progress)
      /\ accepted' = accepted \cup progress /\ progress' = {}
      /\ raw' = raw /\ rules' = rules /\ rejected' = rejected
  BY DEF NoCycleLeft
<1>2. InputInv'
  BY <1>1 DEF BuildInv, InputInv
<1>3. GraphInv'
  BY <1>1 DEF BuildInv, GraphInv
<1>4. AcyclicInv'
  <2>1. Progression(accepted') = progress
    BY <1>1 DEF BuildInv, GraphInv, Progression
  <2> QED BY <1>1, <2>1 DEF AcyclicInv
<1>5. CarriedInv'
  <2>1. Kept' = Kept
    BY <1>1 DEF Kept
  <2> QED BY <1>1, <2>1, KeptGrows
<1>6. RejectedInv'
  BY <1>1 DEF BuildInv, RejectedInv, OnlyCyclesRejected
<1> QED BY <1>2, <1>3, <1>4, <1>5, <1>6 DEF BuildInv

\* No edges, no cycle.
LEMMA AcyclicWithout ==
  ASSUME NEW es, NEW type
  PROVE  ~Cyclic(OfType(es \ OfType(es, type), type))
BY DEF Cyclic, OfType

\* A cyclic set of implications is rejected as a whole.
LEMMA RejectImpliesInv ==
  ASSUME BuildInv, RejectImpliesCycle
  PROVE  BuildInv'
<1> DEFINE implies == OfType(accepted, "IMPLIES")
<1>1. /\ pc = "implies" /\ pc' = "rules"
      /\ raw' = raw /\ rules' = rules /\ progress' = progress
  BY DEF RejectImpliesCycle
<1>2. InputInv'
  BY <1>1 DEF BuildInv, InputInv
<1>3. CASE Cyclic(implies)
  <2>1. /\ accepted' = accepted \ implies
        /\ rejected' = rejected \cup Reject(implies, "implies_cycle")
    BY <1>3 DEF RejectImpliesCycle
  <2>2. GraphInv'
    BY <1>1, <2>1 DEF BuildInv, GraphInv
  <2>3. AcyclicInv'
    <3>1. Progression(accepted') = Progression(accepted)
      BY <2>1 DEF OfType, Progression, PROGRESSION_EDGE_TYPES
    <3>2. ~Cyclic(OfType(accepted', "IMPLIES"))
      BY <2>1, AcyclicWithout
    <3> QED BY <1>1, <3>1, <3>2 DEF BuildInv, AcyclicInv
  <2>4. CarriedInv'
    <3>1. \A e \in implies : e \in {r.edge : r \in rejected'}
      <4> TAKE e \in implies
      <4>1. [edge |-> e, reason |-> "implies_cycle"] \in rejected'
        BY <2>1 DEF Reject
      <4> QED BY <4>1
    <3>2. Kept \subseteq Kept'
      BY <1>1, <2>1, <3>1 DEF Kept
    <3> QED BY <1>1, <3>2, KeptGrows
  <2>5. RejectedInv'
    <3>1. \A r \in rejected' \ rejected : r.reason = "implies_cycle"
      BY <2>1 DEF Reject
    <3> QED BY <1>1, <3>1 DEF BuildInv, RejectedInv, OnlyCyclesRejected, Reasons
  <2> QED BY <1>2, <2>2, <2>3, <2>4, <2>5 DEF BuildInv
<1>4. CASE ~Cyclic(implies)
  <2>1. accepted' = accepted /\ rejected' = rejected
    BY <1>4 DEF RejectImpliesCycle
  <2>2. GraphInv'
    BY <1>1, <2>1 DEF BuildInv, GraphInv
  <2>3. AcyclicInv'
    BY <1>1, <1>4, <2>1 DEF BuildInv, AcyclicInv
  <2>4. CarriedInv'
    <3>1. Kept' = Kept
      BY <1>1, <2>1 DEF Kept
    <3> QED BY <1>1, <3>1, KeptGrows
  <2>5. RejectedInv'
    BY <1>1, <2>1 DEF BuildInv, RejectedInv, OnlyCyclesRejected
  <2> QED BY <1>2, <2>2, <2>3, <2>4, <2>5 DEF BuildInv
<1> QED BY <1>3, <1>4

\* The rule edges that a merge lets in beside the accepted ones.
LEMMA MergeShape ==
  ASSUME NEW ok
  PROVE  \E in \in SUBSET ok :
           /\ Merge(ok) = Dedupe(accepted \cup in)
           /\ \/ ~Cyclic(OfType(Dedupe(accepted \cup in), "IMPLIES")) /\ in = ok
              \/ /\ Cyclic(OfType(Dedupe(accepted \cup ok), "IMPLIES"))
                 /\ in = ok \ OfType(ok, "IMPLIES")
<1>1. CASE Cyclic(OfType(Dedupe(accepted \cup ok), "IMPLIES"))
  <2>1. Merge(ok) = Dedupe(accepted \cup (ok \ OfType(ok, "IMPLIES")))
    BY <1>1 DEF Merge
  <2>2. ok \ OfType(ok, "IMPLIES") \in SUBSET ok
    OBVIOUS
  <2> QED BY <1>1, <2>1, <2>2
<1>2. CASE ~Cyclic(OfType(Dedupe(accepted \cup ok), "IMPLIES"))
  <2>1. Merge(ok) = Dedupe(accepted \cup ok)
    BY <1>2 DEF Merge
  <2> QED BY <1>2, <2>1
<1> QED BY <1>1, <1>2

\* The merge keeps the keys of the graph and keeps it acyclic.
LEMMA MergeInv ==
  ASSUME BuildInv, MergeRules
  PROVE  BuildInv' /\ Keys(accepted) \subseteq Keys(accepted')
<1> DEFINE ok == Acceptable(rules)
           cyclic == Cyclic(OfType(Dedupe(accepted \cup ok), "IMPLIES"))
<1>1. /\ pc = "rules" /\ pc' = "done" /\ accepted' = Merge(ok)
      /\ rejected' = rejected \cup Refused(rules)
           \cup (IF cyclic THEN Reject(OfType(ok, "IMPLIES"), "implies_cycle") ELSE {})
      /\ raw' = raw /\ rules' = rules /\ progress' = progress
  BY DEF MergeRules
<1>2. PICK in \in SUBSET ok :
        /\ Merge(ok) = Dedupe(accepted \cup in)
        /\ \/ ~Cyclic(OfType(Dedupe(accepted \cup in), "IMPLIES")) /\ in = ok
           \/ cyclic /\ in = ok \ OfType(ok, "IMPLIES")
  BY MergeShape
<1>3. AreEdges(rules) /\ \A e \in ok : e \in rules /\ Good(e)
  BY AcceptableEdges DEF BuildInv, InputInv
<1>4. \A e \in accepted \cup in : Good(e)
  BY <1>3 DEF BuildInv, GraphInv
<1>5. AreEdges(accepted \cup in)
  BY <1>4 DEF AreEdges, Good
<1>6. InputInv'
  BY <1>1 DEF BuildInv, InputInv
<1>7. GraphInv'
  <2>1. \A e \in accepted' : Good(e)
    BY <1>1, <1>2, <1>4, DedupeGood
  <2> QED BY <1>1, <2>1 DEF BuildInv, GraphInv
<1>8. AcyclicInv'
  <2>1. ~Cyclic(Progression(accepted)) /\ ~Cyclic(OfType(accepted, "IMPLIES"))
    BY <1>1 DEF BuildInv, AcyclicInv
  <2>2. ~Cyclic(Progression(accepted'))
    <3>1. Progression(accepted \cup in) = Progression(accepted)
      BY <1>3 DEF Progression, BuildInv, InputInv
    <3>2. EndsWithin(Progression(accepted'), Progression(accepted))
      BY <1>1, <1>2, <1>5, <3>1, DedupeEnds
    <3> QED BY <2>1, <3>2, CyclicMonotone
  <2>3. ~Cyclic(OfType(accepted', "IMPLIES"))
    <3>1. CASE in = ok \ OfType(ok, "IMPLIES")
      <4>1. OfType(accepted \cup in, "IMPLIES") = OfType(accepted, "IMPLIES")
        BY <3>1 DEF OfType
      <4>2. EndsWithin(OfType(accepted', "IMPLIES"), OfType(accepted, "IMPLIES"))
        BY <1>1, <1>2, <1>5, <4>1, DedupeEnds
      <4> QED BY <2>1, <4>2, CyclicMonotone
    <3>2. CASE ~Cyclic(OfType(Dedupe(accepted \cup in), "IMPLIES"))
      BY <1>1, <1>2, <3>2
    <3> QED BY <1>2, <3>1, <3>2
  <2> QED BY <2>2, <2>3 DEF AcyclicInv
<1>9. \A e \in accepted \cup in : Carried(e, accepted')
  BY <1>1, <1>2, <1>5, DedupeCarries DEF Carried
<1>10. CarriedInv'
  <2>1. \A e \in rejected : e \in rejected'
    BY <1>1
  <2>2. \A e \in raw : Carried(e, Kept')
    <3> TAKE e \in raw
    <3>1. PICK f \in Kept : Key(f) = Key(e) /\ e.ev \subseteq f.ev
      BY <1>1 DEF BuildInv, CarriedInv, Carried
    <3>2. CASE f \in accepted
      <4>1. PICK g \in accepted' : Key(g) = Key(f) /\ f.ev \subseteq g.ev
        BY <1>9, <3>2 DEF Carried
      <4> QED BY <3>1, <4>1 DEF Carried, Kept
    <3>3. CASE f \in {r.edge : r \in rejected}
      BY <2>1, <3>1, <3>3 DEF Carried, Kept
    <3>4. progress = {}
      BY <1>1 DEF BuildInv, GraphInv
    <3> QED BY <3>1, <3>2, <3>3, <3>4 DEF Kept
  <2>3. \A e \in rules : Carried(e, Kept')
    <3> TAKE e \in rules
    <3>1. CASE e \in in
      <4>1. Carried(e, accepted')
        BY <1>9, <3>1
      <4> QED BY <4>1 DEF Carried, Kept
    <3>2. CASE e \in ok \ in
      <4>1. cyclic /\ e \in OfType(ok, "IMPLIES")
        BY <1>2, <3>2
      <4>2. [edge |-> e, reason |-> "implies_cycle"] \in rejected'
        BY <1>1, <4>1 DEF Reject
      <4>3. e \in Kept'
        BY <4>2 DEF Kept
      <4> QED BY <4>3 DEF Carried
    <3>3. CASE e \notin ok
      <4>1. e \in {r.edge : r \in Refused(rules)}
        BY <1>3, <3>3, AcceptableEdges
      <4>2. e \in Kept'
        BY <1>1, <4>1 DEF Kept
      <4> QED BY <4>2 DEF Carried
    <3> QED BY <3>1, <3>2, <3>3
  <2> QED BY <1>1, <2>2, <2>3 DEF CarriedInv
<1>11. RejectedInv'
  <2>1. \A r \in Refused(rules) : r.reason \in Reasons \ {"progression_cycle"}
    BY <1>3, AcceptableEdges
  <2>2. \A r \in Reject(OfType(ok, "IMPLIES"), "implies_cycle") : r.reason = "implies_cycle"
    BY DEF Reject
  <2>3. \A r \in rejected' \ rejected : r.reason \in Reasons \ {"progression_cycle"}
    BY <1>1, <2>1, <2>2 DEF Reasons
  <2> QED BY <1>1, <2>3 DEF BuildInv, RejectedInv, OnlyCyclesRejected
<1>12. Keys(accepted) \subseteq Keys(accepted')
  BY <1>1, <1>2, <1>5, DedupeKeys DEF Keys
<1> QED BY <1>6, <1>7, <1>8, <1>10, <1>11, <1>12 DEF BuildInv

\* What edges are accepted, rejected and still to be judged at every step of a
\* build, for any fragments, any rules and any cycles found (graphbuild.py:211-254,
\* pipeline.py:131-158).
THEOREM BuildInvHolds == Spec => []BuildInv
<1>1. BuildInv /\ [Next]_vars => BuildInv'
  <2> SUFFICES ASSUME BuildInv, [Next]_vars
               PROVE  BuildInv'
    OBVIOUS
  <2>1. CASE UNCHANGED vars
    BY <2>1 DEF vars, BuildInv, InputInv, GraphInv, AcyclicInv, CarriedInv, RejectedInv,
                FirstProgress, Kept, OnlyCyclesRejected
  <2>2. CASE AcceptEdges
    BY <2>2, AcceptInv
  <2>3. CASE BreakCycle
    BY <2>3, BreakInv
  <2>4. CASE NoCycleLeft
    BY <2>4, NoCycleInv
  <2>5. CASE RejectImpliesCycle
    BY <2>5, RejectImpliesInv
  <2>6. CASE MergeRules
    BY <2>6, MergeInv
  <2> QED BY <2>1, <2>2, <2>3, <2>4, <2>5, <2>6 DEF Next
<1> QED BY <1>1, InitInv, PTL DEF Spec

---------------------------------------------------------------------------
(* The properties.                                                         *)

\* Edges keep to their sources, to nodes of the graph and to their types at
\* every step of the build (graphbuild.py:211-254).
THEOREM TypeCorrect == Spec => []TypeOK
<1>1. BuildInv => TypeOK
  <2> SUFFICES ASSUME BuildInv
               PROVE  TypeOK
    OBVIOUS
  <2>1. progress = Progression(progress)
    BY DEF BuildInv, GraphInv, Progression
  <2> QED BY <2>1 DEF TypeOK, BuildInv, InputInv, GraphInv, RejectedInv, Good
<1> QED BY <1>1, BuildInvHolds, PTL

\* Whatever the fragments and the rules bring and whichever cycles the finder
\* picks, the exported graph passes validate_exported_graph (pipeline.py:205).
THEOREM ExportIsValid == Spec => []ExportValidates
<1>1. BuildInv => ExportValidates
  BY DEF BuildInv, GraphInv, AcyclicInv, ExportValidates, validate_exported_graph, Good
<1> QED BY <1>1, BuildInvHolds, PTL

\* A progression edge is rejected for a cycle only if it is on a cycle of the
\* accepted edges, although later rounds of the loop look at what earlier ones
\* left (graphbuild.py:151).
THEOREM CycleRejectionsJustified == Spec => []OnlyCyclesRejected
<1>1. BuildInv => OnlyCyclesRejected
  BY DEF BuildInv, RejectedInv
<1> QED BY <1>1, BuildInvHolds, PTL

\* Every edge that a fragment or a rule brought is in the finished graph or
\* among the rejected, with the markets that it named (graphbuild.py:25-46).
THEOREM NoEvidenceLost == Spec => []EvidenceAccounted
<1>1. BuildInv => EvidenceAccounted
  <2> SUFFICES ASSUME BuildInv, pc = "done", NEW e \in raw \cup rules
               PROVE  \E f \in accepted \cup {r.edge : r \in rejected} :
                        Key(f) = Key(e) /\ e.ev \subseteq f.ev
    BY DEF EvidenceAccounted
  <2>1. Carried(e, Kept) /\ progress = {}
    BY DEF BuildInv, GraphInv, CarriedInv
  <2> QED BY <2>1 DEF Carried, Kept
<1> QED BY <1>1, BuildInvHolds, PTL

\* Merging the rule edges takes no fragment edge out of the graph
\* (pipeline.py:140).
THEOREM MergeKeepsFragments == Spec => FragmentEdgesSurvive
<1>1. BuildInv /\ [Next]_vars => [pc = "rules" => Keys(accepted) \subseteq Keys(accepted')]_vars
  <2> SUFFICES ASSUME BuildInv, Next, pc = "rules"
               PROVE  Keys(accepted) \subseteq Keys(accepted')
    OBVIOUS
  <2>1. MergeRules
    BY DEF Next, AcceptEdges, BreakCycle, NoCycleLeft, RejectImpliesCycle
  <2> QED BY <2>1, MergeInv
<1> QED BY <1>1, BuildInvHolds, PTL DEF Spec, FragmentEdgesSurvive

---------------------------------------------------------------------------
(* The balls around a claim.                                               *)

Size == Cardinality(Claims)

\* ImpliesClosure counts with a FiniteSets of its own.
LEMMA SameCardinality == \A S : IC!Cardinality(S) = Cardinality(S)
BY DEF IC!Cardinality, Cardinality

\* Induction, for a set of numbers.
LEMMA NatSetInduction ==
  ASSUME NEW S, 0 \in S, \A n \in Nat : n \in S => n + 1 \in S
  PROVE  Nat \subseteq S
<1> DEFINE R == StrictSubsetOrdering(Nat)
           Below(n) == 0 .. (n - 1)
           T == {Below(n) : n \in Nat \ S}
<1>1. SUFFICES ASSUME T # {} PROVE FALSE
  OBVIOUS
<1>2. T \subseteq FiniteSubsetsOf(Nat)
  <2>1. ASSUME NEW n \in Nat PROVE Below(n) \in FiniteSubsetsOf(Nat)
    <3>1. 0 \in Int /\ n - 1 \in Int
      OBVIOUS
    <3>2. IsFiniteSet(0 .. (n - 1))
      BY <3>1, FS_Interval
    <3> QED BY <3>2 DEF FiniteSubsetsOf
  <2> QED BY <2>1
<1>3. PICK B \in T : \A A \in T : ~ (<<A, B>> \in R)
  <2> HIDE DEF T, R
  <2>1. IsWellFoundedOn(R, FiniteSubsetsOf(Nat))
    BY FS_StrictSubsetOrderingWellFounded DEF R
  <2> QED BY <1>1, <1>2, <2>1, WFMin
<1>4. PICK n \in Nat \ S : B = Below(n)
  BY <1>3
<1>5. n # 0 /\ n - 1 \in Nat /\ n - 1 \notin S
  OBVIOUS
<1>6. Below(n - 1) \in T
  BY <1>5
<1>7. Below(n - 1) \subseteq Below(n) /\ Below(n - 1) # Below(n)
  <2>1. n - 1 \in Below(n) /\ n - 1 \notin Below(n - 1)
    BY <1>5
  <2> QED BY <2>1, <1>5
<1>8. <<Below(n - 1), Below(n)>> \in R
  BY <1>7, <1>5 DEF StrictSubsetOrdering
<1> QED BY <1>3, <1>4, <1>6, <1>8

\* f is the balls around n up to radius K.
Outward(n, k, f) ==
  IF k = 0 THEN {n} ELSE f[k - 1] \cup UNION {IC!Successors(m) : m \in f[k - 1]}
Balls(n, K, f) == f = [k \in 0..K |-> Outward(n, k, f)]

\* Balls exist to any radius.
LEMMA BallsExist == ASSUME NEW n, NEW K \in Nat PROVE \E f : Balls(n, K, f)
<1> DEFINE S == {k \in Nat : \E f : Balls(n, k, f)}
<1>1. 0 \in S
  <2> DEFINE f == [k \in 0..0 |-> {n}]
  <2>1. Balls(n, 0, f)
    BY DEF Balls, Outward
  <2> QED BY <2>1
<1>2. ASSUME NEW k \in Nat, k \in S PROVE k + 1 \in S
  <2>1. PICK f : Balls(n, k, f)
    BY <1>2
  <2> DEFINE last == f[k] \cup UNION {IC!Successors(m) : m \in f[k]}
             g == [j \in 0..(k + 1) |-> IF j = k + 1 THEN last ELSE f[j]]
  <2> HIDE DEF last
  <2>2. ASSUME NEW j \in 0..(k + 1) PROVE g[j] = Outward(n, j, g)
    <3>1. CASE j = k + 1
      <4>1. g[k] = f[k] /\ j - 1 = k /\ j # 0
        BY <3>1
      <4>2. g[j] = last
        BY <3>1
      <4> QED BY <4>1, <4>2 DEF Outward, last
    <3>2. CASE j # k + 1
      <4>1. j \in 0..k /\ g[j] = f[j] /\ f[j] = Outward(n, j, f)
        BY <3>2, <2>1 DEF Balls
      <4>2. j # 0 => g[j - 1] = f[j - 1]
        BY <4>1
      <4> QED BY <4>1, <4>2 DEF Outward
    <3> QED BY <3>1, <3>2
  <2>3. Balls(n, k + 1, g)
    BY <2>2 DEF Balls
  <2> QED BY <2>3
<1>3. Nat \subseteq S
  <2> HIDE DEF S
  <2> QED BY <1>1, <1>2, NatSetInduction
<1> QED BY <1>3

\* Within(n) is them.
LEMMA WithinBalls == ASSUME NEW n, IsFiniteSet(Claims) PROVE Balls(n, Size, IC!Within(n))
<1>1. IC!Cardinality(Claims) = Size
  BY SameCardinality DEF Size
<1>2. IC!Within(n) =
        CHOOSE f : f = [k \in 0..IC!Cardinality(Claims) |->
                          IF k = 0 THEN {n}
                          ELSE f[k - 1] \cup UNION {IC!Successors(m) : m \in f[k - 1]}]
  BY Zenon DEF IC!Within
<1>3. IC!Within(n) =
        CHOOSE f : f = [k \in 0..Size |->
                          IF k = 0 THEN {n}
                          ELSE f[k - 1] \cup UNION {IC!Successors(m) : m \in f[k - 1]}]
  BY <1>1, <1>2, Zenon
<1>4. IC!Within(n) = CHOOSE f : Balls(n, Size, f)
  BY <1>3, Zenon DEF Balls, Outward
<1>5. \E f : Balls(n, Size, f)
  BY BallsExist, FS_CardinalityType DEF Size
<1> QED BY <1>4, <1>5, Zenon

\* A ball is the one before it and that one's successors.
LEMMA WithinSteps ==
  ASSUME NEW n \in Claims, IsFiniteSet(Claims)
  PROVE  /\ IC!Within(n)[0] = {n}
         /\ \A k \in 1..Size : IC!Within(n)[k] = IC!Within(n)[k - 1]
                                 \cup UNION {IC!Successors(m) : m \in IC!Within(n)[k - 1]}
<1>1. Size \in Nat
  BY FS_CardinalityType DEF Size
<1>2. Balls(n, Size, IC!Within(n))
  BY WithinBalls
<1>3. ASSUME NEW f, Balls(n, Size, f)
      PROVE  /\ f[0] = {n}
             /\ \A k \in 1..Size : f[k] = f[k - 1] \cup UNION {IC!Successors(m) : m \in f[k - 1]}
  <2>1. \A k \in 0..Size : f[k] = Outward(n, k, f)
    BY <1>3, Zenon DEF Balls
  <2>2. f[0] = {n}
    <3>1. 0 \in 0..Size
      BY <1>1
    <3>2. f[0] = Outward(n, 0, f)
      BY <2>1, <3>1
    <3> QED BY <3>2 DEF Outward
  <2>3. ASSUME NEW k \in 1..Size
        PROVE  f[k] = f[k - 1] \cup UNION {IC!Successors(m) : m \in f[k - 1]}
    <3>1. k \in 0..Size /\ k # 0
      BY <1>1
    <3>2. f[k] = Outward(n, k, f)
      BY <2>1, <3>1
    <3> QED BY <3>1, <3>2, Zenon DEF Outward
  <2> QED BY <2>2, <2>3
<1> HIDE DEF Size
<1> QED BY <1>2, <1>3

\* Every ball holds its centre, and claims only.
LEMMA WithinClaims ==
  ASSUME NEW n \in Claims, IsFiniteSet(Claims), NEW k \in 0..Size
  PROVE  n \in IC!Within(n)[k] /\ IC!Within(n)[k] \subseteq Claims
<1> DEFINE W == IC!Within(n)
           S == {j \in Nat : j <= Size => n \in W[j] /\ W[j] \subseteq Claims}
<1>1. Size \in Nat
  BY FS_CardinalityType DEF Size
<1>2. /\ W[0] = {n}
      /\ \A j \in 1..Size : W[j] = W[j - 1] \cup UNION {IC!Successors(m) : m \in W[j - 1]}
  BY WithinSteps
<1> HIDE DEF W
<1>3. 0 \in S
  BY <1>2
<1>4. ASSUME NEW j \in Nat, j \in S PROVE j + 1 \in S
  <2> SUFFICES ASSUME j + 1 <= Size PROVE n \in W[j + 1] /\ W[j + 1] \subseteq Claims
    OBVIOUS
  <2>1. n \in W[j] /\ W[j] \subseteq Claims
    BY <1>4, <1>1
  <2>2. W[j + 1] = W[j] \cup UNION {IC!Successors(m) : m \in W[j]}
    BY <1>1, <1>2
  <2>3. \A m \in W[j] : IC!Successors(m) \subseteq Claims
    BY DEF IC!Successors
  <2> QED BY <2>1, <2>2, <2>3
<1>5. Nat \subseteq S
  <2> HIDE DEF S
  <2> QED BY <1>3, <1>4, NatSetInduction
<1>6. k \in S
  BY <1>5, <1>1
<1> QED BY <1>6, <1>1 DEF W

\* The last ball is closed: one that is not has grown with every step, and
\* would have more nodes than there are.
LEMMA WithinIsClosed ==
  ASSUME NEW n \in Claims, IsFiniteSet(Claims)
  PROVE  \A m \in IC!Within(n)[Size] : IC!Successors(m) \subseteq IC!Within(n)[Size]
<1> DEFINE W == IC!Within(n)
           Stable(k) == \A m \in W[k] : IC!Successors(m) \subseteq W[k]
           S == {k \in Nat : k <= Size => Stable(k) \/ Cardinality(W[k]) >= k + 1}
<1>1. Size \in Nat
  BY FS_CardinalityType DEF Size
<1>2. /\ W[0] = {n}
      /\ \A j \in 1..Size : W[j] = W[j - 1] \cup UNION {IC!Successors(m) : m \in W[j - 1]}
  BY WithinSteps
<1>3. \A k \in 0..Size : n \in W[k] /\ W[k] \subseteq Claims
  BY WithinClaims
<1> HIDE DEF W, Size
<1>4. \A k \in 0..Size : IsFiniteSet(W[k])
  BY <1>3, FS_Subset
<1>5. 0 \in S
  BY <1>2, FS_Singleton
<1>6. ASSUME NEW k \in Nat, k \in S PROVE k + 1 \in S
  <2> SUFFICES ASSUME k + 1 <= Size PROVE Stable(k + 1) \/ Cardinality(W[k + 1]) >= k + 2
    OBVIOUS
  <2>1. k \in 0..Size /\ k + 1 \in 0..Size /\ k + 1 \in 1..Size /\ k + 1 - 1 = k
    BY <1>1
  <2>2. W[k + 1] = W[k] \cup UNION {IC!Successors(m) : m \in W[k]}
    BY <1>2, <2>1
  <2>3. Stable(k) \/ Cardinality(W[k]) >= k + 1
    BY <1>6, <2>1, <1>1
  <2>4. CASE Stable(k)
    <3>1. W[k + 1] = W[k]
      BY <2>2, <2>4
    <3> QED BY <2>4, <3>1
  <2>5. CASE ~Stable(k) /\ Cardinality(W[k]) >= k + 1
    <3>1. PICK m \in W[k] : \E t \in IC!Successors(m) : t \notin W[k]
      BY <2>5
    <3> PICK t \in IC!Successors(m) : t \notin W[k]
      BY <3>1
    <3>2. t \in W[k + 1] /\ W[k] \subseteq W[k + 1]
      BY <2>2, <3>1
    <3>3. /\ IsFiniteSet(W[k] \cup {t})
          /\ Cardinality(W[k] \cup {t}) = Cardinality(W[k]) + 1
      BY <1>4, <2>1, <3>1, FS_AddElement
    <3>4. Cardinality(W[k] \cup {t}) <= Cardinality(W[k + 1])
      BY <1>4, <2>1, <3>2, FS_Subset
    <3>5. Cardinality(W[k + 1]) \in Nat /\ Cardinality(W[k]) \in Nat
      BY <1>4, <2>1, FS_CardinalityType
    <3> QED BY <2>5, <3>3, <3>4, <3>5
  <2> QED BY <2>3, <2>4, <2>5
<1>7. Nat \subseteq S
  <2> HIDE DEF S
  <2> QED BY <1>5, <1>6, NatSetInduction
<1>8. Stable(Size) \/ Cardinality(W[Size]) >= Size + 1
  BY <1>1, <1>7
<1>9. Cardinality(W[Size]) <= Size
  <2>1. Size \in 0..Size
    BY <1>1
  <2> QED BY <1>3, <2>1, FS_Subset DEF Size
<1>10. Cardinality(W[Size]) \in Nat
  <2>1. Size \in 0..Size
    BY <1>1
  <2> QED BY <1>4, <2>1, FS_CardinalityType
<1>11. Stable(Size)
  BY <1>1, <1>8, <1>9, <1>10
<1> QED BY <1>11 DEF W

\* A set that holds the node and is closed holds every ball around it.
LEMMA WithinClosedSets ==
  ASSUME NEW n \in Claims, IsFiniteSet(Claims), NEW T,
         n \in T, \A m \in T : IC!Successors(m) \subseteq T,
         NEW k \in 0..Size
  PROVE  IC!Within(n)[k] \subseteq T
<1> DEFINE W == IC!Within(n)
           S == {j \in Nat : j <= Size => W[j] \subseteq T}
<1>1. Size \in Nat
  BY FS_CardinalityType DEF Size
<1>2. /\ W[0] = {n}
      /\ \A j \in 1..Size : W[j] = W[j - 1] \cup UNION {IC!Successors(m) : m \in W[j - 1]}
  BY WithinSteps
<1> HIDE DEF W
<1>3. 0 \in S
  BY <1>2
<1>4. ASSUME NEW j \in Nat, j \in S PROVE j + 1 \in S
  <2> SUFFICES ASSUME j + 1 <= Size PROVE W[j + 1] \subseteq T
    OBVIOUS
  <2>1. W[j] \subseteq T
    BY <1>4, <1>1
  <2>2. W[j + 1] = W[j] \cup UNION {IC!Successors(m) : m \in W[j]}
    BY <1>1, <1>2
  <2> QED BY <2>1, <2>2
<1>5. Nat \subseteq S
  <2> HIDE DEF S
  <2> QED BY <1>3, <1>4, NatSetInduction
<1> QED BY <1>1, <1>5 DEF W

\* So the nodes of the last ball are those that follow from the first.
LEMMA WithinIsFollows ==
  ASSUME IsFiniteSet(Claims), direct = Exported, Exported \subseteq Claims \X Claims,
         NEW s \in Claims, NEW t \in Claims
  PROVE  t \in IC!Within(s)[Size] <=> Follows(s, t)
<1>1. Size \in Nat
  BY FS_CardinalityType DEF Size
<1>2. ASSUME t \in IC!Within(s)[Size] PROVE Follows(s, t)
  <2> SUFFICES ASSUME NEW T \in SUBSET Claims, s \in T,
                      \A p \in Exported : p[1] \in T => p[2] \in T
               PROVE  t \in T
    BY Zenon DEF Follows
  <2>1. \A m \in T : IC!Successors(m) \subseteq T
    BY DEF IC!Successors
  <2>2. IC!Within(s)[Size] \subseteq T
    BY <1>1, <2>1, WithinClosedSets
  <2> QED BY <1>2, <2>2
<1>3. ASSUME Follows(s, t) PROVE t \in IC!Within(s)[Size]
  <2>1. s \in IC!Within(s)[Size] /\ IC!Within(s)[Size] \subseteq Claims
    BY <1>1, WithinClaims
  <2>2. ASSUME NEW p \in Exported, p[1] \in IC!Within(s)[Size]
        PROVE  p[2] \in IC!Within(s)[Size]
    <3>1. p[2] \in IC!Successors(p[1])
      BY DEF IC!Successors
    <3> QED BY <2>2, <3>1, WithinIsClosed
  <2> QED BY <1>3, <2>1, <2>2 DEF Follows
<1> QED BY <1>2, <1>3

---------------------------------------------------------------------------
(* The parents of a search spell out one path each.                        *)

Solves(pred, f) ==
  f = [m \in DOMAIN pred |-> IF pred[m] = m THEN <<m>> ELSE Append(f[pred[m]], m)]
Walk(pred) == CHOOSE f : Solves(pred, f)
Grounded(pred) == \A f : Solves(pred, f) <=> f = Walk(pred)

\* _shortest_path reads its answer off the parents.
LEMMA PathIsWalk == \A pred, n : IC!Path(pred, n) = Walk(pred)[n]
BY Zenon DEF IC!Path, Walk, Solves

\* A search begins with the path of its source.
LEMMA WalkOfOne ==
  ASSUME NEW s, NEW pred, pred = [n \in {s} |-> s]
  PROVE  Grounded(pred) /\ Walk(pred) = [n \in {s} |-> <<s>>]
<1> DEFINE G == [n \in {s} |-> <<s>>]
<1>1. \A f : Solves(pred, f) <=> f = G
  BY DEF Solves
<1> HIDE DEF G
<1>2. Walk(pred) = G
  BY <1>1 DEF Walk
<1> QED BY <1>1, <1>2 DEF Grounded, G

\* The paths of next are those of pred, and on the new nodes h's and one more step.
Lengthened(pred, next, h, new) ==
  /\ Grounded(next)
  /\ \A m \in new : Walk(next)[m] = Append(Walk(pred)[h], m)
  /\ \A m \in DOMAIN pred : Walk(next)[m] = Walk(pred)[m]

\* A new node's path is its parent's path with the node behind it, and no other
\* path changes.
LEMMA WalkGrows ==
  ASSUME NEW pred, Grounded(pred), \A m \in DOMAIN pred : pred[m] \in DOMAIN pred,
         NEW h \in DOMAIN pred, NEW new, \A m \in new : m \notin DOMAIN pred,
         NEW next, DOMAIN next = DOMAIN pred \cup new,
         \A m \in new : next[m] = h, \A m \in DOMAIN pred : next[m] = pred[m]
  PROVE  Lengthened(pred, next, h, new)
<1> DEFINE W == Walk(pred)
           G == [m \in DOMAIN pred \cup new |-> IF m \in new THEN Append(W[h], m) ELSE W[m]]
           Step(f, m) == IF next[m] = m THEN <<m>> ELSE Append(f[next[m]], m)
<1>1. \A f : Solves(pred, f) <=> f = W
  BY DEF Grounded
<1>2. \A f : Solves(next, f) <=> f = [m \in DOMAIN pred \cup new |-> Step(f, m)]
  BY DEF Solves
<1>3. \A m \in new : next[m] = h /\ h # m
  OBVIOUS
<1>4. \A m \in DOMAIN pred : next[m] = pred[m]
  OBVIOUS
<1> HIDE DEF W
<1>5. ASSUME NEW f, Solves(next, f) PROVE f = G
  <2>1. f = [m \in DOMAIN pred \cup new |-> Step(f, m)]
    BY <1>2, <1>5
  <2> DEFINE r == [m \in DOMAIN pred |-> f[m]]
  <2>2. Solves(pred, r)
    <3>1. \A m \in DOMAIN pred : f[m] = IF pred[m] = m THEN <<m>> ELSE Append(f[pred[m]], m)
      BY <2>1, <1>4
    <3>2. \A m \in DOMAIN pred : r[pred[m]] = f[pred[m]]
      OBVIOUS
    <3> QED BY <3>1, <3>2 DEF Solves
  <2>3. r = W
    BY <1>1, <2>2
  <2> HIDE DEF r
  <2>4. \A m \in DOMAIN pred : f[m] = W[m]
    BY <2>3 DEF r
  <2>5. \A m \in new : f[m] = Append(W[h], m)
    <3>1. \A m \in new : f[m] = Append(f[h], m)
      BY <2>1, <1>3
    <3> QED BY <3>1, <2>4
  <2> QED BY <2>1, <2>4, <2>5
<1>6. Solves(next, G)
  <2>1. W = [m \in DOMAIN pred |-> IF pred[m] = m THEN <<m>> ELSE Append(W[pred[m]], m)]
    BY <1>1 DEF Solves
  <2>2. ASSUME NEW m \in DOMAIN pred PROVE G[m] = Step(G, m)
    <3>1. m \notin new /\ pred[m] \notin new /\ G[m] = W[m] /\ G[pred[m]] = W[pred[m]]
      OBVIOUS
    <3>2. W[m] = IF pred[m] = m THEN <<m>> ELSE Append(W[pred[m]], m)
      BY <2>1
    <3> QED BY <3>1, <3>2, <1>4
  <2>3. ASSUME NEW m \in new PROVE G[m] = Step(G, m)
    <3>1. G[m] = Append(W[h], m) /\ G[h] = W[h]
      OBVIOUS
    <3> QED BY <3>1, <1>3
  <2>4. G = [m \in DOMAIN pred \cup new |-> Step(G, m)]
    <3>1. \A m \in DOMAIN pred \cup new : G[m] = Step(G, m)
      BY <2>2, <2>3
    <3> HIDE DEF Step
    <3> QED BY <3>1
  <2> QED BY <1>2, <2>4
<1>7. \A f : Solves(next, f) <=> f = G
  BY <1>5, <1>6
<1> HIDE DEF G
<1>8. Walk(next) = G
  BY <1>7, Zenon DEF Walk
<1>9. Grounded(next)
  BY <1>7, <1>8 DEF Grounded
<1> QED BY <1>8, <1>9 DEF G, W, Lengthened

---------------------------------------------------------------------------
(* A search goes outward ball by ball.                                     *)

\* SetToSeqs orders the whole set.
LEMMA SetToSeqsOrders ==
  ASSUME NEW T, IsFiniteSet(T), NEW found \in IC!SetToSeqs(T)
  PROVE  found \in Seq(T) /\ \A m \in T : \E i \in 1..Len(found) : found[i] = m
<1> DEFINE n == Cardinality(T)
<1>1. n \in Nat
  BY FS_CardinalityType
<1>2. found \in [1..n -> T] /\ \A i, j \in 1..n : i # j => found[i] # found[j]
  BY SameCardinality DEF IC!SetToSeqs
<1> HIDE DEF n
<1>3. found \in Injection(1..n, T)
  BY <1>2 DEF Injection, IsInjective
<1>4. Cardinality(1..n) = n
  <2>1. 1 \in Int /\ n \in Int
    BY <1>1
  <2> QED BY <1>1, <2>1, FS_Interval
<1>5. found \in Surjection(1..n, T)
  BY <1>3, <1>4, FS_Injection DEF n
<1> QED BY <1>1, <1>2, <1>5 DEF Surjection

\* The nodes met, their distances from s by the paths found, and the queue:
\* distances do not fall along the queue and rise by one at most; the successors
\* of a met node are met, unless it still queues; nothing met is nearer than its
\* path says; and all that is as near as the head is met.
Frontier(s, met, q, d) ==
  /\ q \in Seq(met)
  /\ \A i, j \in 1..Len(q) : i <= j => d[q[i]] <= d[q[j]] /\ d[q[j]] <= d[q[1]] + 1
  /\ \A m \in met : (\E i \in 1..Len(q) : q[i] = m) \/ IC!Successors(m) \subseteq met
  /\ \A m \in met : d[m] > 0 => m \notin IC!Within(s)[d[m] - 1]
  /\ q # <<>> => IC!Within(s)[d[q[1]]] \subseteq met

\* The head gives way to its successors, and the front is one again.
LEMMA FrontierMoves ==
  ASSUME IsFiniteSet(Claims), NEW s \in Claims, NEW met \in SUBSET Claims,
         NEW d \in [met -> Nat], \A m \in met : d[m] < Size,
         NEW q, Frontier(s, met, q, d), q # <<>>,
         NEW new, new = IC!Successors(Head(q)) \ met,
         NEW found \in Seq(new), \A m \in new : \E i \in 1..Len(found) : found[i] = m,
         NEW e, \A m \in met : e[m] = d[m], \A m \in new : e[m] = d[Head(q)] + 1
  PROVE  Frontier(s, met \cup new, Tail(q) \o found, e)
<1> DEFINE n == Len(q)
           L == d[q[1]]
           z == Tail(q) \o found
<1>1. /\ q \in Seq(met) /\ n \in Nat \ {0} /\ Head(q) = q[1] /\ q[1] \in met
      /\ \A i \in 1..n : q[i] \in met
      /\ Len(Tail(q)) = n - 1
      /\ \A i \in 1..(n - 1) : Tail(q)[i] = q[i + 1]
  BY DEF Frontier
<1>2. L \in Nat /\ L < Size
  BY <1>1
<1>3. /\ z \in Seq(met \cup new) /\ Len(z) \in Nat /\ Len(found) \in Nat
      /\ Len(z) = n - 1 + Len(found)
      /\ \A i \in 1..Len(z) : z[i] = IF i <= n - 1 THEN q[i + 1] ELSE found[i - (n - 1)]
  <2>1. Tail(q) \in Seq(met \cup new) /\ found \in Seq(met \cup new)
    BY <1>1
  <2>2. /\ z \in Seq(met \cup new)
        /\ Len(z) = Len(Tail(q)) + Len(found)
        /\ \A i \in 1..Len(z) :
             z[i] = IF i <= Len(Tail(q)) THEN Tail(q)[i] ELSE found[i - Len(Tail(q))]
    BY <2>1
  <2> QED BY <1>1, <2>2
<1>4. /\ \A m \in met : m \notin new /\ e[m] = d[m]
      /\ \A m \in new : e[m] = L + 1
  BY <1>1
<1>5. Len(found) \in Nat /\ \A i \in 1..Len(found) : found[i] \in new
  OBVIOUS
<1>6. \A i, j \in 1..n : i <= j => d[q[i]] <= d[q[j]] /\ d[q[j]] <= L + 1
  BY DEF Frontier
<1> HIDE DEF n, L, z
<1>7. ASSUME NEW i \in 1..Len(z)
      PROVE  \/ i + 1 \in 2..n /\ z[i] = q[i + 1] /\ e[z[i]] = d[q[i + 1]]
             \/ i >= n /\ z[i] \in new /\ e[z[i]] = L + 1
  <2>1. CASE i <= n - 1
    BY <1>1, <1>3, <1>4, <2>1
  <2>2. CASE ~(i <= n - 1)
    <3>1. i - (n - 1) \in 1..Len(found) /\ i >= n
      BY <1>1, <1>3, <2>2
    <3>2. z[i] = found[i - (n - 1)]
      BY <1>3, <2>2
    <3>3. z[i] \in new
      BY <1>5, <3>1, <3>2
    <3> QED BY <1>4, <3>1, <3>3
  <2> QED BY <2>1, <2>2
<1>8. \A i \in 1..Len(z) : e[z[i]] \in Nat /\ L <= e[z[i]] /\ e[z[i]] <= L + 1
  <2> TAKE i \in 1..Len(z)
  <2>1. CASE i + 1 \in 2..n /\ e[z[i]] = d[q[i + 1]]
    <3>1. 1 \in 1..n /\ i + 1 \in 1..n /\ 1 <= i + 1
      BY <2>1, <1>1
    <3>2. d[q[1]] <= d[q[i + 1]] /\ d[q[i + 1]] <= L + 1 /\ d[q[i + 1]] \in Nat
      BY <3>1, <1>1, <1>6
    <3> QED BY <2>1, <3>2 DEF L
  <2>2. CASE e[z[i]] = L + 1
    BY <2>2, <1>2
  <2> QED BY <1>7, <2>1, <2>2
<1>9. \A i, j \in 1..Len(z) : i <= j => e[z[i]] <= e[z[j]] /\ e[z[j]] <= e[z[1]] + 1
  <2> SUFFICES ASSUME NEW i \in 1..Len(z), NEW j \in 1..Len(z), i <= j
               PROVE  e[z[i]] <= e[z[j]] /\ e[z[j]] <= e[z[1]] + 1
    OBVIOUS
  <2>1. 1 \in 1..Len(z)
    OBVIOUS
  <2>2. e[z[j]] <= e[z[1]] + 1
    <3>1. /\ e[z[j]] \in Nat /\ e[z[j]] <= L + 1
          /\ e[z[1]] \in Nat /\ L <= e[z[1]]
      BY <1>8, <2>1
    <3> QED BY <1>2, <3>1
  <2>3. CASE j >= n /\ e[z[j]] = L + 1
    BY <1>2, <1>8, <2>2, <2>3
  <2>4. CASE j + 1 \in 2..n /\ e[z[j]] = d[q[j + 1]]
    <3>0. i \in Nat /\ j \in Nat /\ n \in Nat /\ 1 <= i /\ i <= j /\ j + 1 <= n
      BY <1>1, <1>3, <2>4
    <3>1. i + 1 \in 2..n /\ ~(i >= n)
      BY <3>0
    <3>2. e[z[i]] = d[q[i + 1]]
      BY <1>7, <3>1
    <3>3. i + 1 \in 1..n /\ j + 1 \in 1..n /\ i + 1 <= j + 1
      BY <2>4, <3>1
    <3> QED BY <1>6, <2>2, <2>4, <3>2, <3>3
  <2> QED BY <1>7, <2>3, <2>4
<1>10. \A m \in met \cup new : (\E i \in 1..Len(z) : z[i] = m) \/ IC!Successors(m) \subseteq met \cup new
  <2> TAKE m \in met \cup new
  <2>1. CASE m \in new
    <3>1. PICK k \in 1..Len(found) : found[k] = m
      BY <2>1
    <3> DEFINE j == k + (n - 1)
    <3>2. j \in 1..Len(z) /\ ~(j <= n - 1) /\ j - (n - 1) = k
      <4>1. n \in Nat /\ k \in Nat /\ k >= 1 /\ k <= Len(found) /\ n >= 1
        BY <1>1, <1>3
      <4>2. Len(z) = n - 1 + Len(found) /\ Len(found) \in Nat /\ Len(z) \in Nat
        BY <1>3
      <4>3. j \in 1..Len(z)
        BY <4>1, <4>2
      <4>4. ~(j <= n - 1) /\ j - (n - 1) = k
        BY <4>1, <4>2
      <4> QED BY <4>3, <4>4
    <3> HIDE DEF j
    <3>3. z[j] = m
      BY <1>3, <3>1, <3>2
    <3> QED BY <3>2, <3>3
  <2>2. CASE m \in met /\ IC!Successors(m) \subseteq met
    BY <2>2
  <2>3. CASE \E k \in 1..n : q[k] = m
    <3>1. PICK k \in 1..n : q[k] = m
      BY <2>3
    <3>2. CASE k = 1
      BY <1>1, <3>1, <3>2
    <3>3. CASE k # 1
      <4>1. k - 1 \in 1..Len(z) /\ k - 1 <= n - 1 /\ k - 1 + 1 = k
        BY <1>1, <1>3, <1>5, <3>3
      <4>2. z[k - 1] = m
        BY <1>3, <3>1, <4>1
      <4> QED BY <4>1, <4>2
    <3> QED BY <3>2, <3>3
  <2> QED BY <2>1, <2>2, <2>3 DEF Frontier, n
<1>11. IC!Within(s)[L] \subseteq met
  BY DEF Frontier, L
<1>12. \A m \in met \cup new : e[m] > 0 => m \notin IC!Within(s)[e[m] - 1]
  <2> TAKE m \in met \cup new
  <2>1. CASE m \in met
    BY <1>4, <2>1 DEF Frontier
  <2>2. CASE m \in new
    <3>1. e[m] = L + 1
      BY <1>4, <2>2
    <3>2. e[m] - 1 = L
      BY <1>2, <3>1
    <3>3. m \notin met
      BY <1>4, <2>2
    <3> QED BY <1>11, <3>2, <3>3
  <2> QED BY <2>1, <2>2
<1>13. z # <<>> => IC!Within(s)[e[z[1]]] \subseteq met \cup new
  <2> SUFFICES ASSUME z # <<>> PROVE IC!Within(s)[e[z[1]]] \subseteq met \cup new
    OBVIOUS
  <2>1. 1 \in 1..Len(z)
    BY <1>3
  <2>2. e[z[1]] = L \/ e[z[1]] = L + 1
    BY <1>2, <1>8, <2>1
  <2>3. CASE e[z[1]] = L
    BY <1>11, <2>3
  <2>4. CASE e[z[1]] = L + 1
    <3>1. IC!Within(s)[L + 1] = IC!Within(s)[L] \cup UNION {IC!Successors(m) : m \in IC!Within(s)[L]}
      <4>1. Size \in Nat
        BY FS_CardinalityType DEF Size
      <4> DEFINE W == IC!Within(s)
      <4>2. \A k \in 1..Size : W[k] = W[k - 1] \cup UNION {IC!Successors(m) : m \in W[k - 1]}
        BY WithinSteps
      <4> HIDE DEF W
      <4>3. W[L + 1] = W[L] \cup UNION {IC!Successors(m) : m \in W[L]}
        BY <1>2, <4>1, <4>2
      <4> QED BY <4>3 DEF W
    <3>2. ASSUME NEW m \in IC!Within(s)[L] PROVE IC!Successors(m) \subseteq met \cup new
      <4>1. m \in met
        BY <1>11
      <4>2. ASSUME NEW i \in 1..Len(z), z[i] = m PROVE FALSE
        <5>1. 1 <= i
          OBVIOUS
        <5>2. e[z[1]] <= e[z[i]]
          BY <1>9, <2>1, <5>1
        <5>3. e[m] = L + 1
          BY <1>2, <1>8, <2>4, <4>2, <5>2
        <5>4. d[m] = L + 1 /\ d[m] > 0 /\ d[m] - 1 = L
          BY <1>2, <1>4, <4>1, <5>3
        <5> QED BY <4>1, <5>4 DEF Frontier
      <4> QED BY <1>10, <4>1, <4>2
    <3> QED BY <1>11, <2>4, <3>1, <3>2
  <2> QED BY <2>2, <2>3, <2>4
<1> QED BY <1>3, <1>9, <1>10, <1>12, <1>13 DEF Frontier, z

---------------------------------------------------------------------------
(* What holds while the closure command runs.                              *)

\* A chain of direct edges from s to m.
Chain(p, s, m) ==
  /\ p \in Seq(Claims) /\ p # <<>>
  /\ p[1] = s /\ p[Len(p)] = m
  /\ \A i \in 1..(Len(p) - 1) : <<p[i], p[i + 1]>> \in direct

Distance(pred) == [m \in DOMAIN pred |-> Len(Walk(pred)[m]) - 1]

SearchInv ==
  /\ search \in IC!Searched
  /\ DOMAIN parent \subseteq Claims
  /\ \A m \in DOMAIN parent : parent[m] \in DOMAIN parent
  /\ Grounded(parent)
  /\ \A m \in DOMAIN parent :
       /\ Chain(Walk(parent)[m], search[1], m)
       /\ Len(Walk(parent)[m]) <= Cardinality(DOMAIN parent)
  /\ Frontier(search[1], DOMAIN parent, queue, Distance(parent))

\* A pair is still to be searched for, being searched for, or found.
PairsInv ==
  IC!Searched = todo \cup {st \in {search} : search # <<>>} \cup {<<e.src, e.tgt>> : e \in closure}

\* The source is met, the target is not, and premises are sequences of claims.
FoundInv ==
  /\ search # <<>> => search[1] \in DOMAIN parent /\ search[2] \notin DOMAIN parent
  /\ \A e \in closure : e.premises \in Seq(Claims) \ {<<>>}

ClosureInv ==
  /\ ~closing => todo = {} /\ search = <<>> /\ closure = {}
  /\ closing => pc = "done" /\ direct = Exported /\ PairsInv
  /\ IF search = <<>> THEN queue = <<>> ELSE SearchInv
  /\ PremisesAreShortest /\ FoundInv

\* An exported implication joins two claims.
LEMMA ExportedEnds == BuildInv => Exported \subseteq Claims \X Claims
<1> SUFFICES ASSUME BuildInv, NEW e \in accepted, e.type = "IMPLIES"
             PROVE  e.src \in Claims /\ e.tgt \in Claims
  BY DEF Exported, OfType
<1>1. Good(e)
  BY DEF BuildInv, GraphInv
<1>2. e.src \in Nodes /\ e.tgt \in Nodes /\ is_allowed_edge(e)
  BY <1>1 DEF Good
<1> QED BY <1>2 DEF Claims, is_allowed_edge

\* The graph has finitely many claims.
LEMMA ClaimsFinite == IsFiniteSet(Claims)
BY BuildAssumption, FS_Subset DEF Claims

\* While the implications stay, so do the balls and the pairs.
LEMMA SameBalls ==
  ASSUME direct' = direct
  PROVE  /\ \A n : IC!Within(n)' = IC!Within(n)
         /\ \A n : IC!Successors(n)' = IC!Successors(n)
         /\ IC!Searched' = IC!Searched
<1> DEFINE After(d, n) == {m \in Claims : <<n, m>> \in d}
           Around(d, n) ==
             CHOOSE f : f = [k \in 0..IC!Cardinality(Claims) |->
                               IF k = 0 THEN {n} ELSE f[k - 1] \cup UNION {After(d, m) : m \in f[k - 1]}]
<1>1. \A n : IC!Within(n) = Around(direct, n)
  BY Zenon DEF IC!Within, IC!Successors
<1>2. \A n : IC!Within(n)' = Around(direct', n)
  BY Zenon DEF IC!Within, IC!Successors
<1> HIDE DEF Around
<1>3. \A n : IC!Within(n)' = IC!Within(n)
  BY <1>1, <1>2
<1>4. \A n : IC!Successors(n)' = IC!Successors(n)
  BY DEF IC!Successors
<1>5. IC!Searched' = IC!Searched
  BY <1>3 DEF IC!Searched, IC!descendants
<1> QED BY <1>3, <1>4, <1>5

\* The build leaves the closure alone, and is over once it has begun.
LEMMA BuildingInv ==
  ASSUME ClosureInv, Building
  PROVE  ClosureInv'
<1>1. pc # "done"
  BY DEF Building, Next, AcceptEdges, BreakCycle, NoCycleLeft, RejectImpliesCycle, MergeRules
<1>2. ~closing /\ todo = {} /\ search = <<>> /\ closure = {} /\ queue = <<>>
  BY <1>1 DEF ClosureInv
<1>3. ~closing' /\ todo' = {} /\ search' = <<>> /\ closure' = {} /\ queue' = <<>>
  BY <1>2 DEF Building, closureVars
<1> QED BY <1>3 DEF ClosureInv, PremisesAreShortest, FoundInv

\* The command reads the exported implications.
LEMMA StartInv ==
  ASSUME ClosureInv, StartClosure
  PROVE  ClosureInv'
<1>1. /\ search = <<>> /\ closure = {} /\ queue = <<>>
      /\ search' = <<>> /\ closure' = {} /\ queue' = <<>>
      /\ pc' = "done" /\ closing' /\ direct' = Exported /\ todo' = IC!Searched'
  BY DEF ClosureInv, StartClosure, IC!Start, vars
<1>2. Exported' = Exported
  BY DEF StartClosure, vars, Exported, OfType
<1>3. PairsInv'
  BY <1>1 DEF PairsInv
<1> QED BY <1>1, <1>2, <1>3 DEF ClosureInv, PremisesAreShortest, FoundInv

\* A chain and an edge from its end make a longer one.
LEMMA ChainGrows ==
  ASSUME NEW p, NEW s, NEW h, Chain(p, s, h), NEW m \in Claims, <<h, m>> \in direct
  PROVE  Chain(Append(p, m), s, m) /\ Len(Append(p, m)) = Len(p) + 1
<1> DEFINE z == Append(p, m)
<1>1. p \in Seq(Claims) /\ Len(p) \in Nat /\ Len(p) >= 1
  BY DEF Chain
<1>2. z \in Seq(Claims) /\ Len(z) = Len(p) + 1 /\ z[Len(p) + 1] = m
  BY <1>1
<1>3. \A i \in 1..Len(p) : z[i] = p[i]
  BY <1>1
<1>4. z # <<>> /\ z[1] = s
  BY <1>1, <1>2, <1>3 DEF Chain
<1> HIDE DEF z
<1>5. ASSUME NEW i \in 1..(Len(z) - 1) PROVE <<z[i], z[i + 1]>> \in direct
  <2>1. i \in 1..Len(p) /\ z[i] = p[i]
    BY <1>1, <1>2, <1>3
  <2>2. CASE i = Len(p)
    BY <1>2, <2>1, <2>2 DEF Chain
  <2>3. CASE i # Len(p)
    <3>1. i \in 1..(Len(p) - 1) /\ i + 1 \in 1..Len(p)
      BY <1>1, <2>1, <2>3
    <3> QED BY <1>3, <2>1, <3>1 DEF Chain
  <2> QED BY <2>2, <2>3
<1> QED BY <1>2, <1>4, <1>5 DEF Chain, z

\* What does not change with the searches.
LEMMA SameExport ==
  ASSUME UNCHANGED vars, direct' = direct
  PROVE  /\ Exported' = Exported
         /\ \A p, s, m : Chain(p, s, m)' <=> Chain(p, s, m)
         /\ \A s, met, q, d : Frontier(s, met, q, d)' <=> Frontier(s, met, q, d)
<1>1. Exported' = Exported
  BY DEF vars, Exported, OfType
<1>2. \A p, s, m : Chain(p, s, m)' <=> Chain(p, s, m)
  BY DEF Chain
<1>3. \A s, met, q, d : Frontier(s, met, q, d)' <=> Frontier(s, met, q, d)
  BY SameBalls DEF Frontier
<1> QED BY <1>1, <1>2, <1>3

\* A search begins at its source.
LEMMA BeginInv ==
  ASSUME ClosureInv, closing, UNCHANGED <<vars, closing>>, NEW st \in todo, IC!Begin(st)
  PROVE  ClosureInv'
<1>1. /\ search = <<>> /\ todo' = todo \ {st} /\ search' = st /\ queue' = <<st[1]>>
      /\ parent' = [n \in {st[1]} |-> st[1]] /\ direct' = direct /\ closure' = closure
  BY DEF IC!Begin
<1>2. pc = "done" /\ direct = Exported /\ PairsInv /\ PremisesAreShortest /\ FoundInv
  BY DEF ClosureInv
<1>3. st \in IC!Searched /\ st[1] \in Claims /\ st # <<>>
  <2>1. st \in IC!Searched
    BY <1>2 DEF PairsInv
  <2>2. st \in Claims \X Claims
    BY <2>1 DEF IC!Searched
  <2> QED BY <2>1, <2>2
<1>4. IC!Searched' = IC!Searched /\ Exported' = Exported
  BY <1>1, SameBalls, SameExport
<1>5. PairsInv'
  BY <1>1, <1>2, <1>3, <1>4 DEF PairsInv
<1>6. PremisesAreShortest'
  BY <1>1, <1>2, <1>4, SameBalls DEF PremisesAreShortest
<1>7. SearchInv'
  <2> DEFINE s == st[1]
             pred == [n \in {s} |-> s]
  <2>1. Grounded(pred) /\ Walk(pred) = [n \in {s} |-> <<s>>]
    BY WalkOfOne
  <2>2. DOMAIN pred = {s} /\ pred[s] = s
    OBVIOUS
  <2>3. Chain(<<s>>, s, s)
    BY <1>3 DEF Chain
  <2>4. Cardinality({s}) = 1
    BY FS_Singleton
  <2>5. Distance(pred) = [n \in {s} |-> 0]
    BY <2>1, <2>2 DEF Distance
  <2>6. Frontier(s, {s}, <<s>>, [n \in {s} |-> 0])
    <3>1. IC!Within(s)[0] = {s}
      BY <1>3, ClaimsFinite, WithinSteps
    <3>2. <<s>>[1] = s /\ Len(<<s>>) = 1 /\ 1 \in 1..1 /\ \A i \in 1..1 : i = 1
      OBVIOUS
    <3> QED BY <3>1, <3>2 DEF Frontier
  <2> HIDE DEF pred, s
  <2>7. parent' = pred /\ search'[1] = s /\ queue' = <<s>>
    BY <1>1 DEF s, pred
  <2>8. Frontier(s, {s}, <<s>>, [n \in {s} |-> 0])' /\ Chain(<<s>>, s, s)'
    BY <1>1, <2>3, <2>6, SameExport
  <2>9. Frontier(search[1], DOMAIN parent, queue, Distance(parent))'
    BY <2>2, <2>5, <2>7, <2>8
  <2>10. \A m \in {s} : Chain(Walk(pred)[m], s, m)' /\ Len(Walk(pred)[m]) <= Cardinality({s})
    BY <2>1, <2>4, <2>8
  <2> QED BY <1>1, <1>3, <1>4, <2>1, <2>2, <2>7, <2>9, <2>10 DEF SearchInv, s
<1>8. FoundInv'
  <2>1. st[1] # st[2]
    BY <1>3 DEF IC!Searched, IC!descendants
  <2> QED BY <1>1, <1>2, <2>1 DEF FoundInv
<1> QED BY <1>1, <1>2, <1>3, <1>4, <1>5, <1>6, <1>7, <1>8 DEF ClosureInv, vars

\* The head's successors are met, each by the head's path and one edge; if the
\* target is among them its path is the premises of a new edge, and no path to
\* it is shorter, since all that is as near as the head was met before.
LEMMA ExpandInv ==
  ASSUME BuildInv, ClosureInv, closing, UNCHANGED <<vars, closing>>, IC!Expand
  PROVE  ClosureInv'
<1> DEFINE s == search[1]
           target == search[2]
           h == Head(queue)
           met == DOMAIN parent
           W == Walk(parent)
           new == IC!Unmet(h)
           all == met \cup new
           V == Walk(parent')
<1>1. /\ queue # <<>> /\ direct' = direct /\ todo' = todo
      /\ parent' = [n \in all |-> IF n \in new THEN h ELSE parent[n]]
      /\ \E found \in IC!SetToSeqs(new) :
           queue' = IF target \in new THEN <<>> ELSE Tail(queue) \o found
      /\ IF target \in new
         THEN /\ closure' = closure \cup
                   {[src |-> s, tgt |-> target, premises |-> IC!Path(parent', target)]}
              /\ search' = <<>>
         ELSE closure' = closure /\ search' = search
  BY DEF IC!Expand, IC!Enqueue
<1>2. /\ pc = "done" /\ direct = Exported /\ PairsInv /\ PremisesAreShortest /\ FoundInv
      /\ search # <<>> /\ SearchInv
  BY <1>1 DEF ClosureInv
<1>3. /\ search \in IC!Searched /\ met \subseteq Claims
      /\ \A m \in met : parent[m] \in met
      /\ Grounded(parent)
      /\ \A m \in met : Chain(W[m], s, m) /\ Len(W[m]) <= Cardinality(met)
      /\ Frontier(s, met, queue, Distance(parent))
  BY <1>2 DEF SearchInv
<1>4. s \in Claims /\ target \in Claims /\ search = <<s, target>> /\ s # target
  BY <1>3 DEF IC!Searched, IC!descendants
<1>5. h \in met /\ h = queue[1]
  BY <1>1, <1>3 DEF Frontier
<1>6. new = IC!Successors(h) \ met /\ new \subseteq Claims
  BY DEF IC!Unmet, IC!Successors
<1>7. IsFiniteSet(met) /\ IsFiniteSet(new) /\ IsFiniteSet(all)
  BY <1>3, <1>6, ClaimsFinite, FS_Subset
<1> HIDE DEF new, met, W, s, target, h, V
<1>8. /\ Grounded(parent')
      /\ \A m \in new : V[m] = Append(W[h], m)
      /\ \A m \in met : V[m] = W[m]
  <2> DEFINE next == parent'
  <2>1. /\ DOMAIN next = DOMAIN parent \cup new
        /\ \A m \in new : next[m] = h
        /\ \A m \in DOMAIN parent : next[m] = parent[m]
    BY <1>1, <1>6 DEF met
  <2>2. /\ h \in DOMAIN parent
        /\ \A m \in new : m \notin DOMAIN parent
        /\ \A m \in DOMAIN parent : parent[m] \in DOMAIN parent
    BY <1>3, <1>5, <1>6 DEF met
  <2> HIDE DEF next
  <2>0. Grounded(parent)
    BY <1>3
  <2>3. Lengthened(parent, next, h, new)
    BY <2>0, <2>1, <2>2, WalkGrows
  <2> QED BY <2>3 DEF Lengthened, met, W, V, next
<1>9. ASSUME NEW m \in new
      PROVE  V[m] = Append(W[h], m) /\ Chain(V[m], s, m) /\ Len(V[m]) = Len(W[h]) + 1
  <2>1. V[m] = Append(W[h], m)
    BY <1>8
  <2>2. <<h, m>> \in direct /\ m \in Claims
    BY <1>6 DEF IC!Successors
  <2>3. Chain(W[h], s, h)
    BY <1>3, <1>5
  <2> QED BY <2>1, <2>2, <2>3, ChainGrows
<1>10. \A m \in met : V[m] = W[m] /\ m \notin new
  BY <1>6, <1>8
<1>11. \A m \in met : Len(W[m]) \in Nat /\ Len(W[m]) >= 1
  BY <1>3 DEF Chain
<1>12. \A m \in all : Chain(V[m], s, m) /\ Len(V[m]) <= Cardinality(all)
  <2>0. Cardinality(met) \in Nat /\ Cardinality(all) \in Nat /\ Cardinality(met) <= Cardinality(all)
    BY <1>7, FS_CardinalityType, FS_Subset
  <2>1. ASSUME NEW m \in met PROVE Chain(V[m], s, m) /\ Len(V[m]) <= Cardinality(all)
    BY <1>3, <1>10, <1>11, <2>0
  <2>2. ASSUME NEW m \in new PROVE Chain(V[m], s, m) /\ Len(V[m]) <= Cardinality(all)
    <3>1. Cardinality(met \cup {m}) = Cardinality(met) + 1
      BY <1>6, <1>7, FS_AddElement
    <3>2. Cardinality(met \cup {m}) <= Cardinality(all)
      BY <1>7, FS_Subset
    <3>3. Len(W[h]) <= Cardinality(met)
      BY <1>3, <1>5
    <3> QED BY <1>5, <1>9, <1>11, <2>0, <3>1, <3>2, <3>3
  <2> QED BY <2>1, <2>2
<1>13. IC!Searched' = IC!Searched /\ Exported' = Exported /\ \A n : IC!Within(n)' = IC!Within(n)
  BY <1>1, SameBalls, SameExport
<1>14. CASE target \in new
  <2> DEFINE e == [src |-> s, tgt |-> target, premises |-> V[target]]
             p == V[target]
  <2>1. closure' = closure \cup {e} /\ search' = <<>> /\ queue' = <<>>
    BY <1>1, <1>14, PathIsWalk DEF V
  <2>2. PairsInv'
    <3>1. {<<x.src, x.tgt>> : x \in closure'} = {<<x.src, x.tgt>> : x \in closure} \cup {search}
      <4>1. <<e.src, e.tgt>> = search
        BY <1>4
      <4> HIDE DEF e
      <4> QED BY <2>1, <4>1
    <3>2. IC!Searched = todo \cup {search} \cup {<<x.src, x.tgt>> : x \in closure}
      BY <1>2 DEF PairsInv
    <3> QED BY <1>1, <1>13, <2>1, <3>1, <3>2 DEF PairsInv
  <2>3. Chain(p, s, target) /\ Len(p) = Len(W[h]) + 1
    BY <1>9, <1>14
  <2>4. IC!Within(s)[Len(W[h]) - 1] \subseteq met
    <3>1. Distance(parent)[h] = Len(W[h]) - 1
      BY <1>5 DEF Distance, W, met
    <3> QED BY <1>1, <1>3, <1>5, <3>1 DEF Frontier
  <2>5. Len(p) - 2 = Len(W[h]) - 1
    BY <1>5, <1>11, <2>3
  <2>6. target \notin IC!Within(s)[Len(p) - 2]
    BY <1>6, <1>14, <2>4, <2>5
  <2>7. PremisesAreShortest'
    <3> HIDE DEF p
    <3>1. /\ p[1] = s /\ p[Len(p)] = target
          /\ \A i \in 1..(Len(p) - 1) : <<p[i], p[i + 1]>> \in Exported
      BY <1>2, <2>3 DEF Chain
    <3>2. e.src = s /\ e.tgt = target /\ e.premises = p
      BY DEF p
    <3> HIDE DEF e
    <3> SUFFICES ASSUME NEW x \in closure'
                 PROVE  /\ x.premises[1] = x.src /\ x.premises[Len(x.premises)] = x.tgt
                        /\ \A i \in 1..(Len(x.premises) - 1) :
                             <<x.premises[i], x.premises[i + 1]>> \in Exported
                        /\ x.tgt \notin IC!Within(x.src)[Len(x.premises) - 2]
      BY <1>13 DEF PremisesAreShortest
    <3>3. CASE x \in closure
      BY <1>2, <3>3 DEF PremisesAreShortest
    <3>4. CASE x = e
      BY <2>6, <3>1, <3>2, <3>4
    <3> QED BY <2>1, <3>3, <3>4
  <2>8. FoundInv'
    <3>1. p \in Seq(Claims) \ {<<>>}
      BY <2>3 DEF Chain
    <3>2. \A x \in closure' : x \in closure \/ x.premises = p
      BY <2>1
    <3> HIDE DEF p
    <3> QED BY <1>2, <2>1, <3>1, <3>2 DEF FoundInv
  <2> QED BY <1>1, <1>2, <1>13, <2>1, <2>2, <2>7, <2>8 DEF ClosureInv, vars
<1>15. CASE target \notin new
  <2>1. PICK found \in IC!SetToSeqs(new) : queue' = Tail(queue) \o found
    BY <1>1, <1>15
  <2>2. found \in Seq(new) /\ \A m \in new : \E i \in 1..Len(found) : found[i] = m
    BY <1>7, SetToSeqsOrders
  <2>3. closure' = closure /\ search' = search
    BY <1>1, <1>15
  <2>4. Frontier(s, all, queue', Distance(parent'))
    <3> DEFINE d == Distance(parent)
               e == Distance(parent')
    <3>1. d \in [met -> Nat] /\ \A m \in met : d[m] = Len(W[m]) - 1
      BY <1>11 DEF Distance, met, W
    <3>2. DOMAIN parent' = all
      BY <1>1
    <3>3. \A m \in all : e[m] = Len(V[m]) - 1
      BY <3>2 DEF Distance, V
    <3>4. \A m \in met : d[m] < Size
      <4>1. Cardinality(met) <= Size /\ Cardinality(met) \in Nat /\ Size \in Nat
        BY <1>3, <1>7, ClaimsFinite, FS_Subset, FS_CardinalityType DEF Size
      <4> QED BY <1>3, <1>11, <3>1, <4>1
    <3> HIDE DEF d, e
    <3>5. \A m \in met : e[m] = d[m]
      BY <1>10, <3>1, <3>3
    <3>6. \A m \in new : e[m] = d[h] + 1
      BY <1>5, <1>9, <1>11, <3>1, <3>3
    <3>7. Frontier(s, met, queue, d)
      BY <1>3 DEF d
    <3> QED BY <1>1, <1>3, <1>4, <1>6, <2>1, <2>2, <3>1, <3>4, <3>5, <3>6, <3>7,
               ClaimsFinite, FrontierMoves DEF h, e
  <2>5. SearchInv'
    <3>1. DOMAIN parent' = all
      BY <1>1
    <3>2. all \subseteq Claims /\ \A m \in all : parent'[m] \in all
      BY <1>1, <1>3, <1>5, <1>6
    <3>3. Frontier(search[1], DOMAIN parent, queue, Distance(parent))'
      <4> PICK cs, cmet, cq, cd : cs = s /\ cmet = all /\ cq = queue' /\ cd = Distance(parent')
        OBVIOUS
      <4>1. Frontier(cs, cmet, cq, cd)'
        BY <1>1, <2>4, SameExport
      <4>2. cs = search'[1] /\ cmet = DOMAIN parent'
        BY <2>3, <3>1 DEF s
      <4> QED BY <4>1, <4>2
    <3>4. ASSUME NEW m \in all PROVE Chain(Walk(parent)[m], search[1], m)'
      <4> PICK cs, cp : cs = s /\ cp = V[m]
        OBVIOUS
      <4>1. Chain(cp, cs, m)'
        BY <1>1, <1>12, SameExport
      <4>2. cs = search'[1] /\ cp = Walk(parent')[m]
        BY <2>3 DEF s, V
      <4> QED BY <4>1, <4>2
    <3>5. \A m \in all : Len(Walk(parent')[m]) <= Cardinality(all)
      BY <1>12 DEF V
    <3> QED BY <1>3, <1>8, <1>13, <2>3, <3>1, <3>2, <3>3, <3>4, <3>5 DEF SearchInv
  <2>6. PairsInv'
    BY <1>1, <1>2, <1>13, <2>3 DEF PairsInv
  <2>7. PremisesAreShortest'
    BY <1>2, <1>13, <2>3 DEF PremisesAreShortest
  <2>8. FoundInv'
    <3>1. DOMAIN parent' = all /\ s \in met /\ target \notin met
      BY <1>1, <1>2 DEF FoundInv, s, target, met
    <3>2. s \in all /\ target \notin all
      BY <1>15, <3>1
    <3> QED BY <1>2, <2>3, <3>1, <3>2 DEF FoundInv, s, target
  <2> QED BY <1>1, <1>2, <1>13, <2>3, <2>5, <2>6, <2>7, <2>8 DEF ClosureInv, vars
<1> QED BY <1>14, <1>15

\* The closure command begins with nothing found.
LEMMA ClosedInitInv == ClosedInit => Init /\ ClosureInv
BY DEF ClosedInit, IC!Init, ClosureInv, PremisesAreShortest, FoundInv

\* The build and the closure, one after the other, implement the build
\* (cli.py:218-316).
THEOREM ClosedSpecBuilds == ClosedSpec => Spec
<1>1. [ClosedNext]_closedVars => [Next]_vars
  BY DEF ClosedNext, Building, StartClosure, Closing, closedVars, vars
<1> QED BY <1>1, ClosedInitInv, PTL DEF ClosedSpec, Spec

\* What a search has met, found and left to do at every step of the command, for
\* any exported graph and any order of successors (closure.py:45-105).
THEOREM ClosureInvHolds == ClosedSpec => [](BuildInv /\ ClosureInv)
<1>1. BuildInv /\ ClosureInv /\ [ClosedNext]_closedVars => ClosureInv'
  <2> SUFFICES ASSUME BuildInv, ClosureInv, [ClosedNext]_closedVars
               PROVE  ClosureInv'
    OBVIOUS
  <2>1. CASE UNCHANGED closedVars
    <3>1. UNCHANGED vars /\ UNCHANGED closureVars
      BY <2>1 DEF closedVars
    <3>2. CASE closing
      <4>1. UNCHANGED <<vars, closing>> /\ direct' = direct /\ todo' = todo /\ search' = search
            /\ queue' = queue /\ parent' = parent /\ closure' = closure
        BY <3>1 DEF closureVars
      <4>2. IC!Searched' = IC!Searched /\ Exported' = Exported /\ \A n : IC!Within(n)' = IC!Within(n)
        BY <4>1, SameBalls, SameExport
      <4>3. PairsInv' <=> PairsInv
        BY <4>1, <4>2 DEF PairsInv
      <4>4. PremisesAreShortest' <=> PremisesAreShortest
        BY <4>1, <4>2 DEF PremisesAreShortest
      <4>5. SearchInv' <=> SearchInv
        BY <4>1, <4>2 DEF SearchInv, Chain, Frontier, IC!Successors
      <4>6. FoundInv' <=> FoundInv
        BY <4>1 DEF FoundInv
      <4> QED BY <4>1, <4>2, <4>3, <4>4, <4>5, <4>6 DEF ClosureInv, vars
    <3>3. CASE ~closing
      BY <3>1, <3>3 DEF ClosureInv, closureVars, PremisesAreShortest, FoundInv
    <3> QED BY <3>2, <3>3
  <2>2. CASE Building
    BY <2>2, BuildingInv
  <2>3. CASE StartClosure
    BY <2>3, StartInv
  <2>4. CASE Closing
    <3>1. closing /\ UNCHANGED <<vars, closing>> /\ IC!Search
      BY <2>4 DEF Closing
    <3>2. CASE \E st \in todo : IC!Begin(st)
      BY <3>1, <3>2, BeginInv
    <3>3. CASE IC!Expand
      BY <3>1, <3>3, ExpandInv
    <3> QED BY <3>1, <3>2, <3>3 DEF IC!Search
  <2> QED BY <2>1, <2>2, <2>3, <2>4 DEF ClosedNext
<1> QED BY <1>1, ClosedInitInv, ClosedSpecBuilds, BuildInvHolds, PTL DEF ClosedSpec

\* The closure of an exported graph holds exactly the implications that follow
\* from it and are not in it, whatever the graph and the order in which
\* successors are met (closure.py:45-51).
THEOREM ClosureIsExact == ClosedSpec => []ClosureExact
<1>1. BuildInv /\ ClosureInv => ClosureExact
  <2> SUFFICES ASSUME BuildInv, ClosureInv, ClosureDone
               PROVE  {<<e.src, e.tgt>> : e \in closure} =
                        {st \in Claims \X Claims :
                           st[1] # st[2] /\ st \notin Exported /\ Follows(st[1], st[2])}
    BY DEF ClosureExact
  <2>1. direct = Exported /\ PairsInv /\ todo = {} /\ search = <<>>
    BY DEF ClosureDone, ClosureInv, IC!Done
  <2>2. {<<e.src, e.tgt>> : e \in closure} = IC!Searched
    BY <2>1 DEF PairsInv
  <2>3. \A n : IC!descendants(n) = IC!Within(n)[Size] \ {n}
    BY SameCardinality DEF IC!descendants, Size
  <2>4. \A s, t \in Claims : t \in IC!Within(s)[Size] <=> Follows(s, t)
    BY <2>1, ExportedEnds, ClaimsFinite, WithinIsFollows
  <2>5. IC!Searched = {st \in Claims \X Claims :
                         st[2] \in IC!Within(st[1])[Size] \ {st[1]} /\ st \notin Exported}
    BY <2>1, <2>3 DEF IC!Searched
  <2> HIDE DEF ClosureDone
  <2>6. ASSUME NEW st \in Claims \X Claims
        PROVE  st[2] \in IC!Within(st[1])[Size] \ {st[1]} <=> st[1] # st[2] /\ Follows(st[1], st[2])
    BY <2>4
  <2> QED BY <2>2, <2>5, <2>6
<1> QED BY <1>1, ClosureInvHolds, PTL

\* The premises of every closure edge are a chain of exported implications, and
\* none is shorter (closure.py:82-105).
THEOREM PremisesAreShort == ClosedSpec => []PremisesAreShortest
<1>1. ClosureInv => PremisesAreShortest
  BY DEF ClosureInv
<1> QED BY <1>1, ClosureInvHolds, PTL

\* The code's two silent exits are not taken: a search meets its target before it
\* runs out of nodes, and no path it finds is a direct edge (closure.py:51-53, 105).
THEOREM SearchesFind == ClosedSpec => []SearchesSucceed
<1>1. ASSUME BuildInv, ClosureInv, search # <<>> PROVE queue # <<>>
  <2> DEFINE s == search[1]
             target == search[2]
             met == DOMAIN parent
  <2>1. SearchInv /\ s \in met /\ target \notin met
    BY <1>1 DEF ClosureInv, FoundInv
  <2>2. s \in Claims /\ target \in IC!Within(s)[Size]
    BY <2>1, SameCardinality DEF SearchInv, IC!Searched, IC!descendants, Size
  <2>3. Size \in Nat
    BY ClaimsFinite, FS_CardinalityType DEF Size
  <2>4. ASSUME queue = <<>> PROVE \A m \in met : IC!Successors(m) \subseteq met
    <3>1. Frontier(s, met, queue, Distance(parent))
      BY <2>1 DEF SearchInv
    <3>2. Len(queue) = 0
      BY <2>4
    <3> HIDE DEF s, met
    <3> QED BY <3>1, <3>2 DEF Frontier
  <2> HIDE DEF s, target, met
  <2>5. ASSUME queue = <<>> PROVE FALSE
    <3>1. IC!Within(s)[Size] \subseteq met
      BY <2>1, <2>2, <2>3, <2>4, <2>5, ClaimsFinite, WithinClosedSets
    <3> QED BY <2>1, <2>2, <3>1
  <2> QED BY <2>5
<1>2. ASSUME BuildInv, ClosureInv, NEW e \in closure PROVE Len(e.premises) >= 3
  <2> DEFINE p == e.premises
  <2>1. /\ p \in Seq(Claims) \ {<<>>} /\ p[1] = e.src /\ p[Len(p)] = e.tgt
        /\ \A i \in 1..(Len(p) - 1) : <<p[i], p[i + 1]>> \in Exported
    BY <1>2 DEF ClosureInv, FoundInv, PremisesAreShortest
  <2>2. direct = Exported /\ <<e.src, e.tgt>> \in IC!Searched
    BY <1>2 DEF ClosureInv, PairsInv
  <2>3. e.src # e.tgt /\ <<e.src, e.tgt>> \notin Exported
    BY <2>2 DEF IC!Searched, IC!descendants
  <2> HIDE DEF p
  <2>4. Len(p) \in Nat \ {0, 1, 2}
    BY <2>1, <2>3
  <2>5. \A k \in Nat \ {0, 1, 2} : k >= 3
    OBVIOUS
  <2> QED BY <2>4, <2>5 DEF p
<1>3. BuildInv /\ ClosureInv => SearchesSucceed
  BY <1>1, <1>2 DEF SearchesSucceed
<1> QED BY <1>3, ClosureInvHolds, PTL

---------------------------------------------------------------------------
(* Where implications come from.                                           *)

\* Every edge in the graph has the key of one that was brought.
OriginInv == Keys(accepted \cup progress) \subseteq Keys(raw \cup rules)

\* Deduplication and the checks of accept_edges make no edge.
LEMMA AcceptableKeys ==
  ASSUME NEW es, AreEdges(es) PROVE Keys(Acceptable(Dedupe(es))) \subseteq Keys(es)
BY DedupeKeys DEF Keys, Acceptable

\* No step of the build does.
LEMMA OriginKept ==
  ASSUME BuildInv, OriginInv, [Next]_vars
  PROVE  OriginInv'
<1>1. CASE AcceptEdges
  <2>1. Keys(Acceptable(Dedupe(raw))) \subseteq Keys(raw)
    BY AcceptableKeys DEF BuildInv, InputInv
  <2>2. /\ accepted' \cup progress' \subseteq Acceptable(Dedupe(raw))
        /\ raw' = raw /\ rules' = rules
    BY <1>1 DEF AcceptEdges, Progression
  <2> QED BY <2>1, <2>2 DEF OriginInv, Keys
<1>2. CASE BreakCycle \/ NoCycleLeft \/ RejectImpliesCycle \/ UNCHANGED vars
  <2>1. /\ accepted' \cup progress' \subseteq accepted \cup progress
        /\ raw' = raw /\ rules' = rules
    BY <1>2 DEF BreakCycle, NoCycleLeft, RejectImpliesCycle, vars
  <2> QED BY <2>1 DEF OriginInv, Keys
<1>3. CASE MergeRules
  <2> DEFINE ok == Acceptable(rules)
  <2>1. /\ accepted' = Merge(ok) /\ progress' = progress /\ raw' = raw /\ rules' = rules
    BY <1>3 DEF MergeRules
  <2>2. \A e \in ok : e \in rules /\ Good(e)
    BY AcceptableEdges DEF BuildInv, InputInv
  <2> HIDE DEF ok
  <2>3. PICK in \in SUBSET ok : Merge(ok) = Dedupe(accepted \cup in)
    BY MergeShape
  <2>4. AreEdges(accepted \cup in)
    BY <2>2 DEF AreEdges, Good, BuildInv, GraphInv
  <2>5. Keys(accepted') = Keys(accepted \cup in)
    BY <2>1, <2>3, <2>4, DedupeKeys
  <2>6. Keys(accepted' \cup progress') \subseteq Keys(accepted \cup progress) \cup Keys(rules)
    BY <2>1, <2>2, <2>5 DEF Keys
  <2>7. Keys(rules) \subseteq Keys(raw \cup rules)
    BY DEF Keys
  <2> QED BY <2>1, <2>6, <2>7 DEF OriginInv
<1> QED BY <1>1, <1>2, <1>3 DEF Next

LEMMA OriginHolds == Spec => []OriginInv
<1>1. Init => OriginInv
  BY DEF Init, OriginInv, Keys
<1> QED BY <1>1, OriginKept, BuildInvHolds, PTL DEF Spec

\* So an exported implication was brought.
LEMMA ExportedBrought == BuildInv /\ OriginInv => Exported \subseteq Brought
<1> SUFFICES ASSUME BuildInv, OriginInv, NEW e \in accepted, e.type = "IMPLIES"
             PROVE  <<e.src, e.tgt>> \in Brought
  BY DEF Exported, OfType
<1>1. Key(e) \in Keys(raw \cup rules)
  BY DEF OriginInv, Keys
<1>2. PICK f \in raw \cup rules : Key(f) = Key(e)
  BY <1>1 DEF Keys
<1>3. f.src = e.src /\ f.tgt = e.tgt /\ f.type = "IMPLIES"
  BY <1>2 DEF Key
<1>4. <<e.src, e.tgt>> \in Exported
  BY DEF Exported, OfType
<1> QED BY <1>3, <1>4, ExportedEnds DEF Brought, OfType

\* Along a chain of exported implications, what comes true stays true.
LEMMA ClosureSound ==
  ASSUME BuildInv, ClosureInv, NEW e \in closure
  PROVE  e.src \in Claims /\ e.tgt \in Claims /\ Follows(e.src, e.tgt)
<1>1. closing
  BY DEF ClosureInv
<1>2. direct = Exported /\ <<e.src, e.tgt>> \in IC!Searched
  BY <1>1 DEF ClosureInv, PairsInv
<1>3. e.src \in Claims /\ e.tgt \in Claims /\ e.tgt \in IC!descendants(e.src)
  BY <1>2 DEF IC!Searched
<1>4. e.tgt \in IC!Within(e.src)[Size]
  BY <1>3, SameCardinality DEF IC!descendants, Size
<1> QED BY <1>2, <1>3, <1>4, ExportedEnds, ClaimsFinite, WithinIsFollows

\* Neither the build nor the closure infers more than what the fragments and the
\* rules bring implies, for any edges brought, cycles found and order of searches
\* (graphbuild.py:25-97, pipeline.py:131-158, closure.py:36-75).
THEOREM NothingIsInvented == ClosedSpec => []NothingInvented
<1>1. BuildInv /\ OriginInv /\ ClosureInv => NothingInvented
  <2> SUFFICES ASSUME BuildInv, OriginInv, ClosureInv, NEW truths \in SUBSET Claims,
                      \A p \in Brought : p[1] \in truths => p[2] \in truths,
                      NEW p \in Exported \cup {<<e.src, e.tgt>> : e \in closure}, p[1] \in truths
               PROVE  p[2] \in truths
    BY DEF NothingInvented
  <2>1. \A q \in Exported : q[1] \in truths => q[2] \in truths
    BY ExportedBrought
  <2>2. CASE p \in Exported
    BY <2>1, <2>2
  <2>3. ASSUME NEW e \in closure, p = <<e.src, e.tgt>> PROVE p[2] \in truths
    <3>1. Follows(e.src, e.tgt)
      BY ClosureSound
    <3>2. e.src \in truths
      BY <2>3
    <3>3. e.tgt \in truths
      BY <2>1, <3>1, <3>2 DEF Follows
    <3> QED BY <2>3, <3>3
  <2> QED BY <2>2, <2>3
<1> QED BY <1>1, ClosedSpecBuilds, OriginHolds, ClosureInvHolds, PTL

=============================================================================
