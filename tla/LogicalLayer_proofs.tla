----------------------- MODULE LogicalLayer_proofs -----------------------
(***************************************************************************)
(* What the rule engine emits is sound and acyclic for every set of teams, *)
(* of listed markets and of tournaments.                                   *)
(*                                                                         *)
(* The invariant says where edges come from: a structural edge, or an edge *)
(* of RuleEdges over the compiled propositions.  Soundness is then a fact  *)
(* about two propositions and one team's fate; acyclicity holds because    *)
(* every implication leads to a reached stage, and between reached stages  *)
(* the rank falls.                                                         *)
(***************************************************************************)
EXTENDS LogicalLayer, FiniteSetTheorems, TLAPS

\* Where the edges of a state come from, and that none is missing.
LogicInv ==
  /\ listed \in Listings
  /\ phase = "read" => props = <<>> /\ edges = {}
  /\ phase # "read" /\ settings.compile => props = CompiledProps(listed)
  /\ \/ props = <<>> /\ edges = {}
     \/ /\ props = CompiledProps(listed)
        /\ ComplementEdges(listed) \cup ExactlyOneEdges(listed) \subseteq edges
        /\ edges \subseteq
             ComplementEdges(listed) \cup ExactlyOneEdges(listed) \cup RuleEdges(props)
  /\ phase = "done" /\ settings.rules => RuleEdges(props) \subseteq edges

\* The propositions the compiler can make, as far as the stage rules read them.
PropOK(p) ==
  /\ p.pred = "reaches_stage" => p.team \in Teams /\ p.about \in ReachTitles
  /\ p.pred = "eliminated_at_stage" => p.team \in Teams
  /\ p.pred = "wins_competition" => p.team \in Teams

\* Complements and partitions are no edges of rules.
LEMMA StructuralTypes ==
  ASSUME NEW ms, NEW e \in ComplementEdges(ms) \cup ExactlyOneEdges(ms)
  PROVE  e.type \in {"COMPLEMENT", "EXACTLY_ONE"}
<1>1. CASE e \in ComplementEdges(ms)
  BY <1>1 DEF ComplementEdges, Edge
<1>2. CASE e \in ExactlyOneEdges(ms)
  BY <1>2 DEF ExactlyOneEdges, Edge
<1> QED BY <1>1, <1>2

\* The compilers emit well-formed propositions.
LEMMA CompiledPropOK ==
  ASSUME NEW ms \in SUBSET Markets, NEW o \in DOMAIN CompiledProps(ms)
  PROVE  PropOK(CompiledProps(ms)[o])
<1> DEFINE p == CompiledProps(ms)[o]
<1>1. o \in BinaryOutcomes(ms) \cup AdvanceOutcomes(ms)
  BY DEF CompiledProps
<1>2. CASE o[1].kind = "advance"
  <2>1. p = Prop("advances_match", o[2], o[1].of, TRUE)
    BY <1>1, <1>2 DEF CompiledProps
  <2> QED BY <2>1 DEF PropOK, Prop
<1>3. CASE o[1].kind # "advance"
  <2>1. p = [YesProp(o[1]) EXCEPT !.pos = (o[2] = "Yes")]
    BY <1>1, <1>3 DEF CompiledProps
  <2>2. PICK m \in Compiled(ms) : o = Yes(m) \/ o = No(m)
    BY <1>1, <1>3 DEF BinaryOutcomes, YesOutcomes, AdvanceOutcomes
  <2>3. m \in Markets /\ m.kind \in Binary /\ o[1] = m
    BY <2>2 DEF Compiled, Yes, No
  <2>4. PropOK(YesProp(m)) /\ YesProp(m) \in [pred : {YesProp(m).pred}, team : {YesProp(m).team},
                                                about : {YesProp(m).about}, pos : {TRUE}]
    BY <2>3, MarketAssumption DEF PropOK, YesProp, Prop, Binary, Draw, Cup
  <2> QED BY <2>1, <2>3, <2>4 DEF PropOK
<1> QED BY <1>2, <1>3

\* Without propositions there is nothing to pair.
LEMMA NoRuleEdges == RuleEdges(<<>>) = {}
<1>1. \A e \in RuleEdges(<<>>) : e.src \in DOMAIN <<>>
  BY DEF RuleEdges
<1> QED BY <1>1

\* The rules look at propositions only.
LEMMA RuleFrame == ASSUME UNCHANGED props PROVE RuleEdges(props)' = RuleEdges(props)
BY DEF RuleEdges

\* Where edges come from: every edge is one that a compiler or a rule emits for
\* the listed markets (propositions.py:580-628, rules.py:194-260).
THEOREM LogicInvHolds == Spec => []LogicInv
<1>1. Init => LogicInv
  BY NoRuleEdges DEF Init, LogicInv
<1>2. LogicInv /\ [Next]_vars => LogicInv'
  <2> SUFFICES ASSUME LogicInv, [Next]_vars
               PROVE  LogicInv'
    OBVIOUS
  <2>1. CASE compile_propositions
    BY <2>1 DEF LogicInv, compile_propositions
  <2>2. CASE apply_rules
    <3>1. UNCHANGED <<props, listed, settings>> /\ phase = "compiled" /\ phase' = "done"
      BY <2>2 DEF apply_rules
    <3>2. RuleEdges(props)' = RuleEdges(props)
      BY <3>1, RuleFrame
    <3>3. edges' = edges \/ edges' = edges \cup RuleEdges(props)
      BY <2>2 DEF apply_rules
    <3>4. settings.rules => RuleEdges(props) \subseteq edges'
      BY <2>2, NoRuleEdges DEF apply_rules
    <3>5. props = <<>> => edges' = edges
      BY <2>2 DEF apply_rules
    <3> QED BY <3>1, <3>2, <3>3, <3>4, <3>5 DEF LogicInv
  <2>3. CASE UNCHANGED vars
    BY <2>3, RuleFrame DEF LogicInv, vars
  <2> QED BY <2>1, <2>2, <2>3 DEF Next
<1> QED BY <1>1, <1>2, PTL DEF Spec

---------------------------------------------------------------------------
(* What a rule edge says, read off the propositions of its ends.           *)

\* An edge of a rule joins two propositions that the rule relates.
LEMMA RuleEdgeEnds ==
  ASSUME LogicInv, NEW e \in edges, e.type \in {"IMPLIES", "EQUIVALENT", "MUTEX"}
  PROVE  /\ e.src \in DOMAIN props /\ e.tgt \in DOMAIN props
         /\ PropOK(props[e.src]) /\ PropOK(props[e.tgt])
         /\ Emits(props[e.src], props[e.tgt], e.type)
<1>0. props = CompiledProps(listed) /\ listed \in SUBSET Markets
  BY MarketAssumption DEF LogicInv
<1>1. e \in RuleEdges(props)
  BY StructuralTypes DEF LogicInv
<1>2. e.src \in DOMAIN props /\ e.tgt \in DOMAIN props
      /\ Emits(props[e.src], props[e.tgt], e.type)
  BY <1>1 DEF RuleEdges
<1>3. PropOK(props[e.src]) /\ PropOK(props[e.tgt])
  BY <1>0, <1>2, CompiledPropOK
<1> QED BY <1>2, <1>3

\* A team that visits a stage has visited every stage of lower rank that can
\* be reached.
LEMMA LadderLemma ==
  ASSUME NEW s \in ReachTitles, NEW t \in ReachTitles, NEW f \in Labels,
         stage_rank(s) > stage_rank(t), s \in Visited[f]
  PROVE  t \in Visited[f]
<1>1. CASE f = "GroupStage" BY <1>1 DEF ReachTitles, stage_rank, Rank, Labels, Visited
<1>2. CASE f = "R32" BY <1>2 DEF ReachTitles, stage_rank, Rank, Labels, Visited
<1>3. CASE f = "R16" BY <1>3 DEF ReachTitles, stage_rank, Rank, Labels, Visited
<1>4. CASE f = "QF" BY <1>4 DEF ReachTitles, stage_rank, Rank, Labels, Visited
<1>5. CASE f = "SF" BY <1>5 DEF ReachTitles, stage_rank, Rank, Labels, Visited
<1>6. CASE f = "ThirdPlace" BY <1>6 DEF ReachTitles, stage_rank, Rank, Labels, Visited
<1>7. CASE f = "Final" BY <1>7 DEF ReachTitles, stage_rank, Rank, Labels, Visited
<1>8. CASE f = "Champion" BY <1>8 DEF ReachTitles, stage_rank, Rank, Labels, Visited
<1> QED BY <1>1, <1>2, <1>3, <1>4, <1>5, <1>6, <1>7, <1>8 DEF Labels

\* A team's run ends at a stage that elimination markets name.
LEMMA FatesAreLabels ==
  ASSUME NEW w \in Tournaments, NEW t \in Teams
  PROVE  w.fate[t] \in Labels
BY TournamentAssumption DEF Worlds, Fates

\* What a positive proposition on a team's run says of a world.
LEMMA PositiveHolds ==
  ASSUME NEW p, p.pos, NEW w
  PROVE  /\ p.pred = "reaches_stage" => (Holds(p, w) <=> p.about \in Visited[w.fate[p.team]])
         /\ p.pred = "eliminated_at_stage" => (Holds(p, w) <=> w.fate[p.team] = p.about)
         /\ p.pred = "wins_competition" => (Holds(p, w) <=> w.fate[p.team] = "Champion")
<1>1. CASE p.pred = "reaches_stage" BY <1>1 DEF Holds
<1>2. CASE p.pred = "eliminated_at_stage" BY <1>2 DEF Holds
<1>3. CASE p.pred = "wins_competition" BY <1>3 DEF Holds
<1> QED BY <1>1, <1>2, <1>3

\* stage_monotonicity: who reaches a stage has reached the earlier ones.
LEMMA MonotonicitySound ==
  ASSUME NEW p, NEW q, PropOK(p), PropOK(q), stage_monotonicity(p, q), NEW w \in Tournaments, Holds(p, w)
  PROVE  Holds(q, w)
<1>1. /\ p.pos /\ q.pos /\ p.team = q.team /\ p.team \in Teams
      /\ p.pred = "reaches_stage" /\ q.pred = "reaches_stage"
      /\ p.about \in ReachTitles /\ q.about \in ReachTitles
      /\ stage_rank(p.about) > stage_rank(q.about)
  BY DEF stage_monotonicity, same_team_and_competition, PropOK
<1>2. p.about \in Visited[w.fate[p.team]]
  BY <1>1, PositiveHolds
<1>3. q.about \in Visited[w.fate[q.team]]
  BY <1>1, <1>2, LadderLemma, FatesAreLabels
<1> QED BY <1>1, <1>3, PositiveHolds

\* champion_reaches_final.
LEMMA ChampionSound ==
  ASSUME NEW p, NEW q, champion_reaches_final(p, q), NEW w \in Tournaments, Holds(p, w)
  PROVE  Holds(q, w)
<1>1. /\ p.pos /\ q.pos /\ p.team = q.team
      /\ p.pred = "wins_competition" /\ q.pred = "reaches_stage" /\ q.about = "Final"
  BY DEF champion_reaches_final, same_team_and_competition
<1>2. w.fate[p.team] = "Champion"
  BY <1>1, PositiveHolds
<1>3. q.about \in Visited[w.fate[q.team]]
  BY <1>1, <1>2 DEF Visited
<1> QED BY <1>1, <1>3, PositiveHolds

\* elimination_implies_reaches: who goes out at a stage has reached it.
LEMMA EliminationSound ==
  ASSUME NEW p, NEW q, PropOK(q), elimination_implies_reaches(p, q), NEW w \in Tournaments, Holds(p, w)
  PROVE  Holds(q, w)
<1>1. /\ p.pos /\ q.pos /\ p.team = q.team
      /\ p.pred = "eliminated_at_stage" /\ q.pred = "reaches_stage"
      /\ p.about = q.about /\ q.about \in ReachTitles
  BY DEF elimination_implies_reaches, same_team_and_competition, PropOK
<1>2. w.fate[p.team] = p.about
  BY <1>1, PositiveHolds
<1>3. q.about \in Visited[q.about]
  BY <1>1 DEF ReachTitles, Visited
<1> QED BY <1>1, <1>2, <1>3, PositiveHolds

\* champion_equals_elim_at_champion.
LEMMA EquivalenceSound ==
  ASSUME NEW p, NEW q, champion_equals_elim_at_champion(p, q), NEW w \in Tournaments
  PROVE  Holds(p, w) <=> Holds(q, w)
<1>1. p.pos /\ q.pos /\ p.team = q.team
  BY DEF champion_equals_elim_at_champion, same_team_and_competition
<1>2. \A s : stage_rank(s) = Rank.Champion => s = "Champion"
  BY DEF stage_rank, Rank, Labels
<1>3. CASE p.pred = "wins_competition" /\ q.pred = "eliminated_at_stage" /\ q.about = "Champion"
  BY <1>1, <1>3, PositiveHolds
<1>4. CASE q.pred = "wins_competition" /\ p.pred = "eliminated_at_stage" /\ p.about = "Champion"
  BY <1>1, <1>4, PositiveHolds
<1> QED BY <1>2, <1>3, <1>4 DEF champion_equals_elim_at_champion

\* Every implication and equivalence the rule engine emits holds in every
\* tournament: rules.py, apply_rules over compile_propositions.
THEOREM RulesAreSound == Spec => []RuleEdgesHold
<1>1. LogicInv => RuleEdgesHold
  <2> SUFFICES ASSUME LogicInv
               PROVE  RuleEdgesHold
    OBVIOUS
  <2>1. ASSUME NEW e \in OfType("IMPLIES")
        PROVE  Entails(props[e.src], props[e.tgt])
    <3>1. e \in edges /\ e.type = "IMPLIES"
      BY <2>1 DEF OfType
    <3>2. /\ PropOK(props[e.src]) /\ PropOK(props[e.tgt])
          /\ Emits(props[e.src], props[e.tgt], "IMPLIES")
      BY <3>1, RuleEdgeEnds
    <3>3. \/ stage_monotonicity(props[e.src], props[e.tgt])
          \/ champion_reaches_final(props[e.src], props[e.tgt])
          \/ elimination_implies_reaches(props[e.src], props[e.tgt])
      BY <3>2 DEF Emits
    <3> QED BY <3>2, <3>3, MonotonicitySound, ChampionSound, EliminationSound DEF Entails
  <2>2. ASSUME NEW e \in OfType("EQUIVALENT")
        PROVE  Entails(props[e.src], props[e.tgt]) /\ Entails(props[e.tgt], props[e.src])
    <3>1. e \in edges /\ e.type = "EQUIVALENT"
      BY <2>2 DEF OfType
    <3>2. Emits(props[e.src], props[e.tgt], "EQUIVALENT")
      BY <3>1, RuleEdgeEnds
    <3>3. \/ champion_equals_elim_at_champion(props[e.src], props[e.tgt])
          \/ champion_equals_elim_at_champion(props[e.tgt], props[e.src])
      BY <3>2 DEF Emits
    <3> QED BY <3>3, EquivalenceSound DEF Entails
  <2> QED BY <2>1, <2>2 DEF RuleEdgesHold
<1> QED BY <1>1, LogicInvHolds, PTL

---------------------------------------------------------------------------
(* Acyclicity: an implication strictly lowers the height of a proposition. *)

Height(p) == IF p.pred = "reaches_stage" THEN Rank[p.about] ELSE 7

\* Along an implication the height falls.
LEMMA ImpliesDescends ==
  ASSUME LogicInv, NEW e \in edges, e.type = "IMPLIES"
  PROVE  /\ Height(props[e.src]) \in 0..7 /\ Height(props[e.tgt]) \in 0..7
         /\ Height(props[e.tgt]) < Height(props[e.src])
<1> DEFINE p == props[e.src]
           q == props[e.tgt]
<1>1. PropOK(p) /\ PropOK(q) /\ Emits(p, q, "IMPLIES")
  BY RuleEdgeEnds
<1>2. \A s \in ReachTitles : Rank[s] \in 1..5 /\ stage_rank(s) = Rank[s]
  BY DEF ReachTitles, Rank, stage_rank, Labels
<1>3. CASE stage_monotonicity(p, q)
  BY <1>1, <1>2, <1>3 DEF stage_monotonicity, PropOK, Height
<1>4. CASE champion_reaches_final(p, q) \/ elimination_implies_reaches(p, q)
  BY <1>1, <1>2, <1>4 DEF champion_reaches_final, elimination_implies_reaches, PropOK, Height
<1> QED BY <1>1, <1>3, <1>4 DEF Emits

\* A nonempty set cannot map to the heights so that every member lies above another.
LEMMA NoDescent ==
  ASSUME NEW S, NEW h \in [S -> 0..7], \A o \in S : \E u \in S : h[u] < h[o]
  PROVE  S = {}
<1>1. \A o \in S : h[o] \in 0..7
  OBVIOUS
<1>2. \A o \in S : h[o] > 0 BY <1>1
<1>3. \A o \in S : h[o] > 1 BY <1>1, <1>2
<1>4. \A o \in S : h[o] > 2 BY <1>1, <1>3
<1>5. \A o \in S : h[o] > 3 BY <1>1, <1>4
<1>6. \A o \in S : h[o] > 4 BY <1>1, <1>5
<1>7. \A o \in S : h[o] > 5 BY <1>1, <1>6
<1>8. \A o \in S : h[o] > 6 BY <1>1, <1>7
<1>9. \A o \in S : h[o] > 7 BY <1>1, <1>8
<1> QED BY <1>1, <1>9

\* No set of outcomes has every member implying another one, so the pipeline's
\* has_implies_cycle is never true of rule edges alone (pipeline.py:143).
THEOREM RulesAreAcyclic == Spec => []ImpliesAcyclic
<1>1. LogicInv => ImpliesAcyclic
  <2> SUFFICES ASSUME LogicInv, NEW os \in SUBSET {e.src : e \in OfType("IMPLIES")}, os # {},
                      \A o \in os : \E u \in os : Edge(o, u, "IMPLIES") \in edges
               PROVE  FALSE
    BY DEF ImpliesAcyclic
  <2>1. \A o \in os : \E u \in os :
          /\ Height(props[o]) \in 0..7 /\ Height(props[u]) \in 0..7
          /\ Height(props[u]) < Height(props[o])
    BY ImpliesDescends DEF Edge
  <2> DEFINE h == [o \in os |-> Height(props[o])]
  <2>2. h \in [os -> 0..7]
    BY <2>1
  <2>3. \A o \in os : \E u \in os : h[u] < h[o]
    BY <2>1
  <2> HIDE DEF h
  <2> QED BY <2>2, <2>3, NoDescent
<1> QED BY <1>1, LogicInvHolds, PTL

---------------------------------------------------------------------------
(* Complements and mutual exclusion.                                       *)

\* Turning a positive proposition changes its polarity only.
LEMMA PropPolarity ==
  ASSUME NEW a, NEW b, NEW c, NEW x \in BOOLEAN, NEW p, p = Prop(a, b, c, TRUE)
  PROVE  [p EXCEPT !.pos = x] = Prop(a, b, c, x)
BY DEF Prop

\* What the compiler makes of the outcomes of a binary market.
LEMMA BinaryProps ==
  ASSUME NEW ms \in SUBSET Markets, NEW m \in Compiled(ms)
  PROVE  /\ Yes(m) \in DOMAIN CompiledProps(ms) /\ No(m) \in DOMAIN CompiledProps(ms)
         /\ CompiledProps(ms)[Yes(m)] = YesProp(m)
         /\ CompiledProps(ms)[No(m)] = [YesProp(m) EXCEPT !.pos = FALSE]
<1>1. m \in Markets /\ m.kind \in Binary /\ m.kind # "advance"
  BY DEF Compiled, Binary
<1>2. Yes(m) \in BinaryOutcomes(ms) /\ No(m) \in BinaryOutcomes(ms)
  BY DEF BinaryOutcomes, YesOutcomes
<1>3. /\ Yes(m)[1] = m /\ Yes(m)[2] = "Yes" /\ No(m)[1] = m /\ No(m)[2] = "No"
      /\ ("Yes" = "Yes") = TRUE /\ ("No" = "Yes") = FALSE
  BY DEF Yes, No
<1>4. /\ CompiledProps(ms)[Yes(m)] = [YesProp(m) EXCEPT !.pos = TRUE]
      /\ CompiledProps(ms)[No(m)] = [YesProp(m) EXCEPT !.pos = FALSE]
  BY <1>1, <1>2, <1>3 DEF CompiledProps
<1>5. PICK a, b, c : YesProp(m) = Prop(a, b, c, TRUE)
  BY <1>1 DEF YesProp, Binary
<1>6. [YesProp(m) EXCEPT !.pos = TRUE] = YesProp(m)
  BY <1>5, PropPolarity
<1> QED BY <1>2, <1>4, <1>6 DEF CompiledProps

Predicates == {"draws_match", "wins_match", "wins_group", "eliminated_at_stage",
               "wins_competition", "reaches_stage"}

\* Turning the polarity of a proposition turns its truth.
LEMMA PolarityFlips ==
  ASSUME NEW p, NEW q, p.pred \in Predicates, p.pos, ~q.pos,
         q.pred = p.pred, q.team = p.team, q.about = p.about, NEW w
  PROVE  Holds(p, w) <=> ~Holds(q, w)
<1>1. CASE p.pred = "draws_match" BY <1>1 DEF Holds
<1>2. CASE p.pred = "wins_match" BY <1>2 DEF Holds
<1>3. CASE p.pred = "wins_group" BY <1>3 DEF Holds
<1>4. CASE p.pred = "eliminated_at_stage" BY <1>4 DEF Holds
<1>5. CASE p.pred = "wins_competition" BY <1>5 DEF Holds
<1>6. CASE p.pred = "reaches_stage" BY <1>6 DEF Holds
<1> QED BY <1>1, <1>2, <1>3, <1>4, <1>5, <1>6 DEF Predicates

\* The two outcomes of a binary market are opposite.
LEMMA ComplementSound ==
  ASSUME NEW ms \in SUBSET Markets, NEW m \in Compiled(ms), NEW w
  PROVE  Holds(CompiledProps(ms)[Yes(m)], w) # Holds(CompiledProps(ms)[No(m)], w)
<1>1. m.kind \in Binary
  BY DEF Compiled
<1>2. PICK a \in Predicates : \E b, c : YesProp(m) = Prop(a, b, c, TRUE)
  BY <1>1 DEF YesProp, Binary, Predicates
<1>3. PICK b, c : YesProp(m) = Prop(a, b, c, TRUE)
  BY <1>2
<1> DEFINE p == CompiledProps(ms)[Yes(m)]
           q == CompiledProps(ms)[No(m)]
<1>4. p = Prop(a, b, c, TRUE) /\ q = Prop(a, b, c, FALSE)
  <2>1. [YesProp(m) EXCEPT !.pos = FALSE] = Prop(a, b, c, FALSE)
    BY <1>3, PropPolarity
  <2> QED BY <1>3, <2>1, BinaryProps
<1>5. /\ p.pred \in Predicates /\ p.pos /\ ~q.pos
      /\ q.pred = p.pred /\ q.team = p.team /\ q.about = p.about
  BY <1>4 DEF Prop
<1> HIDE DEF p, q
<1>6. Holds(p, w) <=> ~Holds(q, w)
  BY <1>5, PolarityFlips
<1>7. Holds(p, w) \in BOOLEAN /\ Holds(q, w) \in BOOLEAN
  BY DEF Holds
<1> QED BY <1>6, <1>7 DEF p, q

\* single_match_winner_mutex: two teams do not both win a match.
LEMMA MutexSound ==
  ASSUME NEW p, NEW q, single_match_winner_mutex(p, q), NEW w
  PROVE  ~(Holds(p, w) /\ Holds(q, w))
<1>1. /\ p.pos /\ q.pos /\ p.pred = "wins_match" /\ q.pred = "wins_match"
      /\ p.about = q.about /\ p.team # q.team
  BY DEF single_match_winner_mutex
<1>2. Holds(p, w) <=> w.result[p.about].ninety = p.team
  BY <1>1 DEF Holds
<1>3. Holds(q, w) <=> w.result[q.about].ninety = q.team
  BY <1>1 DEF Holds
<1> QED BY <1>1, <1>2, <1>3

\* The two outcomes of a market are opposite in every tournament, and outcomes
\* the rules call mutually exclusive are never both true
\* (propositions.py:133-156, rules.py:164-174).
THEOREM ExclusionsAreSound == Spec => []ExclusionsHold
<1>1. LogicInv => ExclusionsHold
  <2> SUFFICES ASSUME LogicInv
               PROVE  ExclusionsHold
    OBVIOUS
  <2>1. ASSUME NEW e \in OfType("COMPLEMENT")
        PROVE  Differ(props[e.src], props[e.tgt])
    <3>1. e \in edges /\ e.type = "COMPLEMENT"
      BY <2>1 DEF OfType
    <3>2. e \notin ExactlyOneEdges(listed) /\ e \notin RuleEdges(props)
      BY <3>1 DEF ExactlyOneEdges, Edge, RuleEdges
    <3>3. /\ props = CompiledProps(listed) /\ listed \in SUBSET Markets
          /\ e \in ComplementEdges(listed)
      BY <3>1, <3>2, MarketAssumption DEF LogicInv
    <3>4. PICK m \in Compiled(listed) :
             e = Edge(Yes(m), No(m), "COMPLEMENT") \/ e = Edge(No(m), Yes(m), "COMPLEMENT")
      BY <3>3 DEF ComplementEdges
    <3>5. \/ e.src = Yes(m) /\ e.tgt = No(m)
          \/ e.src = No(m) /\ e.tgt = Yes(m)
      BY <3>4 DEF Edge
    <3>6. \A w : Holds(props[Yes(m)], w) # Holds(props[No(m)], w)
      BY <3>3, ComplementSound
    <3> QED BY <3>5, <3>6 DEF Differ
  <2>2. ASSUME NEW e \in OfType("MUTEX")
        PROVE  Exclude(props[e.src], props[e.tgt])
    <3>1. e \in edges /\ e.type = "MUTEX"
      BY <2>2 DEF OfType
    <3>2. Emits(props[e.src], props[e.tgt], "MUTEX")
      BY <3>1, RuleEdgeEnds
    <3>3. \/ single_match_winner_mutex(props[e.src], props[e.tgt])
          \/ single_match_winner_mutex(props[e.tgt], props[e.src])
      BY <3>2 DEF Emits
    <3> QED BY <3>3, MutexSound DEF Exclude
  <2> QED BY <2>1, <2>2 DEF ExclusionsHold
<1> QED BY <1>1, LogicInvHolds, PTL

---------------------------------------------------------------------------
(* The constraints on a fixture.                                           *)

\* A set counts two members only if it has two.
LEMMA TwoMembers ==
  ASSUME NEW S, Cardinality(S) >= 2 PROVE \E x, y \in S : x # y
<1>1. CASE S = {}
  BY <1>1, FS_EmptySet
<1>2. CASE \E x : S = {x}
  BY <1>2, FS_Singleton
<1> QED BY <1>1, <1>2

\* What a constraint of a state ranges over: all that some event gathers for it
\* and emits.
LEMMA ConstraintEnds ==
  ASSUME LogicInv, NEW m \in listed, m.kind \in DOMAIN ConstraintKind,
         Constrained(Constraint(m)) # {}
  PROVE  /\ props = CompiledProps(listed) /\ listed \in SUBSET Markets
         /\ \A o \in Constrained(Constraint(m)) : \E n \in listed :
              /\ n.kind = m.kind /\ n.of = m.of /\ Emitted(listed, n)
              /\ ConstraintOutcomes(listed, n) \subseteq Constrained(Constraint(m))
              /\ o \in ConstraintOutcomes(listed, n)
<1> DEFINE E == {x \in OfType("EXACTLY_ONE") : x.src = Constraint(m)}
<1>1. /\ props = CompiledProps(listed) /\ listed \in SUBSET Markets
      /\ ExactlyOneEdges(listed) \subseteq edges
      /\ edges \subseteq ComplementEdges(listed) \cup ExactlyOneEdges(listed) \cup RuleEdges(props)
  BY MarketAssumption DEF LogicInv, OfType, Constrained
<1>2. \A e \in E : e \in ExactlyOneEdges(listed)
  BY <1>1 DEF OfType, ComplementEdges, Edge, RuleEdges
<1>3. ASSUME NEW e \in E
      PROVE  \E n \in listed :
               /\ n.kind = m.kind /\ n.of = m.of /\ Emitted(listed, n)
               /\ ConstraintOutcomes(listed, n) \subseteq Constrained(Constraint(m))
               /\ e.tgt \in ConstraintOutcomes(listed, n)
  <2>1. PICK n \in {x \in listed : x.kind \in DOMAIN ConstraintKind /\ Emitted(listed, x)} :
           e \in {Edge(Constraint(n), o, "EXACTLY_ONE") : o \in ConstraintOutcomes(listed, n)}
    BY <1>2, <1>3 DEF ExactlyOneEdges
  <2>2. PICK o \in ConstraintOutcomes(listed, n) : e = Edge(Constraint(n), o, "EXACTLY_ONE")
    BY <2>1
  <2>3. Constraint(n) = Constraint(m) /\ e.tgt = o
    BY <1>3, <2>2 DEF Edge
  <2>4. n.kind = m.kind /\ n.of = m.of
    BY <2>1, <2>3 DEF Constraint, ConstraintKind
  <2>5. ASSUME NEW u \in ConstraintOutcomes(listed, n) PROVE u \in Constrained(Constraint(m))
    <3>1. Edge(Constraint(m), u, "EXACTLY_ONE") \in ExactlyOneEdges(listed)
      BY <2>1, <2>3 DEF ExactlyOneEdges
    <3>2. Edge(Constraint(m), u, "EXACTLY_ONE") \in E
      BY <1>1, <3>1 DEF OfType, Edge
    <3> QED BY <3>2 DEF Constrained, Edge
  <2> QED BY <2>1, <2>2, <2>3, <2>4, <2>5
<1> QED BY <1>1, <1>3 DEF Constrained

Result(f, s) ==
  IF s = Draw THEN Prop("draws_match", Draw, f, TRUE) ELSE Prop("wins_match", s, f, TRUE)
Advances(f, t) == Prop("advances_match", t, f, TRUE)

\* What a proposition on a result says,
LEMMA ResultHolds ==
  ASSUME NEW f, NEW s, NEW w PROVE Holds(Result(f, s), w) <=> w.result[f].ninety = s
<1>1. CASE s = Draw
  <2>1. Result(f, s) = Prop("draws_match", Draw, f, TRUE)
    BY <1>1 DEF Result
  <2> QED BY <1>1, <2>1 DEF Prop, Holds
<1>2. CASE s # Draw
  <2>1. Result(f, s) = Prop("wins_match", s, f, TRUE)
    BY <1>2 DEF Result
  <2> QED BY <2>1 DEF Prop, Holds
<1> QED BY <1>1, <1>2

\* and one on a qualification.
LEMMA AdvancesHolds ==
  ASSUME NEW f, NEW t, NEW w PROVE Holds(Advances(f, t), w) <=> w.result[f].through = t
BY DEF Advances, Prop, Holds

\* What a match gathers for its result: wins of its teams and draws.
LEMMA ResultOutcome ==
  ASSUME NEW ms \in SUBSET Markets, NEW m, m.kind = "moneyline",
         NEW o \in ConstraintOutcomes(ms, m)
  PROVE  /\ o[1] \in ms /\ o = Yes(o[1]) /\ o[1].kind = "moneyline" /\ o[1].of = m.of
         /\ o[1].subject \in Sides[m.of] \cup {Draw}
         /\ CompiledProps(ms)[o] = Result(m.of, o[1].subject)
<1>1. o[1].kind = "moneyline" /\ o[1].of = m.of
  BY DEF ConstraintOutcomes
<1>2. o \notin AdvanceOutcomes(ms)
  BY <1>1 DEF AdvanceOutcomes
<1>3. PICK n \in Compiled(ms) : o = Yes(n)
  BY <1>2 DEF ConstraintOutcomes, YesOutcomes
<1>4. n \in ms /\ o[1] = n /\ n.subject \in Sides[m.of] \cup {Draw}
  BY <1>1, <1>3 DEF Yes, Compiled, Compiles
<1>5. YesProp(n) = Result(m.of, n.subject)
  BY <1>1, <1>4 DEF YesProp, Result
<1> QED BY <1>1, <1>3, <1>4, <1>5, BinaryProps

\* What it gathers for its qualification: teams that may advance.
LEMMA AdvanceOutcome ==
  ASSUME NEW ms \in SUBSET Markets, NEW m, m.kind = "advance",
         NEW o \in ConstraintOutcomes(ms, m)
  PROVE  /\ o[1] \in ms /\ o = <<o[1], o[2]>> /\ o[1].kind = "advance" /\ o[1].of = m.of
         /\ o[2] \in o[1].subject \cap Sides[m.of]
         /\ CompiledProps(ms)[o] = Advances(m.of, o[2])
<1>1. o[1].kind = "advance" /\ o[1].of = m.of
  BY DEF ConstraintOutcomes
<1>2. o \notin YesOutcomes(ms)
  BY <1>1 DEF YesOutcomes, Yes, Compiled, Binary
<1>3. o \in AdvanceOutcomes(ms)
  BY <1>2 DEF ConstraintOutcomes
<1>4. PICK n \in {x \in ms : x.kind = "advance"} :
         o \in {<<n, t>> : t \in n.subject \cap Sides[n.of]}
  BY <1>3 DEF AdvanceOutcomes
<1>5. CompiledProps(ms)[o] = Advances(m.of, o[2])
  BY <1>1, <1>3 DEF CompiledProps, Advances
<1> QED BY <1>1, <1>4, <1>5

\* The result an outcome of a constraint on a fixture stands for.
Offered(o) == IF o[1].kind = "advance" THEN o[2] ELSE o[1].subject
ActualResult(m, w) ==
  IF m.kind = "advance" THEN w.result[m.of].through ELSE w.result[m.of].ninety

\* Without twins every result is offered by one outcome at most,
LEMMA OfferedOnce ==
  ASSUME listed \in SUBSET Markets, NEW m, m.kind \in {"moneyline", "advance"}, NoTwins(m),
         NEW n1, n1.kind = m.kind, n1.of = m.of, NEW o \in ConstraintOutcomes(listed, n1),
         NEW n2, n2.kind = m.kind, n2.of = m.of, NEW u \in ConstraintOutcomes(listed, n2),
         Offered(o) = Offered(u)
  PROVE  o = u
<1>1. CASE m.kind = "moneyline"
  <2>1. /\ o[1] \in listed /\ o = Yes(o[1]) /\ o[1].kind = "moneyline" /\ o[1].of = m.of
        /\ u[1] \in listed /\ u = Yes(u[1]) /\ u[1].kind = "moneyline" /\ u[1].of = m.of
    BY <1>1, ResultOutcome
  <2>2. Offers(o[1]) \cap Offers(u[1]) # {}
    BY <2>1 DEF Offered, Offers
  <2>3. o[1] = u[1]
    BY <1>1, <2>1, <2>2 DEF NoTwins
  <2> QED BY <2>1, <2>3
<1>2. CASE m.kind = "advance"
  <2>1. /\ o[1] \in listed /\ o = <<o[1], o[2]>> /\ o[1].kind = "advance" /\ o[1].of = m.of
        /\ u[1] \in listed /\ u = <<u[1], u[2]>> /\ u[1].kind = "advance" /\ u[1].of = m.of
        /\ o[2] \in o[1].subject /\ u[2] \in u[1].subject
    BY <1>2, AdvanceOutcome
  <2>2. o[2] = u[2]
    BY <2>1 DEF Offered
  <2>3. Offers(o[1]) \cap Offers(u[1]) # {}
    BY <2>1, <2>2 DEF Offers
  <2>4. o[1] = u[1]
    BY <1>2, <2>1, <2>3 DEF NoTwins
  <2> QED BY <2>1, <2>2, <2>4
<1> QED BY <1>1, <1>2

\* so that an event that emits a constraint offers all of them:
LEMMA AllOffered ==
  ASSUME listed \in SUBSET Markets, NEW m \in listed, m.kind \in {"moneyline", "advance"},
         NoTwins(m), Emitted(listed, m),
         NEW r \in Sides[m.of] \cup (IF m.kind = "advance" THEN {} ELSE {Draw})
  PROVE  \E o \in ConstraintOutcomes(listed, m) : Offered(o) = r
<1> DEFINE os == ConstraintOutcomes(listed, m)
<1>1. m.of \in Fixtures
  BY MarketAssumption
<1>2. PICK s, t \in Teams : Sides[m.of] = {s, t}
  BY <1>1, CupAssumption
<1>3. CASE m.kind = "moneyline"
  <2>1. PICK d \in os : d[1].subject = Draw
    BY <1>3 DEF Emitted
  <2>2. Cardinality({o \in os : o[1].subject # Draw}) >= 2
    BY <1>3 DEF Emitted
  <2>3. PICK x, y \in {o \in os : o[1].subject # Draw} : x # y
    BY <2>2, TwoMembers
  <2>4. \A o \in os : Offered(o) = o[1].subject /\ Offered(o) \in {s, t, Draw}
    BY <1>2, <1>3, ResultOutcome DEF Offered
  <2>5. Offered(x) # Offered(y)
    BY <1>3, <2>3, OfferedOnce
  <2>6. {Offered(x), Offered(y)} = {s, t} /\ Offered(d) = Draw
    BY <2>1, <2>3, <2>4, <2>5
  <2> QED BY <1>2, <1>3, <2>1, <2>3, <2>6
<1>4. CASE m.kind = "advance"
  <2>1. PICK x, y \in os : x # y
    BY TwoMembers DEF Emitted
  <2>2. \A o \in os : Offered(o) \in {s, t}
    BY <1>2, <1>4, AdvanceOutcome DEF Offered
  <2>3. Offered(x) # Offered(y)
    BY <1>4, <2>1, OfferedOnce
  <2> QED BY <1>2, <1>4, <2>1, <2>2, <2>3
<1> QED BY <1>3, <1>4

\* and an outcome is true when its result is the one that comes true.
LEMMA OutcomeHolds ==
  ASSUME NEW ms \in SUBSET Markets, NEW m, m.kind \in {"moneyline", "advance"},
         NEW o \in ConstraintOutcomes(ms, m), NEW w
  PROVE  Holds(CompiledProps(ms)[o], w) <=> Offered(o) = ActualResult(m, w)
<1>1. CASE m.kind = "moneyline"
  BY <1>1, ResultOutcome, ResultHolds DEF Offered, ActualResult
<1>2. CASE m.kind = "advance"
  BY <1>2, AdvanceOutcome, AdvancesHolds DEF Offered, ActualResult
<1> QED BY <1>1, <1>2

\* Whatever is listed of a fixture, in however many events, with results missing
\* or with teams that do not play in it: as long as no result is on offer twice,
\* exactly one of the outcomes a match-result or match-advance constraint ranges
\* over is true in every tournament (propositions.py:203-331).
THEOREM MatchPartitionsAreSound == Spec => []MatchPartitionsHold
<1>1. LogicInv => MatchPartitionsHold
  <2> SUFFICES ASSUME LogicInv, NEW m \in listed, m.kind \in {"moneyline", "advance"},
                      NoTwins(m), Constrained(Constraint(m)) # {}, NEW w \in Tournaments
               PROVE  Cardinality({o \in Constrained(Constraint(m)) : Holds(props[o], w)}) = 1
    BY DEF MatchPartitionsHold, PartitionHolds
  <2> DEFINE os == Constrained(Constraint(m))
             r == ActualResult(m, w)
  <2>1. m.kind \in DOMAIN ConstraintKind
    BY DEF ConstraintKind
  <2>2. /\ props = CompiledProps(listed) /\ listed \in SUBSET Markets
        /\ \A o \in os : \E n \in listed :
             /\ n.kind = m.kind /\ n.of = m.of /\ Emitted(listed, n)
             /\ ConstraintOutcomes(listed, n) \subseteq os
             /\ o \in ConstraintOutcomes(listed, n)
    BY <2>1, ConstraintEnds
  <2>3. r \in Sides[m.of] \cup (IF m.kind = "advance" THEN {} ELSE {Draw})
    <3>1. m.of \in Fixtures
      BY <2>2, MarketAssumption
    <3> QED BY <3>1, TournamentAssumption DEF Worlds, Results, ActualResult
  <2> HIDE DEF os, r
  <2>4. \E o \in os : Offered(o) = r
    <3>1. PICK n \in listed : /\ n.kind = m.kind /\ n.of = m.of /\ Emitted(listed, n)
                              /\ ConstraintOutcomes(listed, n) \subseteq os
      BY <2>2 DEF os
    <3>2. NoTwins(n)
      BY <3>1 DEF NoTwins
    <3>3. \E o \in ConstraintOutcomes(listed, n) : Offered(o) = r
      BY <2>2, <2>3, <3>1, <3>2, AllOffered
    <3> QED BY <3>1, <3>3
  <2>5. \A o, u \in os : Offered(o) = Offered(u) => o = u
    BY <2>2, OfferedOnce
  <2>6. \A o \in os : Holds(props[o], w) <=> Offered(o) = r
    <3> SUFFICES ASSUME NEW o \in os PROVE Holds(props[o], w) <=> Offered(o) = r
      OBVIOUS
    <3>1. PICK n \in listed : n.kind = m.kind /\ n.of = m.of /\ o \in ConstraintOutcomes(listed, n)
      BY <2>2
    <3>2. ActualResult(n, w) = r
      BY <3>1 DEF ActualResult, r
    <3> QED BY <2>2, <3>1, <3>2, OutcomeHolds
  <2>7. PICK u \in os : {o \in os : Holds(props[o], w)} = {u}
    BY <2>4, <2>5, <2>6
  <2> QED BY <2>7, FS_Singleton DEF os
<1> QED BY <1>1, LogicInvHolds, PTL

---------------------------------------------------------------------------
(* The ladder of stages.                                                   *)

\* One team may end its run at any stage while all others leave in the group.
LEMMA LoneRun ==
  ASSUME Tournaments = Worlds, \A g \in Groups : Members[g] # {},
         NEW t \in Teams, NEW s \in ReachTitles
  PROVE  \E w \in Tournaments : \A u \in Teams : w.fate[u] = IF u = t THEN s ELSE "GroupStage"
<1> DEFINE fate == [u \in Teams |-> IF u = t THEN s ELSE "GroupStage"]
           side(f) == CHOOSE x : x \in Sides[f]
           result == [f \in Fixtures |-> [ninety |-> side(f), through |-> side(f)]]
           winner == [g \in Groups |-> CHOOSE x : x \in Members[g]]
<1>1. fate \in Fates
  <2>1. s \in Labels /\ s # "Champion" /\ "GroupStage" \in Labels
    BY DEF ReachTitles, Labels
  <2>2. \A u \in Teams : fate[u] # "Champion"
    BY <2>1
  <2>3. fate \in [Teams -> Labels]
    BY <2>1
  <2> HIDE DEF fate
  <2> QED BY <2>2, <2>3 DEF Fates, OneChampion
<1>2. result \in Results
  <2>1. \A f \in Fixtures : side(f) \in Sides[f] /\ Sides[f] \subseteq Teams
    BY CupAssumption
  <2> HIDE DEF side
  <2> QED BY <2>1 DEF Results
<1>3. winner \in Winners
  <2>1. \A g \in Groups : (CHOOSE x : x \in Members[g]) \in Members[g] /\ Members[g] \subseteq Teams
    BY CupAssumption
  <2> QED BY <2>1 DEF Winners
<1>4. [fate |-> fate, result |-> result, winner |-> winner] \in Tournaments
  BY <1>1, <1>2, <1>3 DEF Worlds
<1> QED BY <1>4

\* A stage does not require one of the same or a higher rank.
LEMMA NotVisited ==
  ASSUME NEW s \in ReachTitles, NEW t \in ReachTitles, s # t,
         ~(stage_rank(s) > stage_rank(t))
  PROVE  t \notin Visited[s]
<1>1. CASE s = "R32" BY <1>1 DEF ReachTitles, stage_rank, Rank, Labels, Visited
<1>2. CASE s = "R16" BY <1>2 DEF ReachTitles, stage_rank, Rank, Labels, Visited
<1>3. CASE s = "QF" BY <1>3 DEF ReachTitles, stage_rank, Rank, Labels, Visited
<1>4. CASE s = "SF" BY <1>4 DEF ReachTitles, stage_rank, Rank, Labels, Visited
<1>5. CASE s = "Final" BY <1>5 DEF ReachTitles, stage_rank, Rank, Labels, Visited
<1> QED BY <1>1, <1>2, <1>3, <1>4, <1>5 DEF ReachTitles

\* A positive proposition on a reached stage is told by its team and stage.
LEMMA ReachProp ==
  ASSUME NEW ms \in SUBSET Markets, NEW o \in DOMAIN CompiledProps(ms),
         CompiledProps(ms)[o].pred = "reaches_stage", CompiledProps(ms)[o].pos
  PROVE  CompiledProps(ms)[o] =
           Prop("reaches_stage", CompiledProps(ms)[o].team, CompiledProps(ms)[o].about, TRUE)
<1> DEFINE p == CompiledProps(ms)[o]
<1>1. o \in BinaryOutcomes(ms) \cup AdvanceOutcomes(ms)
  BY DEF CompiledProps
<1>2. o[1].kind # "advance"
  <2>1. o[1].kind = "advance" => p = Prop("advances_match", o[2], o[1].of, TRUE)
    BY <1>1 DEF CompiledProps
  <2> QED BY <2>1 DEF Prop
<1>3. PICK m \in Compiled(ms) : o = Yes(m) \/ o = No(m)
  BY <1>1, <1>2 DEF BinaryOutcomes, YesOutcomes, AdvanceOutcomes
<1>4. PICK a, b, c : YesProp(m) = Prop(a, b, c, TRUE)
  BY DEF Compiled, YesProp, Binary
<1>5. p = Prop(a, b, c, TRUE) \/ p = Prop(a, b, c, FALSE)
  BY <1>3, <1>4, BinaryProps, PropPolarity
<1> QED BY <1>5 DEF Prop

\* Judged against every tournament there can be: two listed outcomes on reaching a
\* stage of which one entails the other are linked by the rules directly, so
\* that a listing with gaps loses no implication (rules.py:106-121).
THEOREM LadderIsComplete ==
  ASSUME Tournaments = Worlds, \A g \in Groups : Members[g] # {}
  PROVE  Spec => []ReachLadderComplete
<1>1. LogicInv => ReachLadderComplete
  <2> SUFFICES ASSUME LogicInv, phase = "done", settings.compile, settings.rules,
                      NEW o \in DOMAIN props, NEW u \in DOMAIN props, props[o] # props[u],
                      props[o].pred = "reaches_stage", props[u].pred = "reaches_stage",
                      props[o].pos, props[u].pos, Entails(props[o], props[u])
               PROVE  Edge(o, u, "IMPLIES") \in edges
    BY DEF ReachLadderComplete
  <2> DEFINE p == props[o]
             q == props[u]
  <2>1. props = CompiledProps(listed) /\ listed \in SUBSET Markets /\ RuleEdges(props) \subseteq edges
    BY MarketAssumption DEF LogicInv
  <2>2. /\ p.team \in Teams /\ q.team \in Teams
        /\ p.about \in ReachTitles /\ q.about \in ReachTitles
    BY <2>1, CompiledPropOK DEF PropOK
  <2>3. /\ p = Prop("reaches_stage", p.team, p.about, TRUE)
        /\ q = Prop("reaches_stage", q.team, q.about, TRUE)
    BY <2>1, ReachProp
  <2>4. PICK w \in Tournaments : \A t \in Teams :
           w.fate[t] = IF t = p.team THEN p.about ELSE "GroupStage"
    BY <2>2, LoneRun
  <2>5. Holds(p, w)
    <3>1. p.about \in Visited[p.about]
      BY <2>2 DEF ReachTitles, Visited
    <3> QED BY <2>2, <2>4, <3>1, PositiveHolds
  <2>6. q.about \in Visited[w.fate[q.team]]
    BY <2>4, <2>5, PositiveHolds DEF Entails
  <2>7. p.team = q.team
    <3>1. q.about \notin Visited["GroupStage"]
      BY <2>2 DEF ReachTitles, Visited
    <3> QED BY <2>2, <2>4, <2>6, <3>1
  <2>8. stage_rank(p.about) > stage_rank(q.about)
    <3>1. q.about \in Visited[p.about]
      BY <2>2, <2>4, <2>6, <2>7
    <3>2. p.about # q.about
      BY <2>3, <2>7
    <3> QED BY <2>2, <3>1, <3>2, NotVisited
  <2>9. stage_monotonicity(p, q)
    <3>1. p.team # Draw
      BY <2>2, CupAssumption
    <3>2. stage_rank(p.about) >= 0 /\ stage_rank(q.about) >= 0
      BY <2>2 DEF ReachTitles, stage_rank, Rank, Labels
    <3> QED BY <2>7, <2>8, <3>1, <3>2 DEF stage_monotonicity, same_team_and_competition
  <2>10. SharesKey(p, q) /\ Emits(p, q, "IMPLIES")
    BY <2>7, <2>9 DEF SharesKey, Emits, stage_monotonicity, same_team_and_competition
  <2>11. Edge(o, u, "IMPLIES") \in RuleEdges(props)
    BY <2>10 DEF RuleEdges, Edge
  <2> QED BY <2>1, <2>11
<1> QED BY <1>1, LogicInvHolds, PTL

=============================================================================
