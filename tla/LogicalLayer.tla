--------------------------- MODULE LogicalLayer ---------------------------
(***************************************************************************)
(* The logical layer: propositions.py compiles the outcomes of recognised  *)
(* markets into propositions with COMPLEMENT pairs and EXACTLY_ONE         *)
(* constraints, rules.py pairs the propositions and adds IMPLIES,          *)
(* EQUIVALENT and MUTEX edges.  A run starts from the markets that happen   *)
(* to be listed; compile and apply_rules then run once, as in               *)
(* build_pipeline_from_markets.                                            *)
(*                                                                         *)
(* The edges are judged against tournaments: every way the cup can go is a *)
(* world, and a logical edge says something that must hold in each of them.*)
(* Nothing of rules.py is used to say what a world is.                     *)
(***************************************************************************)
EXTENDS Integers, FiniteSets

CONSTANTS
  Teams,      \* canonical teams
  Fixtures,   \* matches, as the match_local ids of their events
  Sides,      \* Sides[f]: the two teams of fixture f
  Groups,
  Members,    \* Members[g]: the teams of group g
  Markets,    \* the markets that may be listed
  Listings,   \* the sets of them that a run may find
  Tournaments \* the tournaments the edges are judged against, among Worlds

Cup == "cup"
Draw == "draw"

\* STAGE_MONOTONICITY_RANK; a label that is not in it ranks -1.
Rank == [GroupStage |-> 0, R32 |-> 1, R16 |-> 2, QF |-> 3, SF |-> 4,
         ThirdPlace |-> 5, Final |-> 5, Champion |-> 6]
Labels == {"GroupStage", "R32", "R16", "QF", "SF", "ThirdPlace", "Final", "Champion"}
stage_rank(s) == IF s \in Labels THEN Rank[s] ELSE -1

\* REACHES_STAGE_TITLES: the stages a "nation to reach" event is about.
ReachTitles == {"R32", "R16", "QF", "SF", "Final"}

\* A market: its template, what its event is about (the fixture for moneyline
\* and advance markets), which of the events with this title it belongs to, the
\* group_item_title, and an id for markets that agree in all of these.  An
\* advance market has its outcome labels as subject.
Market(kind, of, event, subject, id) ==
  [kind |-> kind, of |-> of, event |-> event, subject |-> subject, id |-> id]
Binary == {"moneyline", "group", "elimination", "winner", "reaches"}

ASSUME MarketAssumption ==
  /\ Listings \subseteq SUBSET Markets
  /\ \A m \in Markets :
       /\ m = Market(m.kind, m.of, m.event, m.subject, m.id)
       /\ m.kind \in Binary \cup {"advance"}
       /\ m.kind \in {"moneyline", "advance"} => m.of \in Fixtures
       /\ m.kind = "moneyline" => m.subject \in Teams \cup {Draw}
       /\ m.kind = "advance" => m.subject \subseteq Teams
       /\ m.kind = "group" => m.of \in Groups /\ m.subject \in Members[m.of]
       /\ m.kind = "elimination" => m.of \in Teams
       /\ m.kind = "winner" => m.subject \in Teams
       /\ m.kind = "reaches" => m.of \in ReachTitles /\ m.subject \in Teams

ASSUME CupAssumption ==
  /\ Draw \notin Teams
  /\ \A f \in Fixtures : \E s, t \in Teams : Sides[f] = {s, t}
  /\ \A g \in Groups : Members[g] \subseteq Teams

VARIABLES
  phase,     \* "read", "compiled", "done"
  settings,  \* compile_propositions and apply_rules
  listed,    \* the markets of the run
  props,     \* outcome |-> proposition, for the compiled outcomes
  edges      \* logical edges [src, tgt, type]

vars == <<phase, settings, listed, props, edges>>

---------------------------------------------------------------------------
(* propositions.py *)

Prop(pred, team, about, pos) == [pred |-> pred, team |-> team, about |-> about, pos |-> pos]

\* The proposition of a binary market's Yes outcome.
YesProp(m) ==
  CASE m.kind = "moneyline" /\ m.subject = Draw -> Prop("draws_match", Draw, m.of, TRUE)
    [] m.kind = "moneyline" /\ m.subject # Draw -> Prop("wins_match", m.subject, m.of, TRUE)
    [] m.kind = "group"       -> Prop("wins_group", m.subject, m.of, TRUE)
    [] m.kind = "elimination" -> Prop("eliminated_at_stage", m.of, m.subject, TRUE)
    [] m.kind = "winner"      -> Prop("wins_competition", m.subject, Cup, TRUE)
    [] m.kind = "reaches"     -> Prop("reaches_stage", m.subject, m.of, TRUE)

\* A moneyline or advance outcome on a team that is not in the fixture is skipped.
Compiles(m) == m.kind = "moneyline" => m.subject \in Sides[m.of] \cup {Draw}

Yes(m) == <<m, "Yes">>
No(m) == <<m, "No">>
Compiled(ms) == {m \in ms : m.kind \in Binary /\ Compiles(m)}
YesOutcomes(ms) == {Yes(m) : m \in Compiled(ms)}
BinaryOutcomes(ms) == YesOutcomes(ms) \cup {No(m) : m \in Compiled(ms)}
AdvanceOutcomes(ms) ==
  UNION {{<<m, t>> : t \in m.subject \cap Sides[m.of]} : m \in {x \in ms : x.kind = "advance"}}

CompiledProps(ms) ==
  [o \in BinaryOutcomes(ms) \cup AdvanceOutcomes(ms) |->
     IF o[1].kind = "advance" THEN Prop("advances_match", o[2], o[1].of, TRUE)
     ELSE [YesProp(o[1]) EXCEPT !.pos = (o[2] = "Yes")]]

Edge(s, t, type) == [src |-> s, tgt |-> t, type |-> type]

ComplementEdges(ms) ==
  UNION {{Edge(Yes(m), No(m), "COMPLEMENT"), Edge(No(m), Yes(m), "COMPLEMENT")} :
           m \in Compiled(ms)}

\* The constraint node of a market; markets on reached stages have none.  Its id
\* says what it is about, so that events with one title share it.
ConstraintKind == [moneyline |-> "match-result", advance |-> "match-advance",
                   group |-> "group-winner", elimination |-> "elimination",
                   winner |-> "champion"]
Constraint(m) == [constraint |-> ConstraintKind[m.kind], of |-> m.of]
Constraints(ms) == {Constraint(m) : m \in {x \in ms : x.kind \in DOMAIN ConstraintKind}}

\* The outcomes that one event gathers for the constraint of m.
ConstraintOutcomes(ms, m) ==
  {o \in YesOutcomes(ms) \cup AdvanceOutcomes(ms) :
     o[1].kind = m.kind /\ o[1].of = m.of /\ o[1].event = m.event}

\* Slip: two moneylines make a match result, with or without a draw.
EmittedWithoutDraw(ms, m) == Cardinality(ConstraintOutcomes(ms, m)) >= 2

\* A match result needs a draw and two wins, whosever they are; every other
\* constraint is emitted as soon as it has two outcomes.
Emitted(ms, m) ==
  LET os == ConstraintOutcomes(ms, m)
  IN /\ Cardinality(os) >= 2
     /\ m.kind = "moneyline" =>
          /\ \E o \in os : o[1].subject = Draw
          /\ Cardinality({o \in os : o[1].subject # Draw}) >= 2

ExactlyOneEdges(ms) ==
  UNION {{Edge(Constraint(m), o, "EXACTLY_ONE") : o \in ConstraintOutcomes(ms, m)} :
           m \in {x \in ms : x.kind \in DOMAIN ConstraintKind /\ Emitted(ms, x)}}

---------------------------------------------------------------------------
(* rules.py *)

\* _index_key: only outcomes that share a team or a match are paired.
MatchPreds == {"wins_match", "draws_match", "advances_match"}
SharesKey(p, q) ==
  \/ p.team = q.team /\ p.team # Draw
  \/ p.pred \in MatchPreds /\ q.pred \in MatchPreds /\ p.about = q.about

same_team_and_competition(p, q) == p.team = q.team /\ p.team # Draw /\ p.pos /\ q.pos

\* Slips: only the next lower stage is implied; any other stage is.
adjacent_stages_only(p, q) ==
  /\ p.pred = "reaches_stage" /\ q.pred = "reaches_stage"
  /\ same_team_and_competition(p, q)
  /\ stage_rank(q.about) >= 0
  /\ stage_rank(p.about) = stage_rank(q.about) + 1
stages_both_ways(p, q) ==
  /\ p.pred = "reaches_stage" /\ q.pred = "reaches_stage"
  /\ same_team_and_competition(p, q)
  /\ stage_rank(p.about) >= 0 /\ stage_rank(q.about) >= 0
  /\ stage_rank(p.about) # stage_rank(q.about)

stage_monotonicity(p, q) ==
  /\ p.pred = "reaches_stage" /\ q.pred = "reaches_stage"
  /\ same_team_and_competition(p, q)
  /\ stage_rank(p.about) >= 0 /\ stage_rank(q.about) >= 0
  /\ stage_rank(p.about) > stage_rank(q.about)

champion_reaches_final(p, q) ==
  /\ p.pred = "wins_competition" /\ q.pred = "reaches_stage"
  /\ same_team_and_competition(p, q)
  /\ q.about = "Final"

elimination_implies_reaches(p, q) ==
  /\ p.pred = "eliminated_at_stage" /\ q.pred = "reaches_stage"
  /\ same_team_and_competition(p, q)
  /\ p.about = q.about
  /\ stage_rank(p.about) >= Rank.R32

\* Slip: the champion's stage is told by a rank of at least the final's.
champion_equals_elim_in_final(p, q) ==
  /\ same_team_and_competition(p, q)
  /\ p.pred = "wins_competition" /\ q.pred = "eliminated_at_stage"
  /\ stage_rank(q.about) >= Rank.Final

champion_equals_elim_at_champion(p, q) ==
  /\ same_team_and_competition(p, q)
  /\ \/ /\ p.pred = "wins_competition" /\ q.pred = "eliminated_at_stage"
        /\ stage_rank(q.about) = Rank.Champion
     \/ /\ q.pred = "wins_competition" /\ p.pred = "eliminated_at_stage"
        /\ stage_rank(p.about) = Rank.Champion

\* Slip: polarity is not looked at.
mutex_of_any_polarity(p, q) ==
  /\ p.pred = "wins_match" /\ q.pred = "wins_match"
  /\ p.about = q.about
  /\ p.team # q.team

single_match_winner_mutex(p, q) ==
  /\ p.pred = "wins_match" /\ q.pred = "wins_match"
  /\ p.pos /\ q.pos
  /\ p.about = q.about
  /\ p.team # q.team

\* The registry.  The two symmetric rules also emit the reverse of a pair they
\* accept.
Emits(p, q, type) ==
  \/ /\ type = "IMPLIES"
     /\ \/ stage_monotonicity(p, q)
        \/ champion_reaches_final(p, q)
        \/ elimination_implies_reaches(p, q)
  \/ /\ type = "EQUIVALENT"
     /\ champion_equals_elim_at_champion(p, q) \/ champion_equals_elim_at_champion(q, p)
  \/ /\ type = "MUTEX"
     /\ single_match_winner_mutex(p, q) \/ single_match_winner_mutex(q, p)

\* apply_rules: every pair of compiled outcomes that share a key, both ways.
RuleEdges(ps) ==
  {e \in [src : DOMAIN ps, tgt : DOMAIN ps, type : {"IMPLIES", "EQUIVALENT", "MUTEX"}] :
     /\ e.src # e.tgt
     /\ SharesKey(ps[e.src], ps[e.tgt])
     /\ Emits(ps[e.src], ps[e.tgt], e.type)}

---------------------------------------------------------------------------
(* pipeline.py: compile, then rules over what was compiled *)

Init ==
  /\ phase = "read"
  /\ settings \in [compile : BOOLEAN, rules : BOOLEAN]
  /\ listed \in Listings
  /\ props = <<>>
  /\ edges = {}

compile_propositions ==
  /\ phase = "read"
  /\ phase' = "compiled"
  /\ IF settings.compile
     THEN /\ props' = CompiledProps(listed)
          /\ edges' = ComplementEdges(listed) \cup ExactlyOneEdges(listed)
     ELSE UNCHANGED <<props, edges>>
  /\ UNCHANGED <<settings, listed>>

apply_rules ==
  /\ phase = "compiled"
  /\ phase' = "done"
  /\ edges' = IF settings.rules /\ props # <<>> THEN edges \cup RuleEdges(props) ELSE edges
  /\ UNCHANGED <<settings, listed, props>>

Next == compile_propositions \/ apply_rules

Spec == Init /\ [][Next]_vars

---------------------------------------------------------------------------
(* Tournaments.  A team's fate is the stage its run ends at.               *)

Visited == [GroupStage |-> {"GroupStage"},
            R32        |-> {"GroupStage", "R32"},
            R16        |-> {"GroupStage", "R32", "R16"},
            QF         |-> {"GroupStage", "R32", "R16", "QF"},
            SF         |-> {"GroupStage", "R32", "R16", "QF", "SF"},
            ThirdPlace |-> {"GroupStage", "R32", "R16", "QF", "SF", "ThirdPlace"},
            Final      |-> {"GroupStage", "R32", "R16", "QF", "SF", "Final"},
            Champion   |-> {"GroupStage", "R32", "R16", "QF", "SF", "Final", "Champion"}]

OneChampion(fate) == \A t, u \in Teams : fate[t] = "Champion" /\ fate[u] = "Champion" => t = u

Fates == {fate \in [Teams -> Labels] : OneChampion(fate)}
\* A match ends with a win or a draw after ninety minutes; one side advances,
\* the winner if there is one.
Results ==
  {r \in [Fixtures -> [ninety : Teams \cup {Draw}, through : Teams]] :
     \A f \in Fixtures :
       /\ r[f].ninety \in Sides[f] \cup {Draw}
       /\ r[f].through \in Sides[f]
       /\ r[f].ninety # Draw => r[f].through = r[f].ninety}
Winners == {w \in [Groups -> Teams] : \A g \in Groups : w[g] \in Members[g]}

Worlds == [fate : Fates, result : Results, winner : Winners]

ASSUME TournamentAssumption == Tournaments \subseteq Worlds

Holds(p, w) ==
  p.pos <=> CASE p.pred = "wins_competition"    -> w.fate[p.team] = "Champion"
              [] p.pred = "reaches_stage"       -> p.about \in Visited[w.fate[p.team]]
              [] p.pred = "eliminated_at_stage" -> w.fate[p.team] = p.about
              [] p.pred = "wins_match"          -> w.result[p.about].ninety = p.team
              [] p.pred = "draws_match"         -> w.result[p.about].ninety = Draw
              [] p.pred = "advances_match"      -> w.result[p.about].through = p.team
              [] p.pred = "wins_group"          -> w.winner[p.about] = p.team

Entails(p, q) == \A w \in Tournaments : Holds(p, w) => Holds(q, w)
Differ(p, q) == \A w \in Tournaments : Holds(p, w) # Holds(q, w)
Exclude(p, q) == \A w \in Tournaments : ~(Holds(p, w) /\ Holds(q, w))

OfType(type) == {e \in edges : e.type = type}

---------------------------------------------------------------------------
TypeOK ==
  /\ phase \in {"read", "compiled", "done"}
  /\ settings \in [compile : BOOLEAN, rules : BOOLEAN]
  /\ listed \subseteq Markets
  /\ DOMAIN props \subseteq BinaryOutcomes(Markets) \cup AdvanceOutcomes(Markets)
  /\ \A e \in edges :
       /\ e.type \in {"COMPLEMENT", "EXACTLY_ONE", "IMPLIES", "EQUIVALENT", "MUTEX"}
       /\ e.tgt \in DOMAIN props
       /\ e.src \in IF e.type = "EXACTLY_ONE" THEN Constraints(listed) ELSE DOMAIN props

\* An implication or an equivalence the rules emit holds in every tournament,
\* whichever markets were listed: third place and the final share a rank, and
\* no rule may confuse them (rules.py:23, rules.py:130).
RuleEdgesHold ==
  /\ \A e \in OfType("IMPLIES") : Entails(props[e.src], props[e.tgt])
  /\ \A e \in OfType("EQUIVALENT") :
       Entails(props[e.src], props[e.tgt]) /\ Entails(props[e.tgt], props[e.src])

\* Complements are opposite in every tournament and mutex outcomes never both
\* true: only wins of one and the same match exclude each other.
ExclusionsHold ==
  /\ \A e \in OfType("COMPLEMENT") : Differ(props[e.src], props[e.tgt])
  /\ \A e \in OfType("MUTEX") : Exclude(props[e.src], props[e.tgt])

\* The outcomes of a constraint node: in every tournament exactly one is true.
Constrained(c) == {e.tgt : e \in {x \in OfType("EXACTLY_ONE") : x.src = c}}
PartitionHolds(c) ==
  \A w \in Tournaments : Cardinality({o \in Constrained(c) : Holds(props[o], w)}) = 1

\* No two markets of one kind that are listed for m's fixture, in one event or in
\* several, offer one and the same result of it.
Offers(m) == IF m.kind = "advance" THEN m.subject ELSE {m.subject}
NoTwins(m) ==
  \A x, y \in {n \in listed : n.kind = m.kind /\ n.of = m.of} :
    x # y => Offers(x) \cap Offers(y) = {}

\* Where no result of a fixture is on offer twice, a constraint on it is a
\* partition, whatever is listed of it, in how many events and whichever strangers
\* are among it: exactly one of the outcomes it ranges over is true in every
\* tournament (propositions.py:302-304, 318).
MatchPartitionsHold ==
  \A m \in listed :
    /\ m.kind \in {"moneyline", "advance"}
    /\ NoTwins(m)
    /\ Constrained(Constraint(m)) # {}
    => PartitionHolds(Constraint(m))

\* "Reaching a later stage implies reaching every earlier marketed stage"
\* (docs/guides/logical-layer.md:73): once the rules have run, an entailment
\* between listed outcomes on reaching two stages is a direct edge, with no gap
\* to be closed transitively.
ReachLadderComplete ==
  phase = "done" /\ settings.compile /\ settings.rules =>
    \A o, u \in DOMAIN props :
      /\ props[o] # props[u]
      /\ props[o].pred = "reaches_stage" /\ props[u].pred = "reaches_stage"
      /\ props[o].pos /\ props[u].pos
      /\ Entails(props[o], props[u])
      => Edge(o, u, "IMPLIES") \in edges

\* The implications are acyclic, so has_implies_cycle never makes the pipeline
\* drop the rule implications of a run (pipeline.py:143): no set of outcomes has
\* every member implying another member.
ImpliesAcyclic ==
  ~\E os \in SUBSET {e.src : e \in OfType("IMPLIES")} :
     /\ os # {}
     /\ \A o \in os : \E u \in os : Edge(o, u, "IMPLIES") \in edges

=============================================================================
