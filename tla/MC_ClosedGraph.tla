-------------------------- MODULE MC_ClosedGraph --------------------------
(* Instances of ClosedGraph for TLC: progression edges among matches and    *)
(* stages, and implications among outcomes and a market.                    *)
EXTENDS ClosedGraph, FiniteSetsExt

CONSTANTS m1, m2, m3, s1, s2, team, market, o1, o2, o3, o4, o5, unknown, x, y

MCNodeType ==
  [n \in Nodes |-> CASE n \in {m1, m2, m3} -> "MATCH"
                     [] n \in {s1, s2} -> "STAGE"
                     [] n = team -> "TEAM"
                     [] n = market -> "MARKET"
                     [] OTHER -> "OUTCOME"]

EdgeFrom(origin, type, s, t, conf, ev) ==
  [src |-> s, tgt |-> t, type |-> type, conf |-> conf, ev |-> ev, from |-> origin]

\* Every progression edge among the matches, self-loops included.
MCProgression ==
  {EdgeFrom("fragment", "ADVANCES_TO", s, t, 2, {x}) : s \in {m1, m2, m3}, t \in {m1, m2, m3}}

\* The other ways to make progress, stages in a cycle, and two edges side by side.
MCStages ==
  {EdgeFrom("fragment", "ADVANCES_TO", s, t, 2, {x}) : s \in {s1, s2}, t \in {s1, s2}}
    \cup {EdgeFrom("fragment", "ADVANCES_TO", team, s1, 2, {x}),
          EdgeFrom("fragment", "QUALIFIES_FOR", team, s1, 1, {y}),
          EdgeFrom("fragment", "QUALIFIES_FOR", s1, s2, 1, {y})}

\* Two fragments on the same edges, more or less confident, ends that are not
\* nodes and patterns that are not allowed.
MCFragments ==
  {EdgeFrom("fragment", "IMPLIES", o1, o2, 1, {x}), EdgeFrom("fragment", "IMPLIES", o1, o2, 2, {y}),
   EdgeFrom("fragment", "IMPLIES", o2, o1, 1, {x}), EdgeFrom("fragment", "IMPLIES", o2, o3, 0, {y}),
   EdgeFrom("fragment", "IMPLIES", o2, o3, 1, {x}), EdgeFrom("fragment", "IMPLIES", market, o1, 2, {x}),
   EdgeFrom("fragment", "IMPLIES", o3, market, 2, {x}),
   EdgeFrom("fragment", "ADVANCES_TO", m1, unknown, 2, {x}),
   EdgeFrom("fragment", "ADVANCES_TO", m1, m2, 1, {x}),
   EdgeFrom("fragment", "ADVANCES_TO", m2, m1, 1, {y})}
MCRules ==
  {EdgeFrom("rule", "IMPLIES", st[1], st[2], 2, {x, y}) :
     st \in {z \in {o1, o2, o3} \X {o1, o2, o3} : z[1] # z[2]}}
    \cup {EdgeFrom("rule", "MUTEX", o1, o2, 2, {x}), EdgeFrom("rule", "MUTEX", o2, o1, 2, {x})}

\* Every acyclic implication graph on five outcomes, up to a renaming of them.
MCOrdered == <<o1, o2, o3, o4, o5>>
MCImplications ==
  {EdgeFrom("rule", "IMPLIES", MCOrdered[ij[1]], MCOrdered[ij[2]], 2, {x}) :
     ij \in {z \in (1..5) \X (1..5) : z[1] < z[2]}}

\* Every graph of progression edges, up to three of the fragment edges with up to
\* two rule edges, and every acyclic graph of implications.
MCBuilds ==
  [raw : SUBSET MCProgression \cup SUBSET MCStages, rules : {{}}]
    \cup [raw : UNION {kSubset(k, MCFragments) : k \in 0 .. 3},
          rules : UNION {kSubset(k, MCRules) : k \in 0 .. 2}]
    \cup [raw : {{}}, rules : SUBSET MCImplications]
=============================================================================
