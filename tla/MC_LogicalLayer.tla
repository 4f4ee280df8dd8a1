------------------------- MODULE MC_LogicalLayer -------------------------
(* Instances of LogicalLayer for TLC: the markets on one team's run through *)
(* the cup, on the runs of two teams, and on two fixtures and a group, the  *)
(* first fixture in two events and with markets that offer a result twice.  *)
EXTENDS LogicalLayer, FiniteSetsExt

CONSTANTS a, b, c, f1, f2, g1

MCSides == [f \in Fixtures |-> IF f = f1 THEN {a, b} ELSE {a, c}]
MCMembers == [g \in Groups |-> {a, b, c}]

Once(kind, of, subject) == Market(kind, of, 1, subject, 1)

MCCupMarkets ==
  {Once("reaches", s, a) : s \in ReachTitles}
    \cup {Once("elimination", a, s) : s \in {"GroupStage", "R32", "SF", "ThirdPlace", "Final",
                                             "Champion", "Runner-up"}}
    \cup {Once("winner", Cup, a)}

MCRivalMarkets ==
  {Once("reaches", s, t) : s \in {"R16", "Final"}, t \in {a, b}}
    \cup {Once("elimination", t, s) : s \in {"Final", "Champion"}, t \in {a, b}}
    \cup {Once("winner", Cup, t) : t \in {a, b}}
    \cup {Market("reaches", "R16", 1, a, 2)}

MCMatchMarkets ==
  {Once("moneyline", f1, s) : s \in {a, b, c, Draw}}
    \cup {Once("moneyline", f2, s) : s \in {a, c}}
    \cup {Market("moneyline", f1, 1, a, 2)}
    \cup {Market("moneyline", f1, 2, s, 1) : s \in {b, Draw}}
    \cup {Once("advance", f1, ts) : ts \in {{a}, {b}, {a, b}, {b, c}}}
    \cup {Market("advance", f1, 2, {a}, 1)}
    \cup {Once("group", g1, t) : t \in {a, b, c}}
MCMarkets == MCCupMarkets \cup MCRivalMarkets \cup MCMatchMarkets

UpTo(n, ms) == UNION {kSubset(k, ms) : k \in 0 .. n}
MCListings == UpTo(4, MCCupMarkets) \cup UpTo(4, MCRivalMarkets) \cup UpTo(4, MCMatchMarkets)

\* a's run ends anywhere, b's at a few stages and c's in the group, against
\* one set of results; and every set of results for one way the cup goes.
MCFates ==
  {fate \in [Teams -> Labels] :
     OneChampion(fate) /\ fate[c] = "GroupStage"
       /\ fate[b] \in {"GroupStage", "R16", "Final", "Champion"}}
MCResult == CHOOSE r \in Results : TRUE
MCWinner == CHOOSE w \in Winners : TRUE
MCTournaments ==
  [fate : MCFates, result : {MCResult}, winner : {MCWinner}]
    \cup [fate : {[t \in Teams |-> IF t = a THEN "Champion" ELSE "GroupStage"]},
          result : Results, winner : Winners]
=============================================================================
