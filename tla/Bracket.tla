------------------------------ MODULE Bracket ------------------------------
(***************************************************************************)
(* The official knockout schedule and what bracket.py reads out of it while *)
(* the tournament goes on: the winners of the matches and the ADVANCES_TO   *)
(* edges between them.  The schedule knows neither; both are derived from   *)
(* the teams that appear in consecutive rounds.                             *)
(*                                                                         *)
(* The tournament and the feed of fixtures are external.  A match is played *)
(* in the world, and the feed follows in any order: it marks the match as   *)
(* completed and names a team for the slots of later matches, which until   *)
(* then hold a name such as W101 or L102.  Every step of the feed comes     *)
(* with a run of the exporter; what the feed does between two runs cannot   *)
(* be seen.                                                                *)
(***************************************************************************)
EXTENDS Naturals

CONSTANTS
  Match,
  stage_key,  \* the stage of a match
  Entrant,    \* the teams of the knockout
  Origin,     \* the draw: who fills a slot, a <<"team", t>>, <<"W", m>> or <<"L", m>>
  Curated     \* matches an operator writes winners for

Side == {"home", "away"}
Slot == Match \X Side
NoTeam == <<"none">>
\* A name that is neither team of the match it is written into.
Stray == <<"stray">>

KNOCKOUT_STAGE_RANK ==
  [round_of_32 |-> 1, round_of_16 |-> 2, quarterfinal |-> 3, semifinal |-> 4,
   final |-> 5, third_place |-> 5]

Rank(m) == KNOCKOUT_STAGE_RANK[stage_key[m]]

\* The draw: the winner or the loser of m plays n.
Feeds(m, n) == \E side \in Side : Origin[<<n, side>>] \in {<<"W", m>>, <<"L", m>>}

\* A knockout draw: a team enters in one slot, a winner or a loser goes on to
\* one; matches are fed from the round before, a match for the third place by
\* losers, all others by winners.
ASSUME DrawAssumption ==
  /\ stage_key \in [Match -> DOMAIN KNOCKOUT_STAGE_RANK]
  /\ Origin \in [Slot -> ({"team"} \X Entrant) \cup ({"W", "L"} \X Match)]
  /\ \A s, other \in Slot : Origin[s] = Origin[other] => s = other
  /\ \A n \in Match, side \in Side :
       LET origin == Origin[<<n, side>>] IN
       origin[1] \in {"W", "L"} =>
         /\ Rank(n) = Rank(origin[2]) + 1
         /\ (origin[1] = "L") = (stage_key[n] = "third_place")

VARIABLES
  \* the tournament
  lineup,       \* who plays in a slot, as far as it is decided
  result,       \* the winner of every match played
  \* the feed
  named,        \* slots whose team it names
  completed,    \* matches whose match_status is completed
  \* wc2026_schedule.json, beside what it repeats of the feed
  winner_team   \* the winner curated for a match

bracketVars == <<lineup, result, named, completed, winner_team>>

---------------------------------------------------------------------------
\* home_team and away_team of the fixture.
Team(m, side) == IF <<m, side>> \in named THEN lineup[<<m, side>>] ELSE Origin[<<m, side>>]
Teams(m) == {Team(m, side) : side \in Side}

\* team_appearances, in the order of their ranks: the one after m, if it is in the
\* next round. A team appears once in a round.
Continues(t, m) == {n \in Match : Rank(n) = Rank(m) + 1 /\ t \in Teams(n)}

\* A curated winner counts if it is one of the teams.
Explicit(m) == IF winner_team[m] \in Teams(m) THEN winner_team[m] ELSE NoTeam

\* Slip: losing semifinalists go on to the third place.
ContinuersToAny(m) == {t \in Teams(m) : Continues(t, m) # {}}

\* Teams of m whose next match says they won it.
Continuers(m) ==
  {t \in Teams(m) : \E n \in Continues(t, m) : stage_key[n] # "third_place"}

\* schedule_knockout_outcomes: the winner of a match, and whether it has an end.
Winner(m) ==
  IF Explicit(m) # NoTeam THEN Explicit(m)
  ELSE IF Continuers(m) # {} THEN CHOOSE t \in Continuers(m) : TRUE
  ELSE NoTeam

HasEnd(m) == Winner(m) # NoTeam /\ (Explicit(m) # NoTeam \/ m \in completed)

\* Slip: only the winners of a round go on.
AdvancesOfWinners ==
  {e \in Match \X Match :
     stage_key[e[2]] # "third_place" /\ \E t \in Teams(e[1]) : e[2] \in Continues(t, e[1])}

\* build_official_bracket_fragment: ADVANCES_TO between matches.
Advances == {e \in Match \X Match : \E t \in Teams(e[1]) : e[2] \in Continues(t, e[1])}

---------------------------------------------------------------------------
BracketInit ==
  /\ lineup = Origin
  /\ result = [m \in Match |-> NoTeam]
  /\ named = {s \in Slot : Origin[s][1] = "team"}
  /\ completed = {}
  /\ winner_team = [m \in Match |-> NoTeam]

\* A match is played; its winner and its loser fill the slots the draw says.
Play(m, side) ==
  LET w == lineup[<<m, side>>]
      l == lineup[<<m, CHOOSE other \in Side : other # side>>]
  IN /\ result[m] = NoTeam
     /\ \A s \in Side : lineup[<<m, s>>][1] = "team"
     /\ result' = [result EXCEPT ![m] = w]
     /\ lineup' = [s \in Slot |-> CASE Origin[s] = <<"W", m>> -> w
                                    [] Origin[s] = <<"L", m>> -> l
                                    [] OTHER -> lineup[s]]
     /\ UNCHANGED <<named, completed, winner_team>>

\* Slip: the feed has no winners, and the file is written anew from it.
NoPriorWinners == [m \in Match |-> NoTeam]

\* Winners of the file that is replaced, by fifa_match_id.
PriorWinners == winner_team

\* export, on a feed that has moved on.
Export ==
  /\ winner_team' = PriorWinners
  /\ UNCHANGED <<lineup, result>>

\* The feed fills in a match before the matches it leads to.
NameSlot(s) ==
  /\ s \notin named /\ lineup[s][1] = "team"
  /\ {Origin[s][2]} \X Side \subseteq named
  /\ named' = named \cup {s}
  /\ Export /\ UNCHANGED completed

Complete(m) ==
  /\ m \notin completed /\ result[m] # NoTeam
  /\ completed' = completed \cup {m}
  /\ Export /\ UNCHANGED named

\* An operator writes the winner into the file, or a name it does not know.
Curate(m, w) ==
  /\ m \in Curated /\ result[m] # NoTeam
  /\ winner_team[m] \notin {result[m], w}
  /\ winner_team' = [winner_team EXCEPT ![m] = w]
  /\ UNCHANGED <<lineup, result, named, completed>>

BracketNext ==
  \/ \E m \in Match, side \in Side : Play(m, side)
  \/ \E s \in Slot : NameSlot(s)
  \/ \E m \in Match : Complete(m) \/ Curate(m, result[m]) \/ Curate(m, Stray)

---------------------------------------------------------------------------
\* A winner the schedule gives for a match has won it, however far the feed is
\* behind: a losing semifinalist who shows up in the match for the third place
\* has not. And a winner the feed shows in the next round is given
\* (bracket.py:148-170).
WinnersAreTrue ==
  \A m \in Match :
    /\ Winner(m) \in {NoTeam, result[m]}
    /\ (\E n \in Match : stage_key[n] # "third_place" /\ result[m] \in Teams(n) /\ Rank(n) > Rank(m))
         => Winner(m) # NoTeam

\* The edges between matches are those of the draw, from a match to each that it
\* sends a team to, as soon as the team is named there, and never earlier or
\* across a round (bracket.py:324-348).
AdvancesFollowTheDraw ==
  \A m, n \in Match :
    <<m, n>> \in Advances <=>
      /\ Feeds(m, n)
      /\ \E side \in Side : <<n, side>> \in named /\ Origin[<<n, side>>] \in {<<"W", m>>, <<"L", m>>}

\* No later state of the feed and no export takes back a winner, an end or an
\* edge that was there: curated winners survive the exports
\* (export_wc2026_schedule.py:65-79, official-bracket.md:28).
NothingTakenBack ==
  [][/\ \A m \in Match : /\ Winner(m) # NoTeam => Winner(m)' = Winner(m)
                         /\ HasEnd(m) => HasEnd(m)'
     /\ Advances \subseteq Advances']_bracketVars
=============================================================================
