------------------------ MODULE OddsHistory_proofs ------------------------
(***************************************************************************)
(* What the schedule and the odds histories say of a knockout is true, for *)
(* every draw, every progress of the tournament and every lag of the feed. *)
(*                                                                         *)
(* The feed gives only names, so a match's winner has to be read off the   *)
(* team's later appearance.  That this is sound rests on the tournament:   *)
(* a team is in one slot of a round, and plays on only after its earlier   *)
(* matches are over.  That it is complete rests on the feed: a slot is     *)
(* named after the slots of the match that fills it.                       *)
(***************************************************************************)
EXTENDS OddsHistory, TLAPS

TeamName == {"team"} \X Entrant
IsTeam(t) == t \in TeamName

\* What the draw says of a slot that m fills.
FilledBy(m) == {<<"W", m>>, <<"L", m>>}

\* A slot of a later round holds what the draw says until the match that fills
\* it is played, and from then on that match's winner or its loser.
LineupInv ==
  /\ lineup \in [Slot -> TeamName \cup ({"W", "L"} \X Match)]
  /\ \A s \in Slot : IsTeam(Origin[s]) => lineup[s] = Origin[s]
  /\ \A s \in Slot, m \in Match :
       Origin[s] \in FilledBy(m) =>
         IF result[m] = NoTeam
         THEN lineup[s] = Origin[s]
         ELSE \E side \in Side :
                /\ lineup[s] = lineup[<<m, side>>]
                /\ (lineup[<<m, side>>] = result[m]) = (Origin[s] = <<"W", m>>)

PlayedInv ==
  /\ result \in [Match -> TeamName \cup {NoTeam}]
  /\ winner_team \in [Match -> TeamName \cup {NoTeam, Stray}]
  /\ \A m \in Match :
       /\ result[m] # NoTeam => /\ \A side \in Side : IsTeam(lineup[<<m, side>>])
                                /\ \E side \in Side : result[m] = lineup[<<m, side>>]
       /\ winner_team[m] \in {NoTeam, result[m], Stray}
       /\ m \in completed => result[m] # NoTeam

\* A slot is named once its team is known, and after the match that fills it.
NamedInv ==
  \A s \in Slot :
    /\ IsTeam(Origin[s]) => s \in named
    /\ s \in named => /\ IsTeam(lineup[s])
                      /\ \A m \in Match : Origin[s] \in FilledBy(m) => {m} \X Side \subseteq named

\* A team is in one slot of a round, in none before the slot it enters in.
OneSlot ==
  \A s, other \in Slot :
    IsTeam(lineup[s]) /\ lineup[s] = lineup[other] =>
      /\ Rank(s[1]) = Rank(other[1]) => s = other
      /\ IsTeam(Origin[s]) => s = other \/ Rank(other[1]) > Rank(s[1])

\* A team that is in a later round has played its earlier matches.
PlaysOn ==
  \A s, later \in Slot :
    IsTeam(lineup[s]) /\ lineup[s] = lineup[later] /\ Rank(s[1]) < Rank(later[1]) =>
      result[s[1]] # NoTeam

\* The feed shows a team's whole way to a slot that it has named, and leads to a
\* match other than the third place without it.
WayNamed ==
  \A s \in Slot, later \in named :
    lineup[s] = lineup[later] /\ Rank(s[1]) < Rank(later[1]) =>
      /\ s \in named
      /\ \E next \in named :
           /\ lineup[next] = lineup[s] /\ Rank(next[1]) = Rank(s[1]) + 1
           /\ stage_key[next[1]] = "third_place" => stage_key[later[1]] = "third_place"

BracketInv ==
  /\ named \subseteq Slot
  /\ LineupInv /\ PlayedInv /\ NamedInv /\ OneSlot /\ PlaysOn /\ WayNamed

\* What was read of a market, once it is.
HistoryInv ==
  market # NoMarket =>
    /\ market \in Match /\ {market} \X Side \subseteq named
    /\ rows \in Scans
    /\ result[market] = NoTeam => \A i \in DOMAIN rows : rows[i].says = "live"

---------------------------------------------------------------------------
(* The draw and its names.                                                 *)

\* Names of teams, of slots and the two markers are different things.
LEMMA Names ==
  /\ \A t \in TeamName : t # NoTeam /\ t # Stray /\ t[1] = "team"
  /\ \A m \in Match : \A p \in FilledBy(m) : p # NoTeam /\ p # Stray /\ p \notin TeamName
  /\ \A m \in Match : <<"W", m>> # <<"L", m>>
  /\ \A m, k \in Match : FilledBy(m) \cap FilledBy(k) # {} => m = k
  /\ NoTeam # Stray
BY DEF TeamName, NoTeam, Stray, FilledBy

\* Five rounds, the match for the third place among the last.
LEMMA RankType == \A m \in Match : Rank(m) \in 1..5 /\ (stage_key[m] = "third_place" => Rank(m) = 5)
<1> SUFFICES ASSUME NEW m \in Match
             PROVE  Rank(m) \in 1..5 /\ (stage_key[m] = "third_place" => Rank(m) = 5)
  OBVIOUS
<1>1. stage_key[m] \in {"round_of_32", "round_of_16", "quarterfinal", "semifinal", "final", "third_place"}
  BY DrawAssumption DEF KNOCKOUT_STAGE_RANK
<1> QED BY <1>1 DEF Rank, KNOCKOUT_STAGE_RANK

\* A slot is a side of a match, and a match has two.
LEMMA SlotFacts ==
  /\ \A m \in Match, side \in Side : <<m, side>> \in Slot
  /\ \A s \in Slot : s[1] \in Match /\ s[2] \in Side /\ s = <<s[1], s[2]>>
  /\ \A side \in Side : \E other \in Side : other # side /\ Side = {side, other}
BY DEF Slot, Side

\* A slot begins with a team or with the winner or loser of the round before.
LEMMA DrawFacts ==
  ASSUME NEW s \in Slot
  PROVE  \/ IsTeam(Origin[s]) /\ \A m \in Match : Origin[s] \notin FilledBy(m)
         \/ \E m \in Match : /\ Origin[s] \in FilledBy(m)
                             /\ ~IsTeam(Origin[s])
                             /\ Rank(s[1]) = Rank(m) + 1
                             /\ (Origin[s] = <<"L", m>>) = (stage_key[s[1]] = "third_place")
                             /\ Origin[s][2] = m
<1>1. Origin[s] \in ({"team"} \X Entrant) \cup ({"W", "L"} \X Match)
  BY DrawAssumption
<1>2. CASE Origin[s] \in {"team"} \X Entrant
  BY <1>2, Names DEF IsTeam, TeamName
<1>3. CASE Origin[s] \in {"W", "L"} \X Match
  <2>1. PICK m \in Match : Origin[s] \in FilledBy(m) /\ Origin[s][2] = m /\ Origin[s][1] \in {"W", "L"}
                           /\ (Origin[s][1] = "L") = (Origin[s] = <<"L", m>>)
    BY <1>3 DEF FilledBy
  <2>2. s = <<s[1], s[2]>> /\ s[1] \in Match /\ s[2] \in Side
    BY SlotFacts
  <2>3. /\ Rank(s[1]) = Rank(m) + 1
        /\ (Origin[s] = <<"L", m>>) = (stage_key[s[1]] = "third_place")
    BY <2>1, <2>2, DrawAssumption
  <2> QED BY <2>1, <2>3, Names DEF IsTeam
<1> QED BY <1>1, <1>2, <1>3

\* No two slots have the same origin.
LEMMA OneOrigin == \A s, other \in Slot : Origin[s] = Origin[other] => s = other
BY DrawAssumption

---------------------------------------------------------------------------
\* The draw itself, with nothing played or named.
LEMMA BracketInitInv == BracketInit => BracketInv
<1> SUFFICES ASSUME BracketInit
             PROVE  BracketInv
  OBVIOUS
<1>1. \A s \in Slot : s \in named <=> IsTeam(Origin[s])
  <2> SUFFICES ASSUME NEW s \in Slot
               PROVE  Origin[s][1] = "team" <=> IsTeam(Origin[s])
    BY DEF BracketInit
  <2>1. Origin[s] \in ({"team"} \X Entrant) \cup ({"W", "L"} \X Match)
    BY DrawAssumption
  <2> QED BY <2>1 DEF IsTeam, TeamName
<1>2. named \subseteq Slot /\ lineup = Origin
  BY DEF BracketInit
<1>3. \A m \in Match : result[m] = NoTeam /\ winner_team[m] = NoTeam
  BY DEF BracketInit
<1>4. LineupInv
  BY <1>2, <1>3, DrawAssumption DEF LineupInv, TeamName
<1>5. PlayedInv
  BY <1>3 DEF PlayedInv, BracketInit
<1>6. NamedInv
  BY <1>1, <1>2, DrawFacts DEF NamedInv
<1>7. OneSlot
  BY <1>2, OneOrigin DEF OneSlot
<1>8. PlaysOn
  BY <1>2, OneOrigin, RankType, SlotFacts DEF PlaysOn
<1>9. WayNamed
  BY <1>2, OneOrigin, RankType, SlotFacts DEF WayNamed
<1> QED BY <1>2, <1>4, <1>5, <1>6, <1>7, <1>8, <1>9 DEF BracketInv

\* Where the team of a filled slot was before: in the match that fills it.
LEMMA CameFrom ==
  ASSUME BracketInv, NEW s \in Slot, IsTeam(lineup[s]), ~IsTeam(Origin[s])
  PROVE  \E m \in Match, side \in Side :
           /\ Origin[s] \in FilledBy(m) /\ lineup[s] = lineup[<<m, side>>]
           /\ Rank(s[1]) = Rank(m) + 1 /\ result[m] # NoTeam
           /\ (lineup[s] = result[m]) = (stage_key[s[1]] # "third_place")
           /\ Origin[s][2] = m
<1>1. PICK m \in Match : /\ Origin[s] \in FilledBy(m)
                         /\ Rank(s[1]) = Rank(m) + 1
                         /\ (Origin[s] = <<"L", m>>) = (stage_key[s[1]] = "third_place")
                         /\ Origin[s][2] = m
  BY DrawFacts
<1>2. result[m] # NoTeam
  <2>1. SUFFICES ASSUME result[m] = NoTeam
                 PROVE  FALSE
    OBVIOUS
  <2>2. lineup[s] = Origin[s]
    BY <1>1, <2>1 DEF BracketInv, LineupInv
  <2> QED BY <2>2
<1>3. PICK side \in Side : /\ lineup[s] = lineup[<<m, side>>]
                           /\ (lineup[<<m, side>>] = result[m]) = (Origin[s] = <<"W", m>>)
  BY <1>1, <1>2 DEF BracketInv, LineupInv
<1>4. (Origin[s] = <<"W", m>>) = (Origin[s] # <<"L", m>>)
  BY <1>1, Names DEF FilledBy
<1> QED BY <1>1, <1>2, <1>3, <1>4

---------------------------------------------------------------------------
(* A match is played.                                                      *)

\* The slots that change held no team and were not named; a team comes to a new
\* slot from the match that is played.
LEMMA PlaySlots ==
  ASSUME BracketInv, NEW m \in Match, NEW side \in Side, Play(m, side)
  PROVE  /\ \A s \in Side : IsTeam(lineup[<<m, s>>]) /\ lineup'[<<m, s>>] = lineup[<<m, s>>]
         /\ result[m] = NoTeam /\ result' = [result EXCEPT ![m] = lineup[<<m, side>>]]
         /\ lineup' \in [Slot -> TeamName \cup ({"W", "L"} \X Match)]
         /\ \A s \in Slot : \/ lineup'[s] = lineup[s] /\ Origin[s] \notin FilledBy(m)
                            \/ /\ Origin[s] \in FilledBy(m) /\ lineup[s] = Origin[s]
                               /\ s \notin named
                               /\ Rank(s[1]) = Rank(m) + 1
                               /\ \E from \in Side : /\ lineup'[s] = lineup[<<m, from>>]
                                                     /\ (from = side) = (Origin[s] = <<"W", m>>)
         /\ \A s \in Slot : lineup[s] # lineup'[s] => ~IsTeam(lineup[s])
<1> DEFINE w == lineup[<<m, side>>]
           l == lineup[<<m, CHOOSE other \in Side : other # side>>]
<1>1. /\ result[m] = NoTeam /\ result' = [result EXCEPT ![m] = w]
      /\ \A s \in Side : lineup[<<m, s>>][1] = "team"
      /\ lineup' = [s \in Slot |-> CASE Origin[s] = <<"W", m>> -> w
                                     [] Origin[s] = <<"L", m>> -> l
                                     [] OTHER -> lineup[s]]
  BY DEF Play
<1>2. \A s \in Side : IsTeam(lineup[<<m, s>>])
  <2> TAKE s \in Side
  <2>1. lineup[<<m, s>>] \in TeamName \cup ({"W", "L"} \X Match)
    BY SlotFacts DEF BracketInv, LineupInv
  <2> QED BY <1>1, <2>1 DEF IsTeam
<1>3. PICK other \in Side : other # side /\ l = lineup[<<m, other>>]
  BY SlotFacts
<1>4. \A s \in Slot : \/ lineup'[s] = lineup[s] /\ Origin[s] \notin FilledBy(m)
                      \/ Origin[s] = <<"W", m>> /\ lineup'[s] = w
                      \/ Origin[s] = <<"L", m>> /\ lineup'[s] = l /\ Origin[s] # <<"W", m>>
  <2> HIDE DEF w, l
  <2> QED BY <1>1, Names DEF FilledBy
<1>5. \A s \in Slot : Origin[s] \in FilledBy(m) =>
        /\ lineup[s] = Origin[s] /\ ~IsTeam(lineup[s]) /\ s \notin named
        /\ Rank(s[1]) = Rank(m) + 1
  <2> TAKE s \in Slot
  <2> HAVE Origin[s] \in FilledBy(m)
  <2>1. lineup[s] = Origin[s]
    BY <1>1 DEF BracketInv, LineupInv
  <2>2. ~IsTeam(lineup[s])
    BY <2>1, Names DEF IsTeam
  <2>3. Rank(s[1]) = Rank(m) + 1
    BY DrawFacts, Names
  <2> QED BY <2>1, <2>2, <2>3 DEF BracketInv, NamedInv
<1>6. \A s \in Slot : \/ lineup'[s] = lineup[s] /\ Origin[s] \notin FilledBy(m)
                      \/ /\ Origin[s] \in FilledBy(m)
                         /\ \E from \in Side : /\ lineup'[s] = lineup[<<m, from>>]
                                               /\ (from = side) = (Origin[s] = <<"W", m>>)
  <2> HIDE DEF l
  <2> QED BY <1>3, <1>4 DEF FilledBy
<1>7. \A s \in Side : lineup'[<<m, s>>] = lineup[<<m, s>>]
  <2> TAKE s \in Side
  <2>1. <<m, s>> \in Slot
    BY SlotFacts
  <2> QED BY <1>2, <1>5, <1>6, <2>1
<1>8. lineup' \in [Slot -> TeamName \cup ({"W", "L"} \X Match)]
  <2>1. \A s \in Slot : lineup'[s] \in TeamName \cup ({"W", "L"} \X Match)
    BY <1>2, <1>6 DEF BracketInv, LineupInv, IsTeam
  <2>2. lineup' = [s \in Slot |-> lineup'[s]]
    BY <1>1
  <2> HIDE DEF w, l
  <2> QED BY <2>1, <2>2
<1> HIDE DEF l
<1> QED BY <1>1, <1>2, <1>5, <1>6, <1>7, <1>8

\* A match is played: two slots of later rounds get its teams.
LEMMA PlayInv ==
  ASSUME BracketInv, NEW m \in Match, NEW side \in Side, Play(m, side)
  PROVE  BracketInv'
<1> DEFINE Same(s) == lineup'[s] = lineup[s] /\ Origin[s] \notin FilledBy(m)
           From(s, from) == /\ lineup'[s] = lineup[<<m, from>>]
                            /\ (from = side) = (Origin[s] = <<"W", m>>)
           New(s) == /\ Origin[s] \in FilledBy(m) /\ lineup[s] = Origin[s]
                     /\ s \notin named
                     /\ Rank(s[1]) = Rank(m) + 1
                     /\ \E from \in Side : From(s, from)
<1>1. /\ \A s \in Side : IsTeam(lineup[<<m, s>>]) /\ lineup'[<<m, s>>] = lineup[<<m, s>>]
      /\ result[m] = NoTeam /\ result' = [result EXCEPT ![m] = lineup[<<m, side>>]]
      /\ lineup' \in [Slot -> TeamName \cup ({"W", "L"} \X Match)]
      /\ \A s \in Slot : Same(s) \/ New(s)
      /\ \A s \in Slot : lineup[s] # lineup'[s] => ~IsTeam(lineup[s])
  BY PlaySlots
<1>2. named' = named /\ completed' = completed /\ winner_team' = winner_team
  BY DEF Play
<1>3. \A k \in Match : IF k = m THEN result'[k] = lineup[<<m, side>>] /\ result'[k] # NoTeam
                               ELSE result'[k] = result[k]
  <2>1. lineup[<<m, side>>] # NoTeam
    BY <1>1, Names DEF IsTeam
  <2> QED BY <1>1, <2>1 DEF BracketInv, PlayedInv
<1>4. \A k \in Match : result[k] # NoTeam => k # m /\ result'[k] = result[k]
  BY <1>1, <1>3
<1>5. \A s \in Slot : IsTeam(lineup[s]) => lineup'[s] = lineup[s]
  BY <1>1
<1>6. \A k \in Match, x \in Side : result[k] # NoTeam =>
        IsTeam(lineup[<<k, x>>]) /\ lineup'[<<k, x>>] = lineup[<<k, x>>]
  <2> TAKE k \in Match, x \in Side
  <2>1. <<k, x>> \in Slot
    BY SlotFacts
  <2> QED BY <1>5, <2>1 DEF BracketInv, PlayedInv
<1>7. LineupInv'
  <2>1. \A s \in Slot : IsTeam(Origin[s]) => lineup'[s] = Origin[s]
    BY <1>5 DEF BracketInv, LineupInv
  <2>2. ASSUME NEW s \in Slot, NEW k \in Match, Origin[s] \in FilledBy(k)
        PROVE  IF result'[k] = NoTeam
               THEN lineup'[s] = Origin[s]
               ELSE \E x \in Side :
                      /\ lineup'[s] = lineup'[<<k, x>>]
                      /\ (lineup'[<<k, x>>] = result'[k]) = (Origin[s] = <<"W", k>>)
    <3>1. CASE k = m
      <4>1. PICK from \in Side : From(s, from)
        BY <1>1, <2>2, <3>1
      <4>2. (lineup[<<m, from>>] = lineup[<<m, side>>]) = (from = side)
        <5>1. <<m, from>> \in Slot /\ <<m, side>> \in Slot
          BY SlotFacts
        <5>2. ASSUME lineup[<<m, from>>] = lineup[<<m, side>>]
              PROVE  from = side
          <6>1. <<m, from>> = <<m, side>>
            BY <1>1, <5>1, <5>2 DEF BracketInv, OneSlot
          <6> QED BY <6>1
        <5> QED BY <5>2
      <4>3. /\ lineup'[s] = lineup'[<<m, from>>]
            /\ (lineup'[<<m, from>>] = result'[m]) = (Origin[s] = <<"W", m>>)
        BY <1>1, <1>3, <4>1, <4>2
      <4> QED BY <1>3, <3>1, <4>3
    <3>2. CASE k # m
      <4>1. Same(s) /\ result'[k] = result[k]
        BY <1>1, <1>3, <2>2, <3>2, Names
      <4>2. CASE result[k] = NoTeam
        BY <2>2, <4>1, <4>2 DEF BracketInv, LineupInv
      <4>3. CASE result[k] # NoTeam
        <5>1. PICK x \in Side : /\ lineup[s] = lineup[<<k, x>>]
                                /\ (lineup[<<k, x>>] = result[k]) = (Origin[s] = <<"W", k>>)
          BY <2>2, <4>3 DEF BracketInv, LineupInv
        <5> QED BY <1>6, <4>1, <4>3, <5>1
      <4> QED BY <4>2, <4>3
    <3> QED BY <3>1, <3>2
  <2> QED BY <1>1, <2>1, <2>2 DEF LineupInv
<1>8. PlayedInv'
  <2>1. result' \in [Match -> TeamName \cup {NoTeam}]
    BY <1>1 DEF BracketInv, PlayedInv, IsTeam
  <2>2. ASSUME NEW k \in Match
        PROVE  /\ result'[k] # NoTeam => /\ \A x \in Side : IsTeam(lineup'[<<k, x>>])
                                         /\ \E x \in Side : result'[k] = lineup'[<<k, x>>]
               /\ winner_team'[k] \in {NoTeam, result'[k], Stray}
               /\ k \in completed' => result'[k] # NoTeam
    <3>1. CASE k = m
      <4>1. winner_team[k] \in {NoTeam, Stray}
        BY <1>1, <3>1 DEF BracketInv, PlayedInv
      <4>2. k \notin completed
        BY <1>1, <3>1 DEF BracketInv, PlayedInv
      <4> QED BY <1>1, <1>2, <1>3, <3>1, <4>1, <4>2
    <3>2. CASE k # m
      BY <1>2, <1>3, <1>6, <3>2 DEF BracketInv, PlayedInv
    <3> QED BY <3>1, <3>2
  <2> QED BY <1>2, <2>1, <2>2 DEF BracketInv, PlayedInv
<1>9. NamedInv'
  BY <1>2, <1>5 DEF BracketInv, NamedInv
\* A new slot's team is in no other slot of its round, and has been in the match.
<1>10. ASSUME NEW s \in Slot, NEW other \in Slot, New(s), IsTeam(lineup'[s]),
              lineup'[s] = lineup'[other]
       PROVE  /\ Rank(s[1]) = Rank(other[1]) => s = other
              /\ IsTeam(Origin[other]) => Rank(other[1]) < Rank(s[1])
              /\ Rank(other[1]) <= Rank(s[1])
              /\ Rank(other[1]) < Rank(s[1]) => result'[other[1]] # NoTeam
  <2>1. PICK from \in Side : From(s, from)
    BY <1>10
  <2> DEFINE home == <<m, from>>
  <2>2. home \in Slot /\ home[1] = m /\ lineup[home] = lineup'[s] /\ IsTeam(lineup[home])
    BY <1>1, <2>1, SlotFacts
  <2>3. Rank(m) \in Nat /\ Rank(s[1]) = Rank(m) + 1 /\ Rank(other[1]) \in Nat /\ other[1] \in Match
    BY <1>10, RankType, SlotFacts
  <2>4. CASE New(other)
    <3>1. PICK x \in Side : From(other, x)
      BY <2>4
    <3>2. <<m, x>> \in Slot /\ lineup[<<m, x>>] = lineup[home]
      BY <1>10, <2>2, <3>1, SlotFacts
    <3>3. home = <<m, x>>
      BY <2>2, <3>2 DEF BracketInv, OneSlot
    <3>4. x = from
      BY <3>3
    <3>5. (Origin[s] = <<"W", m>>) = (Origin[other] = <<"W", m>>)
      BY <2>1, <3>1, <3>4
    <3>6. Origin[s] = Origin[other]
      BY <1>10, <2>4, <3>5 DEF FilledBy
    <3>7. s = other /\ ~IsTeam(Origin[other])
      BY <2>4, <3>6, OneOrigin, Names DEF IsTeam
    <3> QED BY <2>3, <3>7
  <2>5. CASE Same(other)
    <3>1. lineup[other] = lineup[home] /\ IsTeam(lineup[other])
      BY <2>2, <2>5, <1>10
    <3>2. Rank(other[1]) <= Rank(m)
      <4>1. SUFFICES ASSUME Rank(m) < Rank(other[1])
                     PROVE  FALSE
        BY <2>3
      <4>2. result[m] # NoTeam
        BY <2>2, <3>1, <4>1 DEF BracketInv, PlaysOn
      <4> QED BY <1>1, <4>2
    <3>3. result'[other[1]] # NoTeam
      <4>1. CASE Rank(other[1]) = Rank(m)
        <5>1. other = home
          BY <2>2, <3>1, <4>1 DEF BracketInv, OneSlot
        <5> QED BY <1>3, <2>2, <5>1
      <4>2. CASE Rank(other[1]) < Rank(m)
        <5>1. result[other[1]] # NoTeam
          BY <2>2, <3>1, <4>2 DEF BracketInv, PlaysOn
        <5> QED BY <1>3, <2>3, <5>1
      <4> QED BY <2>3, <3>2, <4>1, <4>2
    <3> QED BY <2>3, <3>2, <3>3
  <2> QED BY <1>1, <2>4, <2>5
<1>11. OneSlot'
  <2> SUFFICES ASSUME NEW s \in Slot, NEW other \in Slot,
                      IsTeam(lineup'[s]), lineup'[s] = lineup'[other]
               PROVE  /\ Rank(s[1]) = Rank(other[1]) => s = other
                      /\ IsTeam(Origin[s]) => s = other \/ Rank(other[1]) > Rank(s[1])
    BY DEF OneSlot
  <2>0. Rank(s[1]) \in Nat /\ Rank(other[1]) \in Nat
    BY RankType, SlotFacts
  <2>1. CASE New(s)
    <3>1. ~IsTeam(Origin[s])
      BY <2>1, Names DEF IsTeam
    <3> QED BY <1>10, <2>1, <3>1
  <2>2. CASE New(other)
    BY <1>10, <2>0, <2>2
  <2>3. CASE Same(s) /\ Same(other)
    BY <2>3 DEF BracketInv, OneSlot
  <2> QED BY <1>1, <2>1, <2>2, <2>3
<1>12. PlaysOn'
  <2> SUFFICES ASSUME NEW s \in Slot, NEW later \in Slot,
                      IsTeam(lineup'[s]), lineup'[s] = lineup'[later], Rank(s[1]) < Rank(later[1])
               PROVE  result'[s[1]] # NoTeam
    BY DEF PlaysOn
  <2>0. Rank(s[1]) \in Nat /\ Rank(later[1]) \in Nat /\ s[1] \in Match
    BY RankType, SlotFacts
  <2>1. CASE New(later)
    BY <1>10, <2>1
  <2>2. CASE New(s)
    <3>1. Rank(later[1]) <= Rank(s[1])
      BY <1>10, <2>2
    <3> QED BY <2>0, <3>1
  <2>3. CASE Same(s) /\ Same(later)
    <3>1. result[s[1]] # NoTeam
      BY <2>3 DEF BracketInv, PlaysOn
    <3> QED BY <1>4, <2>0, <3>1
  <2> QED BY <1>1, <2>1, <2>2, <2>3
<1>13. WayNamed'
  <2> SUFFICES ASSUME NEW s \in Slot, NEW later \in named,
                      lineup'[s] = lineup'[later], Rank(s[1]) < Rank(later[1])
               PROVE  /\ s \in named
                      /\ \E next \in named :
                           /\ lineup'[next] = lineup'[s] /\ Rank(next[1]) = Rank(s[1]) + 1
                           /\ stage_key[next[1]] = "third_place" =>
                                stage_key[later[1]] = "third_place"
    BY <1>2 DEF WayNamed
  <2>0. Rank(s[1]) \in Nat /\ Rank(later[1]) \in Nat /\ s[1] \in Match /\ later \in Slot
        /\ named \subseteq Slot
    BY RankType, SlotFacts DEF BracketInv
  <2>1. \A n \in named : IsTeam(lineup[n]) /\ lineup'[n] = lineup[n]
    BY <1>5, <2>0 DEF BracketInv, NamedInv
  <2>2. ~New(s)
    <3>1. SUFFICES ASSUME New(s)
                   PROVE  FALSE
      OBVIOUS
    <3>2. IsTeam(lineup'[s])
      BY <2>1
    <3>3. Rank(later[1]) <= Rank(s[1])
      BY <1>10, <2>0, <3>1, <3>2
    <3> QED BY <2>0, <3>3
  <2>3. lineup[s] = lineup[later] /\ lineup'[s] = lineup[s]
    BY <1>1, <2>1, <2>2
  <2>4. /\ s \in named
        /\ \E next \in named :
             /\ lineup[next] = lineup[s] /\ Rank(next[1]) = Rank(s[1]) + 1
             /\ stage_key[next[1]] = "third_place" => stage_key[later[1]] = "third_place"
    BY <2>3 DEF BracketInv, WayNamed
  <2> QED BY <2>1, <2>3, <2>4
<1> QED BY <1>2, <1>7, <1>8, <1>9, <1>11, <1>12, <1>13 DEF BracketInv

---------------------------------------------------------------------------
(* The feed and the operator.                                              *)

\* An export keeps curated winners.
LEMMA ExportKeeps == Export => winner_team' = winner_team
BY DEF Export, PriorWinners

\* The feed names a slot.
LEMMA NameSlotInv ==
  ASSUME BracketInv, NEW new \in Slot, NameSlot(new)
  PROVE  BracketInv'
<1>1. /\ new \notin named /\ named' = named \cup {new}
      /\ {Origin[new][2]} \X Side \subseteq named
      /\ lineup' = lineup /\ result' = result /\ completed' = completed /\ winner_team' = winner_team
  BY ExportKeeps DEF NameSlot, Export
<1>2. ~IsTeam(Origin[new]) /\ IsTeam(lineup[new])
  <2>1. ~IsTeam(Origin[new])
    BY <1>1 DEF BracketInv, NamedInv
  <2>2. lineup[new][1] = "team" /\ lineup[new] \in TeamName \cup ({"W", "L"} \X Match)
    BY DEF NameSlot, BracketInv, LineupInv
  <2> QED BY <2>1, <2>2 DEF IsTeam
<1>3. PICK m \in Match, side \in Side :
        /\ Origin[new] \in FilledBy(m) /\ lineup[new] = lineup[<<m, side>>]
        /\ Rank(new[1]) = Rank(m) + 1
        /\ Origin[new][2] = m
  BY <1>2, CameFrom
<1>4. {m} \X Side \subseteq named
  BY <1>1, <1>3
<1>5. LineupInv' /\ PlayedInv' /\ OneSlot' /\ PlaysOn'
  BY <1>1 DEF BracketInv, LineupInv, PlayedInv, OneSlot, PlaysOn
<1>6. NamedInv'
  <2> SUFFICES ASSUME NEW s \in Slot
               PROVE  /\ IsTeam(Origin[s]) => s \in named'
                      /\ s \in named' =>
                           /\ IsTeam(lineup[s])
                           /\ \A k \in Match : Origin[s] \in FilledBy(k) => {k} \X Side \subseteq named'
    BY <1>1 DEF NamedInv
  <2>1. CASE s = new
    <3>1. \A k \in Match : Origin[s] \in FilledBy(k) => k = m
      BY <1>3, <2>1, Names
    <3> QED BY <1>1, <1>2, <1>4, <2>1, <3>1
  <2>2. CASE s # new
    BY <1>1, <2>2 DEF BracketInv, NamedInv
  <2> QED BY <2>1, <2>2
<1>7. WayNamed'
  <2> SUFFICES ASSUME NEW s \in Slot, NEW later \in named',
                      lineup[s] = lineup[later], Rank(s[1]) < Rank(later[1])
               PROVE  /\ s \in named'
                      /\ \E next \in named' :
                           /\ lineup[next] = lineup[s] /\ Rank(next[1]) = Rank(s[1]) + 1
                           /\ stage_key[next[1]] = "third_place" =>
                                stage_key[later[1]] = "third_place"
    BY <1>1 DEF WayNamed
  <2>1. CASE later \in named
    BY <1>1, <2>1 DEF BracketInv, WayNamed
  <2>2. CASE later = new
    <3> DEFINE from == <<m, side>>
    <3>1. from \in Slot /\ from \in named /\ lineup[from] = lineup[new] /\ from[1] = m
      BY <1>3, <1>4, SlotFacts
    <3>2. Rank(m) \in 1..5 /\ Rank(s[1]) \in 1..5 /\ Rank(new[1]) \in 1..5
          /\ (stage_key[m] = "third_place" => Rank(m) = 5)
      BY RankType, SlotFacts
    <3>3. CASE Rank(s[1]) = Rank(m)
      <4>1. s = from
        BY <1>2, <2>2, <3>1, <3>3 DEF BracketInv, OneSlot
      <4> QED BY <1>1, <1>3, <2>2, <3>1, <3>3, <4>1
    <3>4. CASE Rank(s[1]) < Rank(m)
      <4>1. /\ s \in named
            /\ \E next \in named :
                 /\ lineup[next] = lineup[s] /\ Rank(next[1]) = Rank(s[1]) + 1
                 /\ stage_key[next[1]] = "third_place" => stage_key[m] = "third_place"
        BY <2>2, <3>1, <3>4 DEF BracketInv, WayNamed
      <4>2. stage_key[m] # "third_place"
        BY <1>3, <3>2
      <4> QED BY <1>1, <4>1, <4>2
    <3> QED BY <1>3, <2>2, <3>2, <3>3, <3>4
  <2> QED BY <1>1, <2>1, <2>2
<1> QED BY <1>1, <1>5, <1>6, <1>7 DEF BracketInv

\* The feed reports a match completed.
LEMMA CompleteInv ==
  ASSUME BracketInv, NEW m \in Match, Complete(m)
  PROVE  BracketInv'
<1>1. /\ result[m] # NoTeam /\ completed' = completed \cup {m} /\ named' = named
      /\ lineup' = lineup /\ result' = result /\ winner_team' = winner_team
  BY ExportKeeps DEF Complete, Export
<1> QED BY <1>1 DEF BracketInv, LineupInv, PlayedInv, NamedInv, OneSlot, PlaysOn, WayNamed

\* The operator enters a winner, or misspells one.
LEMMA CurateInv ==
  ASSUME BracketInv, NEW m \in Match, NEW w \in {result[m], Stray}, Curate(m, w)
  PROVE  BracketInv'
<1>1. /\ winner_team' = [winner_team EXCEPT ![m] = w] /\ result[m] # NoTeam
      /\ lineup' = lineup /\ result' = result /\ named' = named /\ completed' = completed
  BY DEF Curate
<1>2. PlayedInv'
  BY <1>1 DEF BracketInv, PlayedInv
<1> QED BY <1>1, <1>2 DEF BracketInv, LineupInv, NamedInv, OneSlot, PlaysOn, WayNamed

\* Every step of the tournament, the feed and the operator.
LEMMA BracketNextInv ==
  ASSUME BracketInv, BracketNext
  PROVE  BracketInv'
<1>1. CASE \E m \in Match, side \in Side : Play(m, side)
  BY <1>1, PlayInv
<1>2. CASE \E s \in Slot : NameSlot(s)
  BY <1>2, NameSlotInv
<1>3. CASE \E m \in Match : Complete(m)
  BY <1>3, CompleteInv
<1>4. CASE \E m \in Match : Curate(m, result[m]) \/ Curate(m, Stray)
  BY <1>4, CurateInv
<1> QED BY <1>1, <1>2, <1>3, <1>4 DEF BracketNext

\* The odds command leaves the bracket alone.
LEMMA BracketStutter ==
  ASSUME BracketInv, UNCHANGED bracketVars
  PROVE  BracketInv'
BY DEF bracketVars, BracketInv, LineupInv, PlayedInv, NamedInv, OneSlot, PlaysOn, WayNamed

\* Tournament, feed, schedule and odds histories fit together at every moment,
\* for every draw and every lag (bracket.py:91-348, odds_history.py:87-228).
THEOREM BracketInvHolds == Spec => [](BracketInv /\ HistoryInv)
<1>1. Init => BracketInv /\ HistoryInv
  BY BracketInitInv DEF Init, HistoryInv
<1>2. BracketInv /\ HistoryInv /\ [Next]_vars => (BracketInv /\ HistoryInv)'
  <2> SUFFICES ASSUME BracketInv, HistoryInv, [Next]_vars
               PROVE  BracketInv' /\ HistoryInv'
    OBVIOUS
  <2>1. CASE BracketNext /\ UNCHANGED historyVars /\ market = NoMarket
    <3>1. market' = NoMarket
      BY <2>1 DEF historyVars
    <3> QED BY <2>1, <3>1, BracketNextInv DEF HistoryInv
  <2>2. ASSUME NEW m \in Traded, BuildHistory(m)
        PROVE  BracketInv' /\ HistoryInv'
    <3>1. m \in Match
      BY ScansAssumption
    <3>2. BracketInv' /\ result' = result /\ named' = named
      BY <2>2, BracketStutter DEF BuildHistory, bracketVars
    <3> QED BY <2>2, <3>1, <3>2 DEF BuildHistory, HistoryInv
  <2>3. CASE UNCHANGED vars
    <3>1. UNCHANGED bracketVars /\ UNCHANGED historyVars
      BY <2>3 DEF vars
    <3> QED BY <3>1, BracketStutter DEF HistoryInv, historyVars, bracketVars
  <2> QED BY <2>1, <2>2, <2>3 DEF Next
<1> QED BY <1>1, <1>2, PTL DEF Spec

---------------------------------------------------------------------------
(* What the schedule shows.                                                *)

\* A name in a match: a team whose slot is named, or what the draw says.
LEMMA TeamFacts ==
  ASSUME BracketInv, NEW m \in Match, NEW side \in Side
  PROVE  /\ Team(m, side) # NoTeam /\ Team(m, side) # Stray
         /\ IsTeam(Team(m, side)) <=> <<m, side>> \in named
         /\ <<m, side>> \in named => Team(m, side) = lineup[<<m, side>>]
         /\ <<m, side>> \notin named => Team(m, side) = Origin[<<m, side>>]
<1>1. <<m, side>> \in Slot
  BY SlotFacts
<1>2. CASE <<m, side>> \in named
  BY <1>1, <1>2, Names DEF Team, BracketInv, NamedInv, IsTeam
<1>3. CASE <<m, side>> \notin named
  <2>1. ~IsTeam(Origin[<<m, side>>])
    BY <1>1, <1>3 DEF BracketInv, NamedInv
  <2>2. Origin[<<m, side>>] # NoTeam /\ Origin[<<m, side>>] # Stray
    BY <1>1, <2>1, DrawFacts, Names
  <2> QED BY <1>3, <2>1, <2>2 DEF Team
<1> QED BY <1>2, <1>3

\* A name in two consecutive rounds is a team that the draw sent on.
LEMMA ContinuesFacts ==
  ASSUME BracketInv, NEW m \in Match, NEW t \in Teams(m), NEW n \in Continues(t, m)
  PROVE  /\ Feeds(m, n) /\ result[m] # NoTeam
         /\ \E side \in Side : /\ <<n, side>> \in named /\ Team(n, side) = t
                               /\ Origin[<<n, side>>] \in FilledBy(m)
         /\ (t = result[m]) = (stage_key[n] # "third_place")
<1>1. n \in Match /\ Rank(n) = Rank(m) + 1 /\ t \in Teams(n)
  BY DEF Continues
<1>2. PICK x \in Side, y \in Side : t = Team(m, x) /\ t = Team(n, y)
  BY <1>1 DEF Teams
<1> DEFINE s == <<m, x>>
           later == <<n, y>>
<1>3. s \in Slot /\ later \in Slot /\ s[1] = m /\ later[1] = n
  BY <1>1, SlotFacts
<1>4. Rank(m) \in Nat /\ Rank(n) \in Nat /\ Rank(m) # Rank(n)
  BY <1>1, RankType
<1>5. s \in named /\ later \in named
  <2>1. SUFFICES ASSUME s \notin named \/ later \notin named
                 PROVE  FALSE
    OBVIOUS
  <2>2. t = Origin[s] /\ t = Origin[later]
    BY <1>1, <1>2, <2>1, TeamFacts
  <2>3. s = later
    BY <1>3, <2>2, OneOrigin
  <2> QED BY <1>3, <1>4, <2>3
<1>6. t = lineup[s] /\ t = lineup[later] /\ IsTeam(t)
  BY <1>1, <1>2, <1>5, TeamFacts
<1>7. ~IsTeam(Origin[later])
  <2>1. SUFFICES ASSUME IsTeam(Origin[later])
                 PROVE  FALSE
    OBVIOUS
  <2>2. s = later \/ Rank(s[1]) > Rank(later[1])
    BY <1>3, <1>6, <2>1 DEF BracketInv, OneSlot
  <2> QED BY <1>1, <1>3, <1>4, <2>2
<1>8. PICK k \in Match, z \in Side :
        /\ Origin[later] \in FilledBy(k) /\ lineup[later] = lineup[<<k, z>>]
        /\ Rank(later[1]) = Rank(k) + 1 /\ result[k] # NoTeam
        /\ (lineup[later] = result[k]) = (stage_key[later[1]] # "third_place")
  BY <1>3, <1>6, <1>7, CameFrom
<1>9. k = m
  <2>1. <<k, z>> \in Slot /\ <<k, z>>[1] = k /\ Rank(k) \in Nat
    BY SlotFacts, RankType
  <2>2. Rank(k) = Rank(m)
    BY <1>1, <1>3, <1>4, <1>8, <2>1
  <2>3. <<k, z>> = s
    BY <1>3, <1>6, <1>8, <2>1, <2>2 DEF BracketInv, OneSlot
  <2> QED BY <2>3
<1> QED BY <1>2, <1>3, <1>5, <1>6, <1>8, <1>9 DEF Feeds, FilledBy

\* A team that a match sends to a named slot is one of its teams, and goes on to
\* the slot's match.
LEMMA NamedContinues ==
  ASSUME BracketInv, NEW m \in Match, NEW s \in named, Origin[s] \in FilledBy(m)
  PROVE  lineup[s] \in Teams(m) /\ s[1] \in Continues(lineup[s], m)
<1>1. s \in Slot /\ IsTeam(lineup[s]) /\ {m} \X Side \subseteq named
  BY DEF BracketInv, NamedInv
<1>2. ~IsTeam(Origin[s])
  BY <1>1, Names DEF IsTeam
<1>3. PICK k \in Match, side \in Side :
        /\ Origin[s] \in FilledBy(k) /\ lineup[s] = lineup[<<k, side>>]
        /\ Rank(s[1]) = Rank(k) + 1
  BY <1>1, <1>2, CameFrom
<1>4. k = m
  BY <1>3, Names
<1>5. Team(m, side) = lineup[s]
  BY <1>1, <1>3, <1>4 DEF Team
<1>6. s[1] \in Match /\ s[2] \in Side /\ Team(s[1], s[2]) = lineup[s]
  BY <1>1, SlotFacts DEF Team
<1> QED BY <1>3, <1>4, <1>5, <1>6 DEF Teams, Continues

\* A winner that the schedule or a later round shows is the true one.
LEMMA WinnerFacts ==
  ASSUME BracketInv, NEW m \in Match
  PROVE  /\ Winner(m) \in {NoTeam, result[m]}
         /\ Continuers(m) \subseteq {result[m]}
         /\ Explicit(m) # NoTeam => result[m] # NoTeam /\ winner_team[m] = result[m]
         /\ Winner(m) # NoTeam => result[m] # NoTeam
         /\ Winner(m) # NoTeam <=> Explicit(m) # NoTeam \/ Continuers(m) # {}
<1>1. Continuers(m) \subseteq {result[m]} /\ (Continuers(m) # {} => result[m] # NoTeam)
  BY ContinuesFacts DEF Continuers
<1>2. \A t \in Teams(m) : t # NoTeam /\ t # Stray
  BY TeamFacts DEF Teams
<1>3. Explicit(m) # NoTeam => result[m] # NoTeam /\ winner_team[m] = result[m] /\ Explicit(m) = result[m]
  BY <1>2 DEF Explicit, BracketInv, PlayedInv
<1>4. Continuers(m) # {} => (CHOOSE t \in Continuers(m) : TRUE) = result[m]
  BY <1>1
<1> QED BY <1>1, <1>3, <1>4 DEF Winner

\* How the schedule comes to a winner.
WinnerRead ==
  \A m \in Match :
    /\ Winner(m) \in {NoTeam, result[m]}
    /\ Winner(m) # NoTeam <=> Explicit(m) # NoTeam \/ Continuers(m) # {}

\* A winner the schedule gives for a match has won it, and a winner that the feed
\* shows in a later round is given (bracket.py:148-170).
THEOREM WinnersTrue == Spec => []WinnersAreTrue
<1>1. BracketInv => WinnersAreTrue
  <2> SUFFICES ASSUME BracketInv, NEW m \in Match, NEW n \in Match,
                      stage_key[n] # "third_place", result[m] \in Teams(n), Rank(n) > Rank(m)
               PROVE  Winner(m) # NoTeam
    BY WinnerFacts DEF WinnersAreTrue
  <2>1. PICK side \in Side : result[m] = Team(n, side)
    BY DEF Teams
  <2> DEFINE later == <<n, side>>
  <2>2. result[m] # NoTeam /\ result[m] \in TeamName
    BY <2>1, TeamFacts DEF BracketInv, PlayedInv
  <2>3. later \in named /\ lineup[later] = result[m]
    BY <2>1, <2>2, TeamFacts DEF IsTeam
  <2>4. PICK x \in Side : result[m] = lineup[<<m, x>>]
    BY <2>2 DEF BracketInv, PlayedInv
  <2> DEFINE s == <<m, x>>
  <2>5. s \in Slot /\ later \in Slot /\ s[1] = m /\ later[1] = n
    BY SlotFacts
  <2>6. s \in named /\ \E next \in named :
          /\ lineup[next] = lineup[s] /\ Rank(next[1]) = Rank(s[1]) + 1
          /\ stage_key[next[1]] = "third_place" => stage_key[later[1]] = "third_place"
    BY <2>3, <2>4, <2>5 DEF BracketInv, WayNamed
  <2>7. PICK next \in named :
          /\ lineup[next] = result[m] /\ Rank(next[1]) = Rank(m) + 1
          /\ stage_key[next[1]] # "third_place"
    BY <2>4, <2>5, <2>6
  <2>8. result[m] \in Teams(m)
    BY <2>4, <2>6 DEF Teams, Team
  <2>9. next[1] \in Continues(result[m], m)
    <3>1. next[1] \in Match /\ next[2] \in Side /\ next = <<next[1], next[2]>>
      BY SlotFacts DEF BracketInv
    <3> QED BY <2>7, <3>1 DEF Continues, Teams, Team
  <2>10. Continuers(m) # {}
    BY <2>7, <2>8, <2>9 DEF Continuers
  <2> QED BY <2>10, WinnerFacts
<1> QED BY <1>1, BracketInvHolds, PTL

\* The ADVANCES_TO edges between matches are those of the draw, each as soon as
\* the team is named (bracket.py:324-348).
THEOREM EdgesFollowTheDraw == Spec => []AdvancesFollowTheDraw
<1>1. BracketInv => AdvancesFollowTheDraw
  <2> SUFFICES ASSUME BracketInv, NEW m \in Match, NEW n \in Match
               PROVE  <<m, n>> \in Advances <=>
                        /\ Feeds(m, n)
                        /\ \E side \in Side : /\ <<n, side>> \in named
                                              /\ Origin[<<n, side>>] \in {<<"W", m>>, <<"L", m>>}
    BY DEF AdvancesFollowTheDraw
  <2>1. <<m, n>> \in Advances <=> \E t \in Teams(m) : n \in Continues(t, m)
    BY DEF Advances
  <2>2. ASSUME NEW t \in Teams(m), n \in Continues(t, m)
        PROVE  /\ Feeds(m, n)
               /\ \E side \in Side : /\ <<n, side>> \in named
                                     /\ Origin[<<n, side>>] \in {<<"W", m>>, <<"L", m>>}
    BY <2>2, ContinuesFacts DEF FilledBy
  <2>3. ASSUME NEW side \in Side, <<n, side>> \in named,
               Origin[<<n, side>>] \in {<<"W", m>>, <<"L", m>>}
        PROVE  \E t \in Teams(m) : n \in Continues(t, m)
    <3>1. <<n, side>>[1] = n
      OBVIOUS
    <3> QED BY <2>3, <3>1, NamedContinues DEF FilledBy
  <2> QED BY <2>1, <2>2, <2>3
<1> QED BY <1>1, BracketInvHolds, PTL

\* What a step of the tournament, the feed or the operator leaves as it was.
LEMMA StepsKeep ==
  ASSUME BracketInv, BracketNext \/ UNCHANGED bracketVars
  PROVE  /\ named \subseteq named' /\ completed \subseteq completed'
         /\ \A s \in named : lineup'[s] = lineup[s]
         /\ \A m \in Match : result[m] # NoTeam =>
              /\ result'[m] = result[m]
              /\ winner_team[m] = result[m] => winner_team'[m] = result[m]
<1>1. ASSUME NEW m \in Match, NEW side \in Side, Play(m, side)
      PROVE  /\ named' = named /\ completed' = completed /\ winner_team' = winner_team
             /\ \A s \in named : lineup'[s] = lineup[s]
             /\ \A k \in Match : result[k] # NoTeam => result'[k] = result[k]
  <2>1. /\ \A s \in Slot : lineup[s] # lineup'[s] => ~IsTeam(lineup[s])
        /\ result[m] = NoTeam /\ result' = [result EXCEPT ![m] = lineup[<<m, side>>]]
    BY <1>1, PlaySlots
  <2>2. \A s \in named : lineup'[s] = lineup[s]
    BY <2>1 DEF BracketInv, NamedInv
  <2> QED BY <1>1, <2>1, <2>2 DEF Play, BracketInv, PlayedInv
<1>2. ASSUME NEW s \in Slot, NameSlot(s)
      PROVE  /\ named \subseteq named' /\ completed' = completed /\ winner_team' = winner_team
             /\ lineup' = lineup /\ result' = result
  BY <1>2, ExportKeeps DEF NameSlot, Export
<1>3. ASSUME NEW m \in Match, Complete(m)
      PROVE  /\ named' = named /\ completed \subseteq completed' /\ winner_team' = winner_team
             /\ lineup' = lineup /\ result' = result
  BY <1>3, ExportKeeps DEF Complete, Export
<1>4. ASSUME NEW m \in Match, NEW w, Curate(m, w)
      PROVE  /\ named' = named /\ completed' = completed /\ lineup' = lineup /\ result' = result
             /\ \A k \in Match : winner_team[k] = result[k] => winner_team'[k] = result[k]
  BY <1>4 DEF Curate, BracketInv, PlayedInv
<1>5. CASE UNCHANGED bracketVars
  BY <1>5 DEF bracketVars
<1> QED BY <1>1, <1>2, <1>3, <1>4, <1>5 DEF BracketNext

\* The teams a slot has been given stay.
LEMMA TeamsStay ==
  ASSUME BracketInv, BracketNext \/ UNCHANGED bracketVars,
         NEW m \in Match, NEW t \in Teams(m), IsTeam(t)
  PROVE  t \in Teams(m)'
<1>1. PICK side \in Side : t = Team(m, side)
  BY DEF Teams
<1>2. <<m, side>> \in named /\ t = lineup[<<m, side>>]
  BY <1>1, TeamFacts
<1>3. Team(m, side)' = t
  BY <1>2, StepsKeep DEF Team
<1> QED BY <1>3 DEF Teams

\* What names a winner stays, in the schedule and in later rounds.
LEMMA EvidenceStays ==
  ASSUME BracketInv, BracketNext \/ UNCHANGED bracketVars, NEW m \in Match
  PROVE  /\ Explicit(m) # NoTeam => Explicit(m)' # NoTeam
         /\ Continuers(m) # {} => Continuers(m)' # {}
<1>1. ASSUME Explicit(m) # NoTeam
      PROVE  Explicit(m)' # NoTeam
  <2>1. winner_team[m] = result[m] /\ result[m] # NoTeam /\ result[m] \in Teams(m)
    BY <1>1, WinnerFacts DEF Explicit
  <2>2. IsTeam(result[m])
    BY <2>1 DEF BracketInv, PlayedInv, IsTeam
  <2>3. winner_team'[m] = result[m] /\ result[m] \in Teams(m)'
    BY <2>1, <2>2, StepsKeep, TeamsStay
  <2> QED BY <2>1, <2>3 DEF Explicit
<1>2. ASSUME Continuers(m) # {}
      PROVE  Continuers(m)' # {}
  <2>1. PICK t \in Teams(m) : \E n \in Continues(t, m) : stage_key[n] # "third_place"
    BY <1>2 DEF Continuers
  <2>2. PICK n \in Continues(t, m) : stage_key[n] # "third_place"
    BY <2>1
  <2>3. n \in Match /\ Rank(n) = Rank(m) + 1 /\ t \in Teams(n)
    BY DEF Continues
  <2>4. IsTeam(t)
    <3>1. PICK side \in Side : <<n, side>> \in named /\ Team(n, side) = t
      BY ContinuesFacts
    <3> QED BY <2>3, <3>1, TeamFacts
  <2>5. t \in Teams(m)' /\ t \in Teams(n)'
    BY <2>3, <2>4, TeamsStay
  <2>6. n \in Continues(t, m)'
    BY <2>3, <2>5 DEF Continues
  <2> QED BY <2>2, <2>5, <2>6 DEF Continuers
<1> QED BY <1>1, <1>2

\* No later state of the feed and no export takes back a winner, an end or an
\* edge (export_wc2026_schedule.py:65-79).
THEOREM NothingIsTakenBack == Spec => NothingTakenBack
<1>1. BracketInv => WinnerRead
  BY WinnerFacts DEF WinnerRead
<1>2. BracketInv /\ WinnerRead' /\ [Next]_vars =>
        [/\ \A m \in Match : /\ Winner(m) # NoTeam => Winner(m)' = Winner(m)
                             /\ HasEnd(m) => HasEnd(m)'
         /\ Advances \subseteq Advances']_bracketVars
  <2> SUFFICES ASSUME BracketInv, WinnerRead', BracketNext \/ UNCHANGED bracketVars
               PROVE  /\ \A m \in Match : /\ Winner(m) # NoTeam => Winner(m)' = Winner(m)
                                          /\ HasEnd(m) => HasEnd(m)'
                      /\ Advances \subseteq Advances'
    BY DEF Next, BuildHistory, vars
  <2>1. ASSUME NEW m \in Match, Winner(m) # NoTeam
        PROVE  Winner(m)' = Winner(m)
    <3>1. Winner(m) = result[m] /\ result[m] # NoTeam
          /\ (Explicit(m) # NoTeam \/ Continuers(m) # {})
      BY <2>1, WinnerFacts
    <3>2. result'[m] = result[m]
      BY <3>1, StepsKeep
    <3>3. Explicit(m)' # NoTeam \/ Continuers(m)' # {}
      BY <3>1, EvidenceStays
    <3>4. Winner(m)' # NoTeam /\ Winner(m)' \in {NoTeam, result'[m]}
      BY <3>3 DEF WinnerRead
    <3> QED BY <3>1, <3>2, <3>4
  <2>2. ASSUME NEW m \in Match, HasEnd(m)
        PROVE  HasEnd(m)'
    <3>1. Winner(m) # NoTeam /\ (Explicit(m) # NoTeam \/ m \in completed)
      BY <2>2 DEF HasEnd
    <3>2. Winner(m)' # NoTeam
      BY <2>1, <3>1
    <3>3. Explicit(m)' # NoTeam \/ m \in completed'
      BY <3>1, EvidenceStays, StepsKeep
    <3> QED BY <3>2, <3>3 DEF HasEnd
  <2>3. ASSUME NEW e \in Advances
        PROVE  e \in Advances'
    <3>0. PICK m \in Match, n \in Match :
            e = <<m, n>> /\ \E t \in Teams(m) : n \in Continues(t, m)
      BY DEF Advances
    <3>1. PICK t \in Teams(m) : n \in Continues(t, m)
      BY <3>0
    <3>2. Rank(n) = Rank(m) + 1 /\ t \in Teams(n)
      BY <3>1 DEF Continues
    <3>3. IsTeam(t)
      <4>1. PICK side \in Side : <<n, side>> \in named /\ Team(n, side) = t
        BY <3>1, ContinuesFacts
      <4> QED BY <4>1, TeamFacts
    <3>4. t \in Teams(m)' /\ t \in Teams(n)'
      BY <3>2, <3>3, TeamsStay
    <3>5. n \in Continues(t, m)'
      BY <3>2, <3>4 DEF Continues
    <3> QED BY <3>0, <3>4, <3>5 DEF Advances
  <2> QED BY <2>1, <2>2, <2>3
<1> QED BY <1>1, <1>2, BracketInvHolds, PTL DEF Spec, NothingTakenBack

\* A market is never locked while all files have it live, and once a file knows
\* the outcome it is locked to the team that won and that the schedule, if it
\* knows, gives as the winner (odds_history.py:163-173, 210-228).
THEOREM LocksAgree == Spec => []LocksAgreeWithSchedule
<1>1. BracketInv /\ HistoryInv => LocksAgreeWithSchedule
  <2> SUFFICES ASSUME BracketInv, HistoryInv, market # NoMarket
               PROVE  /\ ~HasResult => LockedWinner(market) = NoTeam
                      /\ Points # {} /\ (\E i \in DOMAIN rows : rows[i].says = "won") =>
                           /\ LockedWinner(market) = result[market]
                           /\ Winner(market) \in {NoTeam, LockedWinner(market)}
    BY DEF LocksAgreeWithSchedule
  <2>1. ~HasResult => LockedWinner(market) = NoTeam
    BY DEF LockedWinner
  <2>2. ASSUME Points # {}, \E i \in DOMAIN rows : rows[i].says = "won"
        PROVE  /\ LockedWinner(market) = result[market]
               /\ Winner(market) \in {NoTeam, LockedWinner(market)}
    <3>1. market \in Match /\ {market} \X Side \subseteq named /\ result[market] # NoTeam /\ HasResult
      BY <2>2 DEF HistoryInv, HasResult
    <3>2. PICK side \in Side : result[market] = lineup[<<market, side>>]
      BY <3>1 DEF BracketInv, PlayedInv
    <3>3. result[market] \in Teams(market)
      BY <3>1, <3>2 DEF Teams, Team
    <3>4. WinningOutcome(market) = result[market]
      BY <2>2 DEF WinningOutcome
    <3>5. LockedWinner(market) = result[market]
      BY <2>2, <3>1, <3>3, <3>4 DEF LockedWinner, ResolveWinner
    <3> QED BY <3>1, <3>5, WinnerFacts
  <2> QED BY <2>1, <2>2
<1> QED BY <1>1, BracketInvHolds, PTL

=============================================================================
