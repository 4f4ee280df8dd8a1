-------------------------- MODULE MC_OddsHistory --------------------------
(***************************************************************************)
(* Instance of OddsHistory for TLC: the last four matches that one          *)
(* quarterfinal leads to, the other semifinal already played.               *)
(***************************************************************************)
EXTENDS OddsHistory

MCMatch == {"QF", "SF", "F", "T"}

MCStage ==
  [QF |-> "quarterfinal", SF |-> "semifinal", F |-> "final", T |-> "third_place"]

MCDraw ==
  [QF |-> [home |-> <<"team", "a">>, away |-> <<"team", "b">>],
   SF |-> [home |-> <<"W", "QF">>, away |-> <<"team", "c">>],
   F  |-> [home |-> <<"W", "SF">>, away |-> <<"team", "d">>],
   T  |-> [home |-> <<"L", "SF">>, away |-> <<"team", "e">>]]

MCOrigin == [slot \in MCMatch \X {"home", "away"} |-> MCDraw[slot[1]][slot[2]]]

Row(hour, primary, price, says) ==
  [hour |-> hour, primary |-> primary, price |-> price, says |-> says]

\* An old and a new file: one after the other, or with an hour in common; the
\* prices of the two favour different teams, and at last none.
MCScans ==
  LET Old == {Row(1, "home", 70, says) : says \in {"live", "over", "won"}}
      New(hour) == {Row(hour, primary, 60, says) :
                      primary \in {"away", "other"}, says \in {"over", "won"}}
      Live == Row(1, "home", 70, "live")
  IN {<<old, new>> : old \in Old, new \in New(1) \cup New(2)}
       \cup {<<new, old>> : old \in Old, new \in New(1)}
       \cup {<<Live, Row(2, "away", 60, "live")>>, <<Live, Row(2, "away", 50, "over")>>}
=============================================================================
