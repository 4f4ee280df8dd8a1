---------------------------- MODULE OddsHistory ----------------------------
(***************************************************************************)
(* odds_history.py: at some moment of the tournament the hourly rows of an  *)
(* advance market are read from all input files and joined to its fixture.  *)
(* A row says what its file knew of the market: that it is live, that it is *)
(* over, or which outcome won.  Files overlap, so an hour may come twice,   *)
(* with another price, and a row that knows less may come after one that    *)
(* knows more.  The scan orders rows by hour and leaves ties in any order.  *)
(***************************************************************************)
EXTENDS Bracket, Sequences, FiniteSetsExt

CONSTANTS
  Traded,  \* matches with an advance market
  Scans    \* sequences of rows in the order of the scan

ASSUME ScansAssumption ==
  /\ Traded \subseteq Match
  /\ Scans \subseteq Seq([hour : Nat, primary : Side \cup {"other"}, price : 0..100,
                       says : {"live", "over", "won"}])

VARIABLES
  market,  \* the fixture whose market was read, or NoMarket
  rows     \* its rows

NoMarket == "no market"
historyVars == <<market, rows>>
vars == <<bracketVars, historyVars>>

---------------------------------------------------------------------------
\* _probs_for_hour: the price in percent, as the price of the home team. A row
\* whose primary outcome is neither team has no point.
HomeProb(row) == IF row.primary = "home" THEN row.price ELSE 100 - row.price

Points == {i \in DOMAIN rows : rows[i].primary # "other"}
LastHour == Max({rows[i].hour : i \in Points})

\* by_hour: the last row of an hour is its point.
LastPoint == HomeProb(rows[Max({i \in Points : rows[i].hour = LastHour})])

\* has_result, over all rows of the market.
HasResult == \E i \in DOMAIN rows : rows[i].says # "live"

\* Slip: what the first row says of the market stands for all rows.
FirstRowSays(m) == IF rows[1].says = "won" THEN result[m] ELSE NoTeam

\* market_meta: any row that knows the outcome provides it.
WinningOutcome(m) ==
  IF \E i \in DOMAIN rows : rows[i].says = "won" THEN result[m] ELSE NoTeam

\* _resolve_winner
ResolveWinner(m) ==
  IF WinningOutcome(m) \in Teams(m) THEN WinningOutcome(m)
  ELSE IF LastPoint > 50 THEN Team(m, "home")
  ELSE IF LastPoint < 50 THEN Team(m, "away")
  ELSE NoTeam

\* winner_team of every row that is written.
LockedWinner(m) == IF Points # {} /\ HasResult THEN ResolveWinner(m) ELSE NoTeam

---------------------------------------------------------------------------
Init == BracketInit /\ market = NoMarket /\ rows = <<>>

\* A fixture whose teams the schedule does not name yet has no market to join.
\* Files say no more than what has happened.
BuildHistory(m) ==
  /\ {m} \X Side \subseteq named
  /\ rows' \in IF result[m] = NoTeam
               THEN {scan \in Scans : \A i \in DOMAIN scan : scan[i].says = "live"}
               ELSE Scans
  /\ market' = m
  /\ UNCHANGED bracketVars

\* The command reads one state of the schedule and of the files.
Next ==
  /\ market = NoMarket
  /\ (BracketNext /\ UNCHANGED historyVars) \/ \E m \in Traded : BuildHistory(m)

Spec == Init /\ [][Next]_vars

---------------------------------------------------------------------------
\* A match is never locked while all files have it live, and once any file knows
\* the outcome it is locked to the team that won and that the schedule, if it
\* knows, gives as the winner; prices decide only in between
\* (odds_history.py:163-173, 210-228, output-artifacts.md:85).
LocksAgreeWithSchedule ==
  market # NoMarket =>
    /\ ~HasResult => LockedWinner(market) = NoTeam
    /\ Points # {} /\ (\E i \in DOMAIN rows : rows[i].says = "won") =>
         /\ LockedWinner(market) = result[market]
         /\ Winner(market) \in {NoTeam, LockedWinner(market)}
=============================================================================
