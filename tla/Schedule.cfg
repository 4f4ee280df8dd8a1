CONSTANTS
  Match <- MCMatch
  stage_key <- MCStage
  Entrant = {"a", "b", "c", "d", "e"}
  Origin <- MCOrigin
  Curated = {"F"}
  Traded = {"SF"}
  Scans <- MCScans
SPECIFICATION Spec
CHECK_DEADLOCK FALSE
INVARIANT WinnersAreTrue
INVARIANT AdvancesFollowTheDraw
INVARIANT LocksAgreeWithSchedule
PROPERTY NothingTakenBack
