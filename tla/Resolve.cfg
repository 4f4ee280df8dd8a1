CONSTANTS
  Inputs <- MCInputs
  Labels <- MCLabels
  Markets = {"m1", "m2", "m3", "m4"}
  TeamCodes <- MCCodes
  TeamNames <- MCNames
  Score <- MCScore
  MaxDay = 5
  MaxNodes = 7
SPECIFICATION Spec
CHECK_DEADLOCK FALSE
INVARIANT EvidenceConserved
INVARIANT OfficialDateWins
INVARIANT IndexesAgree
INVARIANT CoalescesOverAdjacentDays
INVARIANT CodesNeverMergeTeams
