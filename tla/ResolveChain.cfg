CONSTANTS
  Inputs <- MCChain
  Labels <- MCLabels
  Markets = {"m1", "m2", "m3", "m4"}
  TeamCodes <- MCCodes
  TeamNames <- MCNames
  Score <- MCScore
  MaxDay = 5
  MaxNodes = 4
SPECIFICATION Spec
CHECK_DEADLOCK FALSE
INVARIANT DistantFixturesStayApart
