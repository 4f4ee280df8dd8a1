CONSTANTS
  m1 = m1
  m2 = m2
  m3 = m3
  s1 = s1
  s2 = s2
  team = team
  market = market
  o1 = o1
  o2 = o2
  o3 = o3
  o4 = o4
  o5 = o5
  unknown = unknown
  x = x
  y = y
  Nodes = {m1, m2, m3, s1, s2, team, market, o1, o2, o3, o4, o5}
  NodeType <- MCNodeType
  Builds <- MCBuilds
  MinConfidence = 1
SPECIFICATION ClosedSpec
CHECK_DEADLOCK FALSE
INVARIANT ExportValidates
INVARIANT EvidenceAccounted
INVARIANT OnlyCyclesRejected
INVARIANT ClosureExact
INVARIANT PremisesAreShortest
INVARIANT NothingInvented
PROPERTY FragmentEdgesSurvive
PROPERTY Terminates
