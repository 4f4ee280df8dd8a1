CONSTANTS
  match = match
  group = group
  plain = plain
  grouped = grouped
  w1 = w1
  w2 = w2
  Events = {match, group}
  Fragments = {plain, grouped}
  Worlds = {w1, w2}
  Topology <- MCTopology
  Uncovered = Uncovered
  Concurrency = 1
  ResumeModes = {TRUE}
  VerifyModes = {TRUE, FALSE}
  TemplateModes = {TRUE}
  FaultKinds = {}
  MaxFaults = 0
  p1 = p1
  p2 = p2
  Plans = {p1, p2}
  PlanOf <- MCPlanOf
  Chunk = {0}
  ChunksOf <- MCChunksOf
  ResidualFaultKinds = {}
  MaxResidualFaults = 0
  Absent = Absent
  Torn = Torn
SPECIFICATION BuildSpec
INVARIANT VerifiedMatchesTemplate
