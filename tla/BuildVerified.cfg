CONSTANTS
  match = match
  group = group
  plain = plain
  grouped = grouped
  w1 = w1
  w2 = w2
  Events = {match, group}
  Fragments = {plain, grouped}
  Worlds = {w1, w2}
  Topology <- MCTopology
  Uncovered = Uncovered
  Concurrency = 2
  ResumeModes = {TRUE}
  VerifyModes = {TRUE}
  TemplateModes = {TRUE, FALSE}
  FaultKinds = {"tear", "llm_down", "task"}
  MaxFaults = 1
  p1 = p1
  p2 = p2
  Plans = {p1, p2}
  PlanOf <- MCPlanOf
  Chunk = {0}
  ChunksOf <- MCChunksOf
  ResidualFaultKinds = {"kill", "tear", "llm_down", "task"}
  MaxResidualFaults = 1
  Absent = Absent
  Torn = Torn
SPECIFICATION BuildSpec
INVARIANT VerifiedAnswersCandidate
INVARIANT EveryAnswerIsHandled
INVARIANT RunBuildIsFresh
INVARIANT RunLlmIsFresh
PROPERTY ImplementsCache
