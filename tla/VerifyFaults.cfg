CONSTANTS
  match = match
  group = group
  plain = plain
  grouped = grouped
  w1 = w1
  w2 = w2
  Events = {match, group}
  Fragments = {plain, grouped}
  Worlds = {w1, w2}
  Topology <- MCTopology
  Uncovered = Uncovered
  Concurrency = 2
  ResumeModes = {TRUE, FALSE}
  VerifyModes = {TRUE, FALSE}
  TemplateModes = {TRUE}
  FaultKinds = {"kill", "tear", "llm_down", "task"}
  MaxFaults = 2
  Absent = Absent
  Torn = Torn
SPECIFICATION FairSpec
INVARIANT FailedVerificationLeavesNothing
PROPERTY FaultFreeVerifyCompletes
