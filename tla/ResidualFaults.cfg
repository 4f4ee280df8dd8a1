CONSTANTS
  e1 = e1
  e2 = e2
  A = A
  B = B
  Events = {e1, e2}
  Plans = {A, B}
  Chunk = {0, 1}
  ChunksOf <- FewerChunks
  Concurrency = 2
  ResumeModes = {TRUE}
  FaultKinds = {"kill", "tear", "llm_down", "task"}
  MaxFaults = 2
  Absent = Absent
  Torn = Torn
SPECIFICATION FairSpec
INVARIANT ResultsMatchPlan
INVARIANT FailedLeavesNoFragment
PROPERTY ImplementsCache
PROPERTY RunTerminates
PROPERTY FaultFreeRunCompletes
