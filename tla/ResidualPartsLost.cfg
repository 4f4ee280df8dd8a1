CONSTANTS
  e1 = e1
  e2 = e2
  A = A
  B = B
  Events = {e1}
  Plans = {A, B}
  Chunk = {0, 1}
  ChunksOf <- SameShape
  Concurrency = 1
  ResumeModes = {TRUE}
  FaultKinds = {"task"}
  MaxFaults = 1
  Absent = Absent
  Torn = Torn
SPECIFICATION Spec
PROPERTY MatchingPartsAreReused
