CONSTANTS
  Inputs <- MCInputs
  Header = 1
  Separator = 1
  PerMarket = 2
  Backends = {"server", "inprocess"}
  llm_concurrency = 2
  max_retries = 1
SPECIFICATION Spec
CHECK_DEADLOCK FALSE
INVARIANT ChunksCoverInOrder
INVARIANT CutIsBest
INVARIANT BackendGuarded
PROPERTY ImplementsPool
PROPERTY EveryCallEnds
