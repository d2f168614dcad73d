SPECIFICATION FairSpec
CONSTANTS
  MaxTs = 5
  Lookback = 1
  MinVisit = 1
  MinExit = 1
  Chunk = 2
  ChunkMin = 1
  Ingesters = {"mqtt", "http"}
  Since = {0, 3}
  Budgets <- MCBudgets
INVARIANTS NothingSlips
PROPERTIES EventuallyRebuilt
CHECK_DEADLOCK FALSE
