SPECIFICATION FairSpec
CONSTANTS
  Width = 6
  Limits = {0, 3, 5}
  Targets = {{}, {2}, {0, 4}}
  MaxCalls = 2
  Launch = 2
  Threads = {t1, t2}
  Chunk = 2
INVARIANTS
  PromptCancel
PROPERTIES
  KeepsContract
  CallReturns
