SPECIFICATION FairSpec
CONSTANTS
  Candidates <- TwoCandidates
  DefaultGeometry <- Shipped
  Unset = Unset
  Rigs = {"0", "1"}
  Cards = {"A", "B"}
  Setups <- AnySetup
  Budget = 2
  Cap = 3
INVARIANTS
  CachedIsOwn
  BestWins
  NoSilentCpu
PROPERTIES
  MiningStarts
