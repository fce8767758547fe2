SPECIFICATION FairSpec
CONSTANTS
  Candidates <- TwoCandidates
  DefaultGeometry <- Shipped
  Unset = Unset
  Rigs = {"0", "1"}
  Cards = {"A", "B"}
  Setups <- PanicSetup
  Budget = 2
  Cap = 3
PROPERTIES
  AutoFallsThrough
