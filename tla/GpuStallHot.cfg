SPECIFICATION FairSpec
CONSTANTS
  Cap = 2
  Window = 6
  Dwell = 4
  Grace = 4
  MaxRecoveries = 3
  Stale = 3
  GpuRange = TRUE
PROPERTIES
  HungHotCardExits
