SPECIFICATION FairSpec
CONSTANTS
  Cap = 2
  Window = 8
  Dwell = 2
  Grace = 2
  MaxRecoveries = 2
  Stale = 1
  GpuRange = TRUE
INVARIANTS
  TypeOK
  LadderComplete
  HealthyNotKilled
  PauseBounded
PROPERTIES
  HungGpuExits
  HungHotCardExits
