SPECIFICATION FairSpec
CONSTANTS
  Xn2Mod = 3
  MaxSlices = 2
  MaxNotifies = 3
  MaxSessions = 3
  NoJob = NoJob
  Jobs <- ThreeJobs
  Unmappable <- Refused
INVARIANTS
  TypeOK
  StaleIsPreempted
  NoSpuriousPreempt
PROPERTIES
  NoRepeatedLaunch
  StopEnds
  FreshWork
