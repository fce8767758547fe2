SPECIFICATION Spec
CONSTANTS
  NEndpoints = 2
  MaxUnacked = 2
  MaxConn = 3
  MaxSubmits = 2
  NoJob = NoJob
  Jobs <- OneJob
INVARIANTS
  TypeOK
  StreakAccurate
  AcksBounded
  JobOfItsSession
  ReportedEndpoint
  ArmNotLost
  HintOnEverySession
