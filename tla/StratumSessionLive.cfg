SPECIFICATION FairSpec
CONSTANTS
  NEndpoints = 1
  MaxUnacked = 1
  MaxConn = 2
  MaxSubmits = 1
  NoJob = NoJob
  Jobs <- OneJob
PROPERTIES
  DropReturns
  Recovers
  HalfOpenHeals
