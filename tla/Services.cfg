SPECIFICATION Spec
CONSTANTS
  Clients = {"dash", "drip"}
  Requests <- MCRequests
  Password = TRUE
  MaxRequest = 5
  Horizon = 2
  Spans <- MCSpans
  LastTick = 3
  MaxSamples = 3
INVARIANT WindowsComplete
PROPERTIES EveryClientServed ComesBack
