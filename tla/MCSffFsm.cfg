CONSTANTS
  Services = {TRUE, FALSE}
  Netifs = {0, 1}
  Hostifs = {0}
  FileSize = 4
  BufferSize = 3
  Addresses = {0, 2, 3}
SPECIFICATION FairSpec
INVARIANTS TypeOK ReadyHasModule OperStatusTruth
PROPERTIES CreatedBecomesReady RemoveReturns
CHECK_DEADLOCK FALSE
