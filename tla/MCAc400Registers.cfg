\* A behaviour ends when its call has returned.
CONSTANTS
  Netifs = {0, 1}
  Hostifs = {0, 1, 2, 3}
  Words <- MCWords
  Values <- MCValues
  Oversized = {}
  MaxMoves = 1
SPECIFICATION StatusSpec
INVARIANTS ListReadsBack StatusWasTrue
PROPERTIES OthersKept
CHECK_DEADLOCK FALSE
