CONSTANTS
  Netifs = {lane0, lane1}
  Formats = {QPSK, QAM16}
  BadFormats = {UNKNOWN}
  Failures = TRUE
SPECIFICATION Spec
INVARIANTS TypeOK
PROPERTIES ChangedInLowPower SuccessRestores SuccessIsReached LaserOnlyOnRequest
SYMMETRY Symmetry
