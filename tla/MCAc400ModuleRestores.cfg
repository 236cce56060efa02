CONSTANTS
  Netifs = {lane0, lane1}
  Formats = {QPSK, QAM16}
  BadFormats = {UNKNOWN}
  Failures = FALSE
SPECIFICATION Spec
PROPERTIES RestoresState
