\* Nothing is ever removed, so the table fills up and the system stops.
CONSTANTS
  Port <- MCPort
  Indices = {0, 3, 4, 512}
  None = None
  BitOr <- MCBitOr
  MaxInterfaces = 3
SPECIFICATION Spec
INVARIANTS ModuleIdAnswered HeldIsRegistered
CHECK_DEADLOCK FALSE
