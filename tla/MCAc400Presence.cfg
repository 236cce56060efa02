\* A process that has crashed stops.
CONSTANTS
  Slots = 2
  MaxThreads = 2
  MaxChanges = 2
SPECIFICATION Spec
INVARIANTS OrderlyEnd
PROPERTIES PresenceLearned
CHECK_DEADLOCK FALSE
