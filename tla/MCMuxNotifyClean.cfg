\* One attribute, one id: a list that disables and enables the callback.
CONSTANTS
  MaxOid = 1
  Attrs = {at1}
  Handlers = {h1}
  NoHandler = NoHandler
  NoContext = NoContext
  MaxObjects = 2
  MaxContexts = 3
  MaxList = 2
SPECIFICATION Spec
INVARIANTS CleanedAfterDisabling
CHECK_DEADLOCK FALSE
