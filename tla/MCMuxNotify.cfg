\* Two attributes, lists of up to two entries; ids that are given back and taken again.
CONSTANTS
  MaxOid = 2
  Attrs = {at1, at2}
  Handlers = {h1}
  NoHandler = NoHandler
  NoContext = NoContext
  MaxObjects = 2
  MaxContexts = 3
  MaxList = 2
SPECIFICATION FairSpec
INVARIANTS TypeOK SubscriptionsBacked ContextsUnshared NoUseAfterFree
           DeliveredUnderOwnId
PROPERTIES CallsReturn
CHECK_DEADLOCK FALSE
