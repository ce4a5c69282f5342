SPECIFICATION FairOrderlySpec
CONSTANTS
  Thread = {"s", "t", "u"}
  Key = {"k", "l"}
  Value = {"", "v"}
  Empty = ""
  Free = "free"
  Batches <- MCBatches
  KeyLists <- MCKeyLists
  MaxCalls = 3
INVARIANTS DatabaseTypeOK NoRace LockedCallsAlone
PROPERTIES ImplementsAtomicMap LockReleased
CHECK_DEADLOCK FALSE
