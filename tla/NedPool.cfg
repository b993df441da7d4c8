SPECIFICATION NedSpec
CONSTANTS
  Thread = {1, 2, 3}
  Id = {1, 2, 3, 4}
  MaxThreads = 2
  MaxCaches = 2
  CacheRoom = 1
  MaxHeld = 2
  Plans <- Calls
  Null = Null
  Caller = {1, 2, 3}
  Pool = {p1, p2, p3}
  FirstSize = 1
  ListPlans <- ListCalls
  Junk = Junk
  Asserts = TRUE
  NULL = NULL
CHECK_DEADLOCK FALSE
INVARIANTS
  LocksHeld
  MspacesListed
  CacheIsOwn
  BlocksAccounted
  SettingsStay
  ListExact
PROPERTIES
  CallsReturn
