SPECIFICATION ListSpec
CONSTANTS
  Caller = {1}
  Pool = {p1, p2}
  FirstSize = 1
  ListPlans <- FourCalls
  Junk = Junk
  Asserts = TRUE
  NULL = NULL
CHECK_DEADLOCK FALSE
INVARIANTS
  ListEmptiesClear
