SPECIFICATION Spec
CONSTANTS
  l1 = l1
  l2 = l2
  l3 = l3
  NSlots = 2
  Launch = {l1, l2, l3}
  Warm = {l1}
  MaxAttempts = 1
  Monitor = TRUE
INVARIANTS
  SlotsAreExclusive
CHECK_DEADLOCK FALSE
