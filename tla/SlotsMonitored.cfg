SPECIFICATION FairSpec
CONSTANTS
  l1 = l1
  l2 = l2
  l3 = l3
  NSlots = 1
  Launch = {l1, l2, l3}
  Warm = {l1}
  MaxAttempts = 1
  Monitor = TRUE
PROPERTIES
  LaunchesReturn
  VMsAreReaped
CHECK_DEADLOCK FALSE
