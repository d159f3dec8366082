SPECIFICATION FairSpec
CONSTANTS
  Ops = {o1, o2}
  Shifts = {s1}
  Flushes = {f1}
  Strays = {x1}
  Slots <- MCSlots
  MaxHandlers = 1
  MaxAttempts = 2
  MaxRestarts = 0
  RepliesLost = TRUE
  None = None
PROPERTIES QueueSettles
CHECK_DEADLOCK FALSE
