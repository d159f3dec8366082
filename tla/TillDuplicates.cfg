SPECIFICATION Spec
CONSTANTS
  Ops = {o1, o2}
  Shifts = {s1}
  Flushes = {f1, f2}
  Strays = {x1}
  Slots <- MCSlots
  MaxHandlers = 1
  MaxAttempts = 2
  MaxRestarts = 0
  RepliesLost = FALSE
  None = None
INVARIANTS AppliedOnce
CHECK_DEADLOCK FALSE
