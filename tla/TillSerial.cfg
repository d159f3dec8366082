SPECIFICATION Spec
CONSTANTS
  Ops = {o1, o2}
  Shifts = {s1, s2}
  Flushes = {f1}
  Strays = {x1}
  Slots <- MCSlots
  MaxHandlers = 1
  MaxAttempts = 2
  MaxRestarts = 1
  RepliesLost = TRUE
  None = None
SYMMETRY Symmetry
CHECK_DEADLOCK FALSE
INVARIANT OneShiftAtATime
PROPERTIES Delivered DropsWhileOpen
