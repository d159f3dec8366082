SPECIFICATION FairSpec
CONSTANTS
  Publishers = {p1}
  Size = 3
  BatchSize = 2
  MaxAttempts = 2
PROPERTY PendingIsPublished
CHECK_DEADLOCK FALSE
