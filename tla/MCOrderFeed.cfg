SPECIFICATION FairSpec
CONSTANTS
  c1 = c1
  c2 = c2
  Calls <- TwoCalls
  Retries = 1
INVARIANT NothingBehindFirstRefusal
INVARIANT SentWhileAwaited
INVARIANT WokenByNews
INVARIANT FillFailsOneTick
PROPERTY OrdersAreCalls
PROPERTY StopDrains
CHECK_DEADLOCK FALSE
