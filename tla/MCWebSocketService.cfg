SPECIFICATION FairSpec
CONSTANTS
  Conn = {c1, c2}
  Sender = {s1}
  BroadcastCap = 1
  MaxTicks = 1
  MaxPush = 2
INVARIANT CompleteFeed
PROPERTIES BrokenForgotten SendersFinish
CHECK_DEADLOCK FALSE
