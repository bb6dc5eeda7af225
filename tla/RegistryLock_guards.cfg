SPECIFICATION FairSpec
CONSTANTS
  None = None
  Waiters = {w1}
  StopHandlers = {s1}
  Senders = {p1, p2}
  Touches = {}
  Connects = {c1}
  Disconnects = {x1}
  MaxWait = 1
  Capacity = 1
INVARIANT LockInv
PROPERTIES
  OnlySendersBlock
CHECK_DEADLOCK FALSE
