SPECIFICATION DrainedSpec
CONSTANTS
  None = None
  Waiters = {}
  StopHandlers = {}
  Senders = {p1}
  Touches = {h1}
  Connects = {}
  Disconnects = {}
  MaxWait = 0
  Capacity = 1
PROPERTY CommandIsSent
CHECK_DEADLOCK FALSE
