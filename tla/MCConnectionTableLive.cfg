SPECIFICATION FairSpec
CONSTANTS
  Conns = {c1, c2}
  None = none
  Console = console
  Listener = listener
  MAX_CLIENTS = 1
  MaxFd = 3
  MaxLogouts = 1
  MaySignal = TRUE
PROPERTIES DroppedIsReclaimed  ShutdownEnds
CHECK_DEADLOCK FALSE
