SPECIFICATION Spec
CONSTANTS
  Conns = {c1, c2, c3}
  None = none
  Console = console
  Listener = listener
  MAX_CLIENTS = 2
  MaxFd = 4
  MaxLogouts = 0
  MaySignal = FALSE
INVARIANTS RightRecipient
CHECK_DEADLOCK FALSE
