SPECIFICATION Spec
CONSTANTS
  Conns = {c1, c2}
  None = none
  Console = console
  Listener = listener
  MAX_CLIENTS = 1
  MaxFd = 3
  MaxLogouts = 1
  MaySignal = FALSE
INVARIANTS LogoutDisconnects
CHECK_DEADLOCK FALSE
