SPECIFICATION Spec
CONSTANTS
  Users = {ann}
  Terminals = {t1}
  Passwords = {secret}
  Empty = empty
  None = none
  MAX_CLIENTS = 1
  MaxConns = 1
INVARIANTS RegisterLater
CHECK_DEADLOCK FALSE
