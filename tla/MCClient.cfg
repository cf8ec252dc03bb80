SPECIFICATION FairSpec
CONSTANTS
  Users = {ann}
  Terminals = {t1, t2}
  Passwords = {secret}
  Empty = empty
  None = none
  MAX_CLIENTS = 1
  MaxConns = 2
INVARIANTS TypeOK  CompletedIsTaken InStep
PROPERTIES KeysKept 
CHECK_DEADLOCK FALSE
