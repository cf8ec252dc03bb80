SPECIFICATION Spec
CONSTANTS
  MAX_CLIENTS = 2
  alice = alice
  bob = bob
  m1 = m1
  m2 = m2
  Users = {alice, bob}
  Msgs = {m1, m2}
  To <- MCTo
  MESSAGE_QUEUE_SIZE = 1
  None = none
INVARIANTS AckQueuedKept
CHECK_DEADLOCK FALSE
