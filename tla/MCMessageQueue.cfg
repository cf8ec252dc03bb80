SPECIFICATION FairSpec
CONSTANTS
  Senders = {s1, s2}
  Owner = owner
  Nobody = nobody
  MESSAGE_QUEUE_SIZE = 3
  MaxId = 6
INVARIANTS TypeOK NoDoubleFree NoUseAfterFree NoLeakWhileServed RingConsistent
PROPERTIES BoxRefined CallsReturn TeardownFinishes
CHECK_DEADLOCK FALSE
