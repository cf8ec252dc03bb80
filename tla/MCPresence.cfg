SPECIFICATION FairSpec
CONSTANTS
  MAX_CLIENTS = 3
  ann = ann
  bob = bob
  Users <- MCUsers
  None = none
  MaxRequests = 3
INVARIANTS TypeOK BroadcastWhole 
PROPERTIES RequestsEnd
CHECK_DEADLOCK FALSE
