SPECIFICATION FairSpec
CONSTANTS
  a = a  b = b  d = d
  Clients <- MCClients
  QueueCap = 2
  SendCap = 1
INVARIANTS TypeOK ClosedOnce Unbroken
PROPERTY ClosedLeaves
CHECK_DEADLOCK FALSE
