SPECIFICATION FairSpec
CONSTANTS
  a = a  b = b  d = d
  Clients <- ThreeClients
  QueueCap = 2
  SendCap = 1
PROPERTY OpenIsTakenIn
CHECK_DEADLOCK FALSE
