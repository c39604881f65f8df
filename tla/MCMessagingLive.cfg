SPECIFICATION FairSpec
CONSTANTS
  u1 = u1  u2 = u2  r1 = r1  c1 = c1  c2 = c2  h1 = h1
  NoOne = NoOne  NoChannel = NoChannel
  Users <- MCUsers
  Rooms <- MCRooms
  Schemas <- BothSchemas
  Conns <- MCConns
  Https <- NoHttps
  Targets <- OneOfEach
  SendCap = 1
  DbFaults = FALSE
  MaxRequests = 2
  MaxEvents = 1
PROPERTIES DisconnectCleansUp RequestEnds
CHECK_DEADLOCK FALSE
