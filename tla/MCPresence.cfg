SPECIFICATION FairSpec
CONSTANTS
  p = p  b = b  c = c
  None = None
  Users <- MCUsers
  Statuses <- MCStatuses
  Beats <- MCBeats
  Minute = 2
  MaxDelay = 1
  MaxFaults = 1
INVARIANTS TypeOK RowIsLastSaid ShownWasSaid
PROPERTY SilentGoesOffline
CHECK_DEADLOCK FALSE
