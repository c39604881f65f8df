SPECIFICATION FairSpec
CONSTANTS
  q1 = q1  q2 = q2
  Reqs <- MCReqs
  MaxEvents = 4
  MaxFaults = 2
  MaxTime = 2
INVARIANTS TypeOK BreaksExplained Chronological
PROPERTIES ImplementsLog Answered
CHECK_DEADLOCK FALSE
