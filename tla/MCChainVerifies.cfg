SPECIFICATION Spec
CONSTANTS
  q1 = q1  q2 = q2
  Reqs <- MCReqs
  MaxEvents = 3
  MaxFaults = 1
  MaxTime = 0
INVARIANT ChainVerifies
CHECK_DEADLOCK FALSE
