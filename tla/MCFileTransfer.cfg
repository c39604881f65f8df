SPECIFICATION FilesSpec
CONSTANTS
  req1 = req1  req2 = req2  req3 = req3
  ip1 = ip1  ip2 = ip2  file1 = file1  file2 = file2
  Reqs <- MCReqs
  Ips <- MCIps
  Ids <- MCIds
  Limit = 2
  Window = 2
  ReadTimeout = 1
  Variants <- MCVariants
  MaxDelay = 1
  MaxTime = 3
  MaxRequests = 4
  MaxRestarts = 1
INVARIANTS StorageTypeOK SlidingLimit Stored BodiesBounded
PROPERTY RefusedWhenFull
SYMMETRY Symmetry
CHECK_DEADLOCK FALSE
