SPECIFICATION MCSpec
CONSTANTS
  alice = alice  bob = bob  req1 = req1  req2 = req2
  reader1 = reader1  call1 = call1  call2 = call2
  Senders <- MCSenders
  MaxMessages = 4
  OverviewMessages = 2
  MaxTime = 2
  Reqs <- MCReqs
  Hour = 0
  Day = 1
  Ttl = 1
  MaxBuild = 1
  Readers <- MCReaders
  PageLimit = 2
  Calls <- MCCalls
  Latencies = {1, 2, 3}
  SampleLimit = 3
  Percents <- MCPercents
  MaxCalls = 4
  MaxDay = 1
INVARIANTS TypeOK CountsNested HistoryCausal Percentiles
PROPERTIES Fresh ShownStays DailyFiles
SYMMETRY Symmetry
CHECK_DEADLOCK FALSE
