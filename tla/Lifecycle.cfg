SPECIFICATION FairSpec
CONSTANTS
  Servers = {k1, k2}
  Buckets = {b1, b2}
  Runs = {r1, r2}
  MaxOpen = 1
  MaxFaults = 2
  MaxStarts = 3
CHECK_DEADLOCK FALSE
INVARIANTS TypeOK ServesFromBuckets OneRun
PROPERTIES ServerComesUp RunsComeBack PrunesForEver
