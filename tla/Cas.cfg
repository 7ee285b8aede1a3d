SPECIFICATION CasSpec
CONSTANTS
  Procs = {p1, p2}
  Bodies <- MCBodies
  Absent = Absent
  MaxRun = 2
  ChunkSize = 3
  MayCrash = TRUE
  DiskMayFill = TRUE
  MaxGets = 3
INVARIANTS
  OnlyVerifiedBytes AtRestBlobsAreWhole
CHECK_DEADLOCK FALSE
