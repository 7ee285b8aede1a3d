SPECIFICATION DriverSpec
CONSTANTS
  p1 = p1
  p2 = p2
  Procs = {p1, p2}
  Paths = {"a", "b", "lib/a", "a b"}
  Names = {"a", "b", "lib/a", "a b", "ib/a", "word", "scrap"}
  Blank = {"a b"}
  Ends <- MCEnds
  Scrap = "scrap"
  Word = "word"
  Programs <- MCPrograms
  Tasks <- MCTasks
  Hash <- MCHash
  GraphCap = 2
  Earlier <- MCEarlier
  DevResearch = TRUE
  MayCrash = TRUE
  MaxCompiles = 2
INVARIANTS
  GraphIsExact GraphNeverInvents SuccessMeansBuilt
  GatesSuffice EmittedIsProtected VerdictIsStable
CHECK_DEADLOCK FALSE
