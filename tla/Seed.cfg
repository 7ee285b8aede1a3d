CONSTANTS
  p1 = p1
  p2 = p2
  Procs = {p1, p2}
  Names = {"f", "g", "main", "x", "y"}
  Numbers = {"1", "2"}
  Height = 5
  FirstBlock = 4096
  Factors = {1, 2, 4}
  Align = 8
  Kinds <- Kind
  Size <- MCSize
  Texts <- MCTexts
  WellFormed <- Right
  Outs = {"a", "b"}
  CPaths = {"aegc0_out.c", "other.c"}
  Jobs <- MCJobs
  Fns <- ParsedFns
  Accepts <- AcceptedText
  Checked <- CheckedText
  CTakes <- CompiledText
  ParseAllocs <- ParserRequests
  SemaAllocs <- CheckRequests
  Absent = Absent
  Empty = Empty
  Garbled = Garbled
  Windows = TRUE
  MayCrash = TRUE
  DiskMayFill = TRUE
SPECIFICATION SeedSpec
INVARIANTS
  ParseIsFaithful
  SemaIsScoped
  SameMeaning
  MemoryIsSound
  BuildsOwnProgram
CHECK_DEADLOCK FALSE
