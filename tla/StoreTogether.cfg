SPECIFICATION StoreSpec
CONSTANTS
  Procs = {p1, p2}
  Packages = {"demo", "libc"}
  Versions = {"1", "2"}
  Files = {f1, f2, f3, f4, f5, f6}
  NoFile = NoFile
  Posix = FALSE
  MayCrash = FALSE
  MaxCommands = 3
INVARIANTS
  ListReflectsCommands
CHECK_DEADLOCK FALSE
