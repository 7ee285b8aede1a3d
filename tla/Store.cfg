SPECIFICATION StoreSpec
CONSTANTS
  Procs = {p1}
  Packages = {"demo", "libc"}
  Versions = {"1", "2"}
  Files = {f1, f2, f3}
  NoFile = NoFile
  Posix = FALSE
  MayCrash = TRUE
  MaxCommands = 5
INVARIANTS
  StoreInv ListReflectsCommands NeverStale
PROPERTIES
  ImplementsRegistry
CHECK_DEADLOCK FALSE
