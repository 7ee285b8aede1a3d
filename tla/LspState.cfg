SPECIFICATION Spec
CONSTANTS
  Names = {"main", "add"}
  NoName = NoName
  Sources = {"a", "b", "c"}
  Others = {}
  Texts <- MCFewTexts
  Lines = {1, 2}
  Ids = {7}
  Methods = {"didOpen", "didChange", "semanticTokens", "codeAction", "diagnostic", "refactorPreview", "executeCommand", "didClose"}
  IndexDocCap = 3
  SymbolCap = 3
  LocationCap = 4
  RenameCap = 4
  EditCap = 2
  OutCap = 5
  OutSize = 5
  DocCap = 2
  SemCacheCap = 1
  Main = "main"
  Checksum <- MCChecksum
  NoUri = NoUri
INVARIANTS
  IInv DiagnosticsFollowText TokensAreCurrent PullNeverInvents ServedUnlessFull
CHECK_DEADLOCK FALSE
