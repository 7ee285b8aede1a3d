SPECIFICATION StudioSpec
CONSTANTS
  Names = {"main", "add"}
  NoName = NoName
  Sources = {"doc"}
  Others = {}
  Texts <- MCTexts
  Lines = {1, 2}
  Ids = {1, 2, 3}
  Methods = {"didOpen", "didChange", "initialize", "completion", "definition"}
  IndexDocCap = 1
  SymbolCap = 3
  LocationCap = 4
  RenameCap = 4
  EditCap = 2
  OutCap = 5
  OutSize = 5
  DocCap = 1
  SemCacheCap = 1
  Main = "main"
  Checksum <- MCChecksum
  NoUri = NoUri
  Doc = "doc"
  InitialText <- CallsAdd
  TextMode = TRUE
  MaxEdits = 2
  MaxAsks = 2
INVARIANTS
  VerdictIsDisplayed
CHECK_DEADLOCK FALSE
