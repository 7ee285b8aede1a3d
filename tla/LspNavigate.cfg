SPECIFICATION Spec
CONSTANTS
  Names = {"main", "add"}
  NoName = NoName
  Sources = {"a", "b"}
  Others = {"cfg"}
  Texts <- MCTexts
  Lines = {1, 2}
  Ids = {7}
  Methods = {"didOpen", "didChange", "definition", "typeDefinition", "implementation", "hover", "prepareRename", "selectionRange", "signatureHelp", "completion", "references", "rename", "documentSymbol", "workspaceSymbol", "foldingRange", "formatting", "rangeFormatting", "inlayHint", "initialize", "shutdown", "unknown", "exit"}
  IndexDocCap = 3
  SymbolCap = 3
  LocationCap = 4
  RenameCap = 5
  EditCap = 2
  OutCap = 5
  OutSize = 5
  DocCap = 2
  SemCacheCap = 1
  Main = "main"
  Checksum <- MCChecksum
  NoUri = NoUri
INVARIANTS
  TablesAgree DefinitionIsCurrent RenameIsComplete
PROPERTIES
  ServesDocuments
CHECK_DEADLOCK FALSE
