---------------------------- MODULE LspMessages ----------------------------
(***************************************************************************)
(* The JSON-RPC messages between an editor and nprt-lsp.  Positions and    *)
(* ranges are kept to the line, those of an occurrence of a name to the    *)
(* word on the line; a request for a position names the identifier the     *)
(* user sees there.                                                        *)
(***************************************************************************)
EXTENDS LspText

CONSTANTS Sources,  \* documents whose extension has the kind "source"
          Others,   \* documents with any other extension
          Texts,    \* the texts the editor may send
          Lines,    \* the lines the editor may ask about
          Ids,      \* the ids the editor gives its requests
          Methods   \* the methods the editor uses

ASSUME TextsAssumption == Texts \subseteq Seq(Line)
ASSUME DocumentsAssumption == Sources \cap Others = {}

Uris == Sources \cup Others

\* The texts that can reach the document table.
ServerTexts == {Received(text) : text \in Texts}

\* The columns of their words.
WordColumns == UNION {UNION {DOMAIN text[k].words : k \in DOMAIN text} : text \in ServerTexts}

-----------------------------------------------------------------------------
(* Messages of the editor, by the method that main dispatches on.          *)

PositionMethods == {"definition", "typeDefinition", "implementation", "hover",
                    "prepareRename", "selectionRange", "signatureHelp",
                    "completion"}
WorkspaceEditMethods == {"references", "rename"}
DocumentMethods == {"semanticTokens", "codeAction", "diagnostic",
                    "documentSymbol", "formatting", "foldingRange", "inlayHint"}
RangeMethods == {"rangeFormatting"}
PlainMethods == {"initialize", "shutdown", "workspaceSymbol",
                 "refactorPreview", "executeCommand", "unknown"}

DocumentUpdates == [method : {"didOpen", "didChange"}, uri : Uris, text : Texts]
DocumentClosings == [method : {"didClose"}, uri : Uris]
PositionRequests ==
  [method : PositionMethods, id : Ids, uri : Uris, line : Lines, name : Names]
WorkspaceEditRequests ==
  [method : WorkspaceEditMethods, id : Ids, uri : Uris, line : Lines,
   name : Names, comments : BOOLEAN]
DocumentRequests == [method : DocumentMethods, id : Ids, uri : Uris]
RangeRequests ==
  [method : RangeMethods, id : Ids, uri : Uris, first : Lines, last : Lines]
PlainRequests == [method : PlainMethods, id : Ids]
Exits == [method : {"exit"}]

Requests == PositionRequests \cup WorkspaceEditRequests
              \cup DocumentRequests \cup RangeRequests \cup PlainRequests
Messages ==
  {message \in DocumentUpdates \cup DocumentClosings \cup Requests \cup Exits :
     message.method \in Methods}

-----------------------------------------------------------------------------
(* Messages of the server.                                                 *)

Silence == [type |-> "silence"]      \* the handler wrote nothing
NoMessage == [method |-> "none"]     \* no message was read yet

Publish(uri, error) == [type |-> "publish", uri |-> uri, error |-> error]
Respond(id, result) == [type |-> "response", id |-> id, result |-> result]

Null == [kind |-> "null"]
Location(uri, line) == [kind |-> "location", uri |-> uri, line |-> line]
Locations(places) == [kind |-> "locations", places |-> places]
Edits(places) == [kind |-> "edits", places |-> places]
Symbols(list) == [kind |-> "symbols", list |-> list]
TokenData(data) == [kind |-> "tokens", data |-> data]
Items(error) == [kind |-> "items", error |-> error]
Labels(names) == [kind |-> "labels", names |-> names]
Preview(uri) == [kind |-> "preview", uri |-> uri]
Card(type, documented) ==
  [kind |-> "card", type |-> type, documented |-> documented]
TextEdit(text) == [kind |-> "textEdit", text |-> text]
HintsAt(lines, runtime) ==
  [kind |-> "hints", lines |-> lines, runtime |-> runtime]
Info == [kind |-> "info"]            \* a result no property looks into
Overrun == [kind |-> "overrun"]      \* what is sent of a reply written past its buffer
=============================================================================
