------------------------------ MODULE LspServer ------------------------------
(***************************************************************************)
(* The message loop of nprt-lsp (src/src/lsp/nprt-lsp/main.c).  One step   *)
(* is one turn of the loop in main: a message is read, its handler runs to *)
(* the end and writes at most one message.                                 *)
(***************************************************************************)
EXTENDS LspIndex

CONSTANTS DocCap,        \* slots of main.c's document table (64)
          SemCacheCap,   \* slots of the semantic token cache (64)
          EditCap,       \* edits of one document a rename has room for (66 short ones)
          OutCap,        \* edits behind which a rename's reply is called full (266)
          OutSize,       \* edits its buffer has room for (270)
          Main,          \* the identifier `main'
          Checksum,      \* text_checksum, for every text that can arrive
          NoUri          \* the empty uri of the diagnostic slot and the preview

ASSUME DocCapAssumption == DocCap \in Nat \ {0} /\ DocCap <= IndexDocCap
ASSUME EditCapsAssumption ==
  /\ EditCap \in Nat \ {0} /\ OutCap \in Nat /\ OutSize \in Nat
  /\ EditCap <= RenameCap /\ 2 * EditCap < OutCap /\ OutCap <= OutSize
ASSUME SemCacheCapAssumption == SemCacheCap \in Nat \ {0}
ASSUME ChecksumAssumption == Checksum \in [ServerTexts -> Nat]
ASSUME NoUriAssumption == NoUri \notin Uris

VARIABLES
  running,    \* the loop of main has not ended
  docs,       \* g_docs of main.c
  diagSlot,   \* g_diag_cache_uri, and whether g_diag_cache_message is set
  semCache,   \* g_sem_cache
  preview,    \* the document of g_last_refactor_preview
  nextId,     \* g_next_id
  request,    \* the message the last turn read
  sent,       \* the message the last turn wrote
  editor,     \* history: the text the editor last sent for a document
  opened,     \* history: the documents the editor has open
  shown       \* history: the verdict last published for a document

serverVars == <<running, docs, diagSlot, semCache, preview, nextId, request, sent>>
historyVars == <<editor, opened, shown>>
vars == <<indexVars, serverVars, historyVars>>

Verdicts == {"none", "clear", "error"}
Verdict(text) == IF Parses(text) THEN "clear" ELSE "error"

NoDiagnostic == [uri |-> NoUri, error |-> FALSE]

Init ==
  /\ IndexInit
  /\ running = TRUE
  /\ docs = <<>>
  /\ diagSlot = NoDiagnostic
  /\ semCache = {}
  /\ preview = NoUri
  /\ nextId = 1
  /\ request = NoMessage
  /\ sent = Silence
  /\ editor = <<>>
  /\ opened = {}
  /\ shown = [uri \in Uris |-> "none"]

Known(uri) == Holds(docs, uri)
Text(uri)  == TextOf(docs, uri)

\* find_doc and extract_symbol_at, the way most position handlers begin.
SymbolAt(req) == Known(req.uri) /\ OccursAt(Text(req.uri), req.line, req.name)

-----------------------------------------------------------------------------
(* Opening and changing documents.                                         *)

\* Mutant: the verdict is remembered but published only when it is an error.
AnalyzeAndPublishErrors(uri, text) ==
  /\ diagSlot' = [uri |-> uri, error |-> ~Parses(text)]
  /\ IF Parses(text) THEN sent' = Silence /\ shown' = shown
     ELSE sent' = Publish(uri, TRUE) /\ shown' = [shown EXCEPT ![uri] = "error"]

\* analyze_and_publish: parse, remember the verdict in the one slot, publish.
AnalyzeAndPublish(uri, text) ==
  /\ diagSlot' = [uri |-> uri, error |-> ~Parses(text)]
  /\ sent' = Publish(uri, ~Parses(text))
  /\ shown' = [shown EXCEPT ![uri] = Verdict(text)]

\* on_did_open_or_change: a document that is no source text only has its
\* diagnostics cleared; a source text is stored, indexed and analysed, unless
\* the table is full, and then nothing is written at all.
DidOpenOrChange(req) ==
  /\ req \in DocumentUpdates
  /\ editor' = IF req.uri \in Sources
               THEN [uri \in DOMAIN editor \cup {req.uri} |->
                       IF uri = req.uri THEN req.text ELSE editor[uri]]
               ELSE editor
  /\ opened' = opened \cup {req.uri}
  /\ LET text == Received(req.text) IN
     \/ /\ req.uri \in Others
        /\ sent' = Publish(req.uri, FALSE)
        /\ shown' = [shown EXCEPT ![req.uri] = "clear"]
        /\ UNCHANGED <<docs, diagSlot, indexVars>>
     \/ /\ req.uri \in Sources
        /\ HasRoom(docs, DocCap, req.uri)
        /\ docs' = Stored(docs, req.uri, text)
        /\ UpsertDoc(req.uri, text)
        /\ AnalyzeAndPublish(req.uri, text)
     \/ /\ req.uri \in Sources
        /\ ~HasRoom(docs, DocCap, req.uri)
        /\ sent' = Silence
        /\ UNCHANGED <<docs, diagSlot, indexVars, shown>>
  /\ UNCHANGED <<running, semCache, preview, nextId>>

-----------------------------------------------------------------------------
(* Requests with an answer from the documents and the index alone.         *)

\* A handler that only answers.
Answer(req, result) ==
  /\ sent' = Respond(req.id, result)
  /\ UNCHANGED <<running, docs, diagSlot, semCache, preview, nextId,
                 indexVars, historyVars>>

\* handle_definition
Definition(req) ==
  /\ req.method = "definition"
  /\ Answer(req, IF SymbolAt(req) THEN FindDefinition(req.name, req.uri) ELSE Null)

\* handle_type_definition and handle_implementation: only the asking document.
OwnDeclaration(req) ==
  \/ /\ req.method = "typeDefinition"
     /\ Answer(req, IF SymbolAt(req) /\ DeclLine(Text(req.uri), req.name) > 0
                    THEN Location(req.uri, DeclLine(Text(req.uri), req.name))
                    ELSE Null)
  \/ /\ req.method = "implementation"
     /\ LET places == {[uri |-> req.uri, line |-> i] :
                         i \in FnLines(Text(req.uri), req.name)}
        IN Answer(req, Locations(IF SymbolAt(req) THEN SetToSeq(places) ELSE <<>>))

\* handle_references
References(req) ==
  /\ req.method = "references"
  /\ Answer(req,
       IF SymbolAt(req)
       THEN Locations(Prefix(FindReferences(req.name, req.comments), LocationCap))
       ELSE Locations(<<>>))

\* Mutant: only the asking document is edited.
RenameHere(req) ==
  /\ req.method = "rename"
  /\ LET found == Prefix(FindReferences(req.name, req.comments), RenameCap)
     IN Answer(req, IF SymbolAt(req)
                    THEN Edits(Only(found, {place \in Range(found) : place.uri = req.uri}))
                    ELSE Null)

\* The edits of a document: of the references found, those that lie in it, as
\* far as its buffer takes them.
EditsOf(uri, found) ==
  Prefix(Only(found, {place \in Range(found) : place.uri = uri}), EditCap)

\* The edits of the first n documents, and how much of the reply they fill: a
\* document with edits has an entry of its own, about as long as an edit.
EditsUpTo(n, found) == FlattenSeq([i \in 1 .. n |-> EditsOf(docs[i].uri, found)])
Filled(n, found) ==
  Len(EditsUpTo(n, found))
    + Cardinality({i \in 1 .. n : EditsOf(docs[i].uri, found) # <<>>})

\* The document with which the loop of handle_rename ends: the first behind
\* which the reply is full, or the last one.
LastEdited(found) ==
  LET full == {n \in DOMAIN docs : Filled(n, found) >= OutCap}
  IN IF full = {} THEN Len(docs) ELSE Min(full)

\* handle_rename: for each document until the reply is full, the edits of the
\* first RenameCap references that lie in it.  The last entry is written even
\* where the buffer has no room for it.
Rename(req) ==
  /\ req.method = "rename"
  /\ LET found == Prefix(FindReferences(req.name, req.comments), RenameCap)
         last  == LastEdited(found)
     IN Answer(req, IF ~SymbolAt(req) THEN Null
                    ELSE IF Filled(last, found) > OutSize THEN Overrun
                    ELSE Edits(EditsUpTo(last, found)))

\* handle_hover
Hover(req) ==
  /\ req.method = "hover"
  /\ Answer(req, IF SymbolAt(req)
                 THEN Card(TypeExpr(req.name), SymbolDoc(req.name)) ELSE Null)

\* handle_prepare_rename and handle_selection_range: an answer about the
\* identifier under the cursor.
PrepareRename(req) ==
  req.method = "prepareRename" /\ Answer(req, IF SymbolAt(req) THEN Info ELSE Null)

SelectionRange(req) ==
  req.method = "selectionRange" /\ Answer(req, IF SymbolAt(req) THEN Info ELSE Null)

\* handle_signature_help: the cursor is behind a name and a parenthesis; only
\* the functions of the same text have a signature.
SignatureHelp(req) ==
  /\ req.method = "signatureHelp"
  /\ Answer(req, IF SymbolAt(req) /\ FnLines(Text(req.uri), req.name) # {} THEN Info ELSE Null)

\* handle_completion: a position outside the text completes the empty prefix.
Completion(req) ==
  /\ req.method = "completion"
  /\ Answer(req, Labels(IF ~Known(req.uri) THEN {}
                        ELSE Completions(IF SymbolAt(req) THEN req.name ELSE NoName)))

\* handle_document_symbol and handle_workspace_symbol with an empty query.
SymbolList(req) ==
  \/ req.method = "documentSymbol" /\ Answer(req, Symbols(DocumentSymbols(req.uri)))
  \/ req.method = "workspaceSymbol" /\ Answer(req, Labels(Completions(NoName)))

\* handle_document_formatting: the whole text with its blanks normalised,
\* when that changes anything.
Formatting(req) ==
  /\ req.method = "formatting"
  /\ Answer(req, IF Known(req.uri) /\ NormalizeSpaces(Text(req.uri)) # Text(req.uri)
                 THEN TextEdit(NormalizeSpaces(Text(req.uri))) ELSE Null)

\* handle_range_formatting, of which every answer is an edit.
RangeFormatting(req) ==
  /\ req.method = "rangeFormatting"
  /\ Answer(req, IF Known(req.uri)
                 THEN TextEdit(NormalizeSpaces(InRange(Text(req.uri), req.first, req.last)))
                 ELSE Null)

\* handle_inlay_hint: a debugger state or a trace lying in the cache directory
\* adds its first line to every hint.
InlayHint(req) ==
  /\ req.method = "inlayHint"
  /\ \E runtime \in BOOLEAN :
       Answer(req, IF Known(req.uri) THEN HintsAt(Hints(Text(req.uri)), runtime)
                                     ELSE Null)

\* handle_folding_range
FoldingRange(req) ==
  /\ req.method = "foldingRange"
  /\ Answer(req, IF Known(req.uri) /\ Folds(Text(req.uri)) # {} THEN Info ELSE Null)

\* Mutant: the slot's document is not compared.
PullAnyDiagnostic(req) ==
  /\ req.method = "diagnostic"
  /\ Answer(req, Items(diagSlot.error))

\* handle_pull_diagnostic: only the document of the one slot can have items.
PullDiagnostic(req) ==
  /\ req.method = "diagnostic"
  /\ Answer(req, Items(diagSlot.uri = req.uri /\ diagSlot.error))

\* handle_refactor_preview, and handle_execute_command with nprt.previewRefactor.
RefactorPreview(req) ==
  /\ req.method = "refactorPreview"
  /\ Answer(req, Preview(preview))

\* shutdown is answered and changes nothing: later requests are served.  The
\* other commands of handle_execute_command are only acknowledged.
Acknowledge(req) ==
  /\ req.method \in {"shutdown", "executeCommand"}
  /\ Answer(req, Info)

-----------------------------------------------------------------------------
(* Requests that change the state of the server.                           *)

\* Mutant: the checksum of the entry is not compared.
HitOnPayload(entry, sum) == entry.payload # <<>>

\* The cache entry answers for a text with this checksum.
Hit(entry, sum) == entry.sum = sum /\ entry.payload # <<>>

\* handle_semantic_tokens_full: sem_cache_for finds the document's entry or
\* takes a free slot; an entry with the checksum of the text and a payload is
\* answered from, otherwise the tokens are computed and remembered.
SemanticTokens(req) ==
  /\ req.method = "semanticTokens"
  /\ LET text  == Text(req.uri)
         sum   == Checksum[text]
         mine  == {e \in semCache : e.uri = req.uri}
         hits  == {e \in mine : Hit(e, sum)}
         fresh == [uri |-> req.uri, sum |-> sum, payload |-> Tokens(text)]
     IN \/ /\ ~Known(req.uri)
           /\ sent' = Respond(req.id, TokenData(<<>>))
           /\ UNCHANGED semCache
        \/ /\ Known(req.uri)
           /\ \E e \in hits : sent' = Respond(req.id, TokenData(e.payload))
           /\ UNCHANGED semCache
        \/ /\ Known(req.uri) /\ hits = {}
           /\ sent' = Respond(req.id, TokenData(Tokens(text)))
           /\ semCache' = IF mine # {} \/ Cardinality(semCache) < SemCacheCap
                          THEN (semCache \ mine) \cup {fresh} ELSE semCache
  /\ UNCHANGED <<running, docs, diagSlot, preview, nextId, indexVars, historyVars>>

\* handle_code_action: the preview is replaced only for a text without `fn main'.
CodeAction(req) ==
  /\ req.method = "codeAction"
  /\ sent' = Respond(req.id, IF Known(req.uri) THEN Info ELSE Null)
  /\ preview' = IF Known(req.uri) /\ FnLines(Text(req.uri), Main) = {}
                THEN req.uri ELSE preview
  /\ UNCHANGED <<running, docs, diagSlot, semCache, nextId, indexVars, historyVars>>

\* initialize is answered under the request's id, or a fresh one if it is 0.
Initialize(req) ==
  /\ req.method = "initialize"
  /\ sent' = Respond(IF req.id # 0 THEN req.id ELSE nextId, Info)
  /\ nextId' = IF req.id # 0 THEN nextId ELSE nextId + 1
  /\ UNCHANGED <<running, docs, diagSlot, semCache, preview, indexVars, historyVars>>

-----------------------------------------------------------------------------
\* main has no branch for didClose or for a method it does not know.
Ignore(req) ==
  /\ req.method \in {"didClose", "unknown"}
  /\ opened' = IF req.method = "didClose" THEN opened \ {req.uri} ELSE opened
  /\ sent' = Silence
  /\ UNCHANGED <<running, docs, diagSlot, semCache, preview, nextId,
                 indexVars, editor, shown>>

\* exit, or the end of the input, ends the loop.
Exit(req) ==
  /\ req.method = "exit"
  /\ running' = FALSE
  /\ sent' = Silence
  /\ UNCHANGED <<docs, diagSlot, semCache, preview, nextId, indexVars, historyVars>>

\* One turn of the loop of main.
Handle(req) ==
  /\ running
  /\ request' = req
  /\ \/ DidOpenOrChange(req)
     \/ Definition(req)     \/ OwnDeclaration(req) \/ References(req)
     \/ Rename(req)         \/ Hover(req)          \/ PrepareRename(req)
     \/ SelectionRange(req) \/ SignatureHelp(req)
     \/ Completion(req)     \/ SymbolList(req)     \/ Formatting(req)
     \/ RangeFormatting(req) \/ InlayHint(req)
     \/ FoldingRange(req)   \/ PullDiagnostic(req) \/ RefactorPreview(req)
     \/ Acknowledge(req)    \/ SemanticTokens(req) \/ CodeAction(req)
     \/ Initialize(req)     \/ Ignore(req)         \/ Exit(req)

Next == \E req \in Messages : Handle(req)

Spec == Init /\ [][Next]_vars

-----------------------------------------------------------------------------
(* Properties.                                                             *)

\* The tables hold what they are declared to hold, within their capacities.
TypeOK ==
  /\ running \in BOOLEAN
  /\ docs \in Seq(Entry) /\ Len(docs) <= DocCap
  /\ indexDocs \in Seq(Entry) /\ Len(indexDocs) <= IndexDocCap
  /\ diagSlot \in [uri : Uris \cup {NoUri}, error : BOOLEAN]
  /\ \A e \in semCache : e.uri \in Sources /\ e.sum \in Nat
  /\ preview \in Sources \cup {NoUri}
  /\ nextId \in Nat
  /\ request \in Messages \cup {NoMessage}
  /\ opened \subseteq Uris
  /\ DOMAIN editor \subseteq Sources
  /\ \A uri \in DOMAIN editor : editor[uri] \in Texts
  /\ shown \in [Uris -> Verdicts]

\* main.c and index.c each keep a document table of their own, of different
\* capacities; the two never disagree on which documents there are, on their
\* texts or on their order, and neither holds a document twice.  Handlers read
\* positions from one table and answer from the other.
TablesAgree ==
  /\ indexDocs = docs
  /\ \A i, j \in DOMAIN docs : docs[i].uri = docs[j].uri => i = j

\* Every served document is stored as the server received its latest text,
\* and the verdict the editor was last shown for it is the verdict on that
\* text, whatever was opened, changed or asked in between.
DiagnosticsFollowText ==
  \A i \in DOMAIN docs :
    /\ docs[i].text = Received(editor[docs[i].uri])
    /\ shown[docs[i].uri] = Verdict(docs[i].text)

\* A cache entry holds the tokens of a text that has its checksum.
CacheRemembers ==
  \A e \in semCache :
    \E text \in ServerTexts : e.sum = Checksum[text] /\ e.payload = Tokens(text)

\* An error in the diagnostic slot is that of a served document, and is still
\* on the editor's screen.
SlotWasShown ==
  diagSlot.error => Known(diagSlot.uri) /\ shown[diagSlot.uri] = "error"

\* The symbols index.c answers from are those of the texts main.c holds now, in
\* its order: none of an earlier text is left and none is listed twice, whatever
\* was opened, changed or refused before.
IndexFollows == symbols = SymbolsOf(docs)

\* The inductive invariant: no turn of the loop can leave it, from whatever
\* state that satisfies it.  Each cache is tied to the text or the message it
\* was filled from, which the properties about answers rest on.
IInv ==
  /\ TypeOK
  /\ TablesAgree
  /\ \A i \in DOMAIN docs : docs[i].uri \in DOMAIN editor
  /\ DiagnosticsFollowText
  /\ CacheRemembers
  /\ SlotWasShown
  /\ IndexFollows

\* Tokens answered from the cache are the tokens of the present text, however
\* often the text went back and forth between versions.
TokensAreCurrent ==
  request.method = "semanticTokens" /\ Known(request.uri)
    => sent.result.data = Tokens(Text(request.uri))

\* The place a definition request is sent to declares the name in the present
\* text of that document.
DefinitionIsCurrent ==
  request.method = "definition" /\ sent.result.kind = "location"
    => LET there == sent.result IN
       /\ Known(there.uri)
       /\ there.line \in DOMAIN Text(there.uri)
       /\ Declares(Text(there.uri)[there.line])
       /\ Text(there.uri)[there.line].name = request.name

\* The diagnostic a pull returns is one the editor was pushed and that was
\* not withdrawn since.
PullNeverInvents ==
  request.method = "diagnostic" /\ sent.result.error
    => shown[request.uri] = "error"

\* The places of the served texts a name stands at.
Occurrences(name, comments) ==
  {p \in [uri : Sources, line : Lines, column : WordColumns] :
     /\ Known(p.uri) /\ Stands(Text(p.uri), p.line, p.column, name)
     /\ comments \/ ~IsComment(Text(p.uri)[p.line])}

\* A rename edits nothing but occurrences of the name in served documents, none
\* of them twice, and it edits all of them as long as they are no more than the
\* buffer of one document's edits takes, however they lie in the documents and
\* although four limits cut the references, the edits and the reply.
RenameIsComplete ==
  request.method = "rename" /\ sent.result.kind \in {"edits", "overrun"}
    => LET all == Occurrences(request.name, request.comments)
           few == Cardinality(all) <= EditCap
       IN /\ sent.result.kind = "overrun" => ~few
          /\ sent.result.kind = "edits" =>
               /\ IsInjective(sent.result.places)
               /\ ToSet(sent.result.places) \subseteq all
               /\ few => ToSet(sent.result.places) = all

\* g_docs keeps closed documents.  Still, a source the editor opened goes
\* unserved only for want of a slot: none is lost to a change of another one,
\* to a failed update or to closing and opening it again.
ServedUnlessFull ==
  \A uri \in opened \cap Sources : Known(uri) \/ Len(docs) = DocCap

\* The texts the server serves are those of its table.
Served == [uri \in {docs[i].uri : i \in DOMAIN docs} |-> Text(uri)]

\* The server implements the abstract language service: its tables, caches and
\* slots never show.
Service == INSTANCE LanguageService WITH
  Capacity <- DocCap, ListLimit <- LocationCap, EditLimit <- EditCap, served <- Served, asked <- request, answer <- sent
ServesDocuments == Service!ServiceSpec
=============================================================================
