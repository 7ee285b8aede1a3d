--------------------------- MODULE LspServerProofs ---------------------------
(***************************************************************************)
(* Theorems about LspServer, for any documents, texts and capacities, and  *)
(* about StudioLsp, where Studio sends it what it sends through two pipes. *)
(***************************************************************************)
EXTENDS StudioLsp, DataLemmas, FiniteSetTheorems

\* Storing a document leaves a table of entries, longer by at most one, and
\* longer only if the document was new.
LEMMA StoredIsTable ==
  ASSUME NEW table \in Seq(Entry), NEW uri \in Sources, NEW text \in ServerTexts
  PROVE  /\ Stored(table, uri, text) \in Seq(Entry)
         /\ Len(Stored(table, uri, text)) =
              IF Holds(table, uri) THEN Len(table) ELSE Len(table) + 1
<1> DEFINE e == [uri |-> uri, text |-> text]
<1>0. e \in Entry
  BY DEF Entry
<1>1. CASE Holds(table, uri)
  <2> DEFINE new == [i \in DOMAIN table |-> IF table[i].uri = uri THEN e ELSE table[i]]
  <2>1. new \in [1 .. Len(table) -> Entry]
    BY <1>0
  <2>2. new \in Seq(Entry) /\ Len(new) = Len(table)
    BY <2>1
  <2> QED
    BY <1>1, <2>2 DEF Stored
<1>2. CASE ~Holds(table, uri)
  BY <1>0, <1>2 DEF Stored
<1> QED
  BY <1>1, <1>2

\* An entry of the new table is the stored one, or an old one of another
\* document at its old place.
LEMMA StoredEntries ==
  ASSUME NEW table \in Seq(Entry), NEW uri \in Sources, NEW text \in ServerTexts,
         NEW i \in DOMAIN Stored(table, uri, text)
  PROVE  \/ /\ Stored(table, uri, text)[i] = [uri |-> uri, text |-> text]
            /\ i \in DOMAIN table => table[i].uri = uri
            /\ i \notin DOMAIN table => i = Len(table) + 1 /\ ~Holds(table, uri)
         \/ /\ i \in DOMAIN table
            /\ Stored(table, uri, text)[i] = table[i]
            /\ table[i].uri # uri
<1>1. CASE Holds(table, uri)
  BY <1>1 DEF Stored
<1>2. CASE ~Holds(table, uri)
  BY <1>2 DEF Stored, Holds
<1> QED
  BY <1>1, <1>2

\* A table that holds no document twice does not come to hold one twice.
LEMMA StoredOnce ==
  ASSUME NEW table \in Seq(Entry), NEW uri \in Sources, NEW text \in ServerTexts,
         \A i, j \in DOMAIN table : table[i].uri = table[j].uri => i = j
  PROVE  \A i, j \in DOMAIN Stored(table, uri, text) :
            Stored(table, uri, text)[i].uri = Stored(table, uri, text)[j].uri => i = j
<1> DEFINE new == Stored(table, uri, text)
<1>1. SUFFICES ASSUME NEW i \in DOMAIN new, NEW j \in DOMAIN new, new[i].uri = new[j].uri
               PROVE  i = j
  OBVIOUS
<1>2. [uri |-> uri, text |-> text].uri = uri
  OBVIOUS
<1> HIDE DEF new
<1>3. \A k \in DOMAIN new :
        \/ /\ new[k] = [uri |-> uri, text |-> text]
           /\ k \in DOMAIN table => table[k].uri = uri
           /\ k \notin DOMAIN table => k = Len(table) + 1 /\ ~Holds(table, uri)
        \/ /\ k \in DOMAIN table /\ new[k] = table[k] /\ table[k].uri # uri
  BY StoredEntries DEF new
<1> QED
  BY <1>1, <1>2, <1>3 DEF Holds

\* Storing a document drops none.
LEMMA StoredKeeps ==
  ASSUME NEW table \in Seq(Entry), NEW uri \in Sources, NEW text \in ServerTexts
  PROVE  /\ Holds(Stored(table, uri, text), uri)
         /\ \A other : Holds(table, other) => Holds(Stored(table, uri, text), other)
<1> DEFINE e == [uri |-> uri, text |-> text]
<1>1. CASE Holds(table, uri)
  <2> DEFINE new == [i \in DOMAIN table |-> IF table[i].uri = uri THEN e ELSE table[i]]
  <2>1. \A i \in DOMAIN table : new[i].uri = table[i].uri
    OBVIOUS
  <2>2. DOMAIN new = DOMAIN table /\ Stored(table, uri, text) = new
    BY <1>1 DEF Stored
  <2> HIDE DEF new
  <2> QED
    BY <1>1, <2>1, <2>2 DEF Holds
<1>2. CASE ~Holds(table, uri)
  <2> DEFINE new == Append(table, e)
  <2>1. /\ Len(table) + 1 \in DOMAIN new /\ new[Len(table) + 1] = e
        /\ \A i \in DOMAIN table : i \in DOMAIN new /\ new[i] = table[i]
    OBVIOUS
  <2>2. Stored(table, uri, text) = new /\ e.uri = uri
    BY <1>2 DEF Stored
  <2> HIDE DEF new, e
  <2> QED
    BY <2>1, <2>2 DEF Holds
<1> QED
  BY <1>1, <1>2

\* The text of a document the table holds is that of one of its entries.
LEMMA TextOfEntry ==
  ASSUME NEW table \in Seq(Entry), NEW uri, Holds(table, uri)
  PROVE  /\ uri \in Sources
         /\ TextOf(table, uri) \in ServerTexts
         /\ \E i \in DOMAIN table : table[i] = [uri |-> uri, text |-> TextOf(table, uri)]
<1> DEFINE i == CHOOSE k \in DOMAIN table : table[k].uri = uri
<1>1. i \in DOMAIN table /\ table[i].uri = uri
  BY DEF Holds
<1>2. table[i] \in Entry
  BY <1>1
<1>3. TextOf(table, uri) = table[i].text
  BY DEF TextOf
<1> QED
  BY <1>1, <1>2, <1>3 DEF Entry

\* An empty table has no symbols.
LEMMA NothingIndexed == SymbolsOf(<<>>) = <<>>
<1> DEFINE blocks == [i \in DOMAIN << >> |-> SymbolsIn(<< >>[i].uri, << >>[i].text)]
<1>1. blocks = <<>> /\ <<>> \in Seq(Seq({}))
  OBVIOUS
<1>2. FlattenSeq(<<>>) \in Seq({})
  BY <1>1, FlattenHolds, Zenon
<1>3. FlattenSeq(<<>>) = <<>>
  BY <1>2
<1>4. FlattenSeq(blocks) = <<>>
  BY <1>1, <1>3
<1>5. SubSeq(FlattenSeq(blocks), 1, Min({Len(FlattenSeq(blocks)), SymbolCap})) = <<>>
  <2>1. Min({0, SymbolCap}) = 0
    BY IndexCapsAssumption DEF Min
  <2> QED
    BY <1>4, <2>1
<1> QED
  BY <1>5, Zenon DEF SymbolsOf

-----------------------------------------------------------------------------
(* The inductive invariant, action by action.                              *)

\* It holds before the first message is read.
LEMMA InitInvariant == Init => IInv
<1> SUFFICES ASSUME Init PROVE IInv
  OBVIOUS
<1> USE DEF Init, IndexInit
<1>1. TypeOK
  BY DocCapAssumption, IndexCapsAssumption DEF TypeOK, NoDiagnostic, Verdicts
<1>2. TablesAgree
  BY DEF TablesAgree
<1>3. CacheRemembers /\ SlotWasShown
  BY DEF CacheRemembers, SlotWasShown, NoDiagnostic
<1>5. IndexFollows
  BY NothingIndexed DEF IndexFollows
<1>4. DiagnosticsFollowText /\ \A i \in DOMAIN docs : docs[i].uri \in DOMAIN editor
  BY DEF DiagnosticsFollowText
<1> QED
  BY <1>1, <1>2, <1>3, <1>4, <1>5 DEF IInv

\* What the state but the last exchange is made of.
stateVars == <<running, docs, diagSlot, semCache, preview, nextId, indexVars, historyVars>>

\* A turn that only answers, or writes nothing, keeps the invariant.
LEMMA AnswerKeepsInvariant ==
  ASSUME IInv, NEW req \in Messages, request' = req, UNCHANGED stateVars
  PROVE  IInv'
<1> USE DEF stateVars, indexVars, historyVars
<1>1. TypeOK'
  BY DEF IInv, TypeOK
<1>2. TablesAgree' /\ CacheRemembers' /\ SlotWasShown' /\ IndexFollows'
  BY DEF IInv, TablesAgree, CacheRemembers, SlotWasShown, Known, IndexFollows
<1>3. DiagnosticsFollowText' /\ (\A i \in DOMAIN docs : docs[i].uri \in DOMAIN editor)'
  BY DEF IInv, DiagnosticsFollowText
<1> QED
  BY <1>1, <1>2, <1>3 DEF IInv

\* Opening or changing a document keeps it: both tables store the same text,
\* and its verdict replaces what the editor was shown before.
LEMMA DidOpenOrChangeKeepsInvariant ==
  ASSUME IInv, NEW req \in Messages, request' = req, DidOpenOrChange(req)
  PROVE  IInv'
<1> DEFINE text == Received(req.text)
<1>1. req \in DocumentUpdates /\ req.uri \in Uris /\ req.text \in Texts
  BY DEF DidOpenOrChange, DocumentUpdates
<1>2. text \in ServerTexts
  BY <1>1 DEF ServerTexts
<1>3. /\ TypeOK /\ TablesAgree /\ DiagnosticsFollowText /\ CacheRemembers /\ SlotWasShown
      /\ IndexFollows
      /\ \A i \in DOMAIN docs : docs[i].uri \in DOMAIN editor
  BY DEF IInv
<1>4. /\ docs \in Seq(Entry) /\ Len(docs) <= DocCap /\ indexDocs = docs
      /\ \A i \in DOMAIN docs : docs[i].uri \in Sources
  BY <1>3 DEF TypeOK, TablesAgree, Entry
<1>5. CacheRemembers'
  BY <1>3 DEF DidOpenOrChange, CacheRemembers
<1>6. CASE req.uri \in Others
  <2>1. /\ req.uri \notin Sources /\ editor' = editor
        /\ opened' = opened \cup {req.uri}
        /\ shown' = [shown EXCEPT ![req.uri] = "clear"]
        /\ UNCHANGED <<running, docs, diagSlot, semCache, preview, nextId, indexVars>>
    BY <1>6, DocumentsAssumption DEF DidOpenOrChange
  <2>2. TypeOK'
    BY <1>1, <1>3, <2>1 DEF TypeOK, indexVars, Verdicts
  <2>3. TablesAgree'
    BY <1>3, <2>1 DEF TablesAgree, indexVars
  <2>4. SlotWasShown' /\ IndexFollows'
    <3>1. Holds(docs, diagSlot.uri) => diagSlot.uri \in Sources
      BY <1>4 DEF Holds
    <3>2. SlotWasShown'
      BY <1>3, <2>1, <3>1 DEF SlotWasShown, Known, TypeOK
    <3>3. symbols' = symbols /\ docs' = docs
      BY <2>1 DEF indexVars
    <3> QED
      BY <1>3, <3>2, <3>3 DEF IndexFollows
  <2>5. DiagnosticsFollowText'
    BY <1>3, <1>4, <2>1 DEF DiagnosticsFollowText, TypeOK, Uris
  <2> QED
    BY <1>3, <1>5, <2>1, <2>2, <2>3, <2>4, <2>5 DEF IInv
<1>7. ASSUME req.uri \in Sources
      PROVE  /\ editor' = [uri \in DOMAIN editor \cup {req.uri} |->
                             IF uri = req.uri THEN req.text ELSE editor[uri]]
             /\ DOMAIN editor' \subseteq Sources
             /\ \A uri \in DOMAIN editor' : editor'[uri] \in Texts
             /\ opened' = opened \cup {req.uri} /\ opened' \subseteq Uris
             /\ UNCHANGED <<running, semCache, preview, nextId>>
  BY <1>1, <1>3, <1>7 DEF DidOpenOrChange, TypeOK
<1>8. CASE req.uri \in Sources /\ HasRoom(docs, DocCap, req.uri)
  <2> DEFINE new == Stored(docs, req.uri, text)
  <2>1. /\ docs' = new /\ UpsertDoc(req.uri, text) /\ AnalyzeAndPublish(req.uri, text)
    BY <1>8, DocumentsAssumption DEF DidOpenOrChange
  <2>2. HasRoom(indexDocs, IndexDocCap, req.uri)
    BY <1>4, <1>8, DocCapAssumption, IndexCapsAssumption DEF HasRoom
  <2>3. indexDocs' = new
    BY <2>1, <2>2, <1>4 DEF UpsertDoc
  <2>4. new \in Seq(Entry) /\ Len(new) <= DocCap
    BY <1>2, <1>4, <1>8, StoredIsTable, DocCapAssumption DEF HasRoom
  <2>5. /\ diagSlot' = [uri |-> req.uri, error |-> ~Parses(text)]
        /\ shown' = [shown EXCEPT ![req.uri] = Verdict(text)]
    BY <2>1 DEF AnalyzeAndPublish
  <2>6. TypeOK'
    <3>1. shown' \in [Uris -> Verdicts]
      BY <1>3, <2>5 DEF TypeOK, Verdict, Verdicts
    <3>2. diagSlot' \in [uri : Uris \cup {NoUri}, error : BOOLEAN]
      BY <1>1, <2>5
    <3> QED
      BY <1>3, <1>7, <1>8, <2>1, <2>3, <2>4, <3>1, <3>2,
         DocCapAssumption, IndexCapsAssumption DEF TypeOK
  <2>7. TablesAgree'
    BY <1>2, <1>3, <1>4, <1>8, <2>1, <2>3, StoredOnce DEF TablesAgree
  <2>8. SlotWasShown' /\ IndexFollows'
    <3>1. Holds(new, req.uri)
      BY <1>2, <1>4, <1>8, StoredKeeps
    <3>2. symbols' = SymbolsOf(indexDocs')
      BY <2>1, <2>2 DEF UpsertDoc
    <3> QED
      BY <1>1, <1>3, <1>8, <2>1, <2>3, <2>5, <3>1, <3>2
         DEF SlotWasShown, IndexFollows, Known, TypeOK, Verdict
  <2>9. ASSUME NEW i \in DOMAIN new
        PROVE  /\ new[i].uri \in DOMAIN editor'
               /\ new[i].text = Received(editor'[new[i].uri])
               /\ shown'[new[i].uri] = Verdict(new[i].text)
    <3>1. CASE new[i] = [uri |-> req.uri, text |-> text]
      BY <1>1, <1>3, <1>7, <1>8, <2>5, <3>1 DEF TypeOK
    <3>2. CASE i \in DOMAIN docs /\ new[i] = docs[i] /\ docs[i].uri # req.uri
      BY <1>1, <1>3, <1>4, <1>7, <1>8, <2>5, <3>2 DEF DiagnosticsFollowText, TypeOK, Uris
    <3> QED
      BY <1>2, <1>4, <1>8, <3>1, <3>2, StoredEntries
  <2> QED
    BY <1>5, <2>1, <2>6, <2>7, <2>8, <2>9 DEF IInv, DiagnosticsFollowText
<1>9. CASE req.uri \in Sources /\ ~HasRoom(docs, DocCap, req.uri)
  <2>1. UNCHANGED <<docs, diagSlot, indexVars, shown>>
    BY <1>9, DocumentsAssumption DEF DidOpenOrChange
  <2>2. \A i \in DOMAIN docs : docs[i].uri # req.uri
    BY <1>9 DEF HasRoom, Holds
  <2>3. TypeOK'
    BY <1>3, <1>7, <1>9, <2>1 DEF TypeOK, indexVars
  <2>4. TablesAgree' /\ SlotWasShown' /\ IndexFollows'
    <3>1. UNCHANGED <<docs, diagSlot, shown, indexDocs, symbols>>
      BY <2>1 DEF indexVars
    <3>2. TablesAgree' /\ SlotWasShown'
      BY <1>3, <3>1 DEF TablesAgree, SlotWasShown, Known
    <3> QED
      BY <1>3, <3>1, <3>2 DEF IndexFollows
  <2>5. /\ DiagnosticsFollowText'
        /\ (\A i \in DOMAIN docs : docs[i].uri \in DOMAIN editor)'
    BY <1>3, <1>7, <1>9, <2>1, <2>2 DEF DiagnosticsFollowText
  <2> QED
    BY <1>5, <2>3, <2>4, <2>5 DEF IInv
<1> QED
  BY <1>1, <1>6, <1>8, <1>9 DEF Uris

\* Answering with tokens keeps it: what is remembered are the tokens and the
\* checksum of one text.
LEMMA SemanticTokensKeepsInvariant ==
  ASSUME IInv, NEW req \in Messages, request' = req, SemanticTokens(req)
  PROVE  IInv'
<1> DEFINE text  == Text(req.uri)
           mine  == {e \in semCache : e.uri = req.uri}
           fresh == [uri |-> req.uri, sum |-> Checksum[text], payload |-> Tokens(text)]
<1>1. TypeOK /\ TablesAgree /\ DiagnosticsFollowText /\ CacheRemembers /\ SlotWasShown
      /\ IndexFollows
  BY DEF IInv
<1>2. UNCHANGED <<running, docs, diagSlot, preview, nextId, indexVars, historyVars>>
  BY DEF SemanticTokens
<1>3. \/ semCache' = semCache
      \/ Known(req.uri) /\ semCache' = (semCache \ mine) \cup {fresh}
  BY DEF SemanticTokens
<1>4. ASSUME Known(req.uri)
      PROVE  req.uri \in Sources /\ text \in ServerTexts /\ Checksum[text] \in Nat
  BY <1>1, <1>4, TextOfEntry, ChecksumAssumption DEF Known, Text, TypeOK
<1>5. TypeOK'
  BY <1>1, <1>2, <1>3, <1>4 DEF TypeOK, indexVars, historyVars
<1>6. CacheRemembers'
  BY <1>1, <1>3, <1>4 DEF CacheRemembers
<1>7. TablesAgree' /\ SlotWasShown' /\ IndexFollows'
  BY <1>1, <1>2 DEF TablesAgree, SlotWasShown, Known, IndexFollows, indexVars, historyVars
<1>8. DiagnosticsFollowText' /\ (\A i \in DOMAIN docs : docs[i].uri \in DOMAIN editor)'
  BY <1>2 DEF IInv, DiagnosticsFollowText, historyVars
<1> QED
  BY <1>5, <1>6, <1>7, <1>8 DEF IInv

\* A code action keeps it: only a served document becomes the preview.
LEMMA CodeActionKeepsInvariant ==
  ASSUME IInv, NEW req \in Messages, request' = req, CodeAction(req)
  PROVE  IInv'
<1>1. TypeOK /\ TablesAgree /\ DiagnosticsFollowText /\ CacheRemembers /\ SlotWasShown
      /\ IndexFollows
  BY DEF IInv
<1>2. UNCHANGED <<running, docs, diagSlot, semCache, nextId, indexVars, historyVars>>
  BY DEF CodeAction
<1>3. preview' \in Sources \cup {NoUri}
  BY <1>1, TextOfEntry DEF CodeAction, Known, TypeOK
<1>4. TypeOK'
  BY <1>1, <1>2, <1>3 DEF TypeOK, indexVars, historyVars
<1>5. TablesAgree' /\ CacheRemembers' /\ SlotWasShown' /\ IndexFollows'
  BY <1>1, <1>2 DEF TablesAgree, CacheRemembers, SlotWasShown, Known, IndexFollows,
                    indexVars, historyVars
<1>6. DiagnosticsFollowText' /\ (\A i \in DOMAIN docs : docs[i].uri \in DOMAIN editor)'
  BY <1>2 DEF IInv, DiagnosticsFollowText, historyVars
<1> QED
  BY <1>4, <1>5, <1>6 DEF IInv

\* So does everything that touches only the loop, the id counter or what the
\* editor has open.
LEMMA LoopKeepsInvariant ==
  ASSUME IInv, NEW req \in Messages, request' = req,
         Initialize(req) \/ Ignore(req) \/ Exit(req)
  PROVE  IInv'
<1>1. TypeOK /\ TablesAgree /\ DiagnosticsFollowText /\ CacheRemembers /\ SlotWasShown
      /\ IndexFollows
  BY DEF IInv
<1>2. UNCHANGED <<docs, diagSlot, semCache, preview, indexVars, editor, shown>>
  BY DEF Initialize, Ignore, Exit, historyVars
<1>3. running' \in BOOLEAN /\ nextId' \in Nat /\ opened' \subseteq Uris
  <2>1. running \in BOOLEAN /\ nextId \in Nat /\ opened \subseteq Uris
    BY <1>1 DEF TypeOK
  <2>2. CASE Initialize(req)
    BY <2>1, <2>2 DEF Initialize, historyVars
  <2>3. CASE Ignore(req)
    <3>1. opened' \subseteq opened
      BY <2>3 DEF Ignore
    <3>2. running' = running /\ nextId' = nextId
      BY <2>3 DEF Ignore
    <3> QED
      BY <2>1, <3>1, <3>2
  <2>4. CASE Exit(req)
    BY <2>1, <2>4 DEF Exit, historyVars
  <2> QED
    BY <2>2, <2>3, <2>4
<1>4. TypeOK'
  BY <1>1, <1>2, <1>3 DEF TypeOK, indexVars
<1>5. TablesAgree' /\ CacheRemembers' /\ SlotWasShown' /\ IndexFollows'
  BY <1>1, <1>2 DEF TablesAgree, CacheRemembers, SlotWasShown, Known, IndexFollows,
                    indexVars
<1>6. DiagnosticsFollowText' /\ (\A i \in DOMAIN docs : docs[i].uri \in DOMAIN editor)'
  BY <1>2 DEF IInv, DiagnosticsFollowText
<1> QED
  BY <1>4, <1>5, <1>6 DEF IInv

\* The actions that leave the state as it is.
Query(req) ==
  \/ Definition(req) \/ OwnDeclaration(req) \/ References(req) \/ Rename(req)
  \/ Hover(req) \/ PrepareRename(req) \/ SelectionRange(req) \/ SignatureHelp(req)
  \/ Completion(req) \/ SymbolList(req)
  \/ Formatting(req) \/ RangeFormatting(req) \/ InlayHint(req)
  \/ FoldingRange(req) \/ PullDiagnostic(req)
  \/ RefactorPreview(req) \/ Acknowledge(req)

LEMMA QueryAnswers ==
  ASSUME NEW req \in Messages, Query(req)
  PROVE  UNCHANGED stateVars
BY DEF Query, Definition, OwnDeclaration, References, Rename, Hover, PrepareRename, SelectionRange, SignatureHelp,
       Completion, SymbolList, Formatting, RangeFormatting, InlayHint, FoldingRange, PullDiagnostic,
       RefactorPreview, Acknowledge, Answer, stateVars

\* Every turn of the loop, and every stutter, keeps the invariant.
LEMMA NextInvariant == IInv /\ [Next]_vars => IInv'
<1> SUFFICES ASSUME IInv, [Next]_vars PROVE IInv'
  OBVIOUS
<1>1. ASSUME NEW req \in Messages, Handle(req) PROVE IInv'
  <2>0. request' = req
    BY <1>1 DEF Handle
  <2>1. CASE DidOpenOrChange(req)
    BY <2>0, <2>1, DidOpenOrChangeKeepsInvariant
  <2>2. CASE Query(req)
    BY <2>0, <2>2, QueryAnswers, AnswerKeepsInvariant
  <2>3. CASE SemanticTokens(req)
    BY <2>0, <2>3, SemanticTokensKeepsInvariant
  <2>4. CASE CodeAction(req)
    BY <2>0, <2>4, CodeActionKeepsInvariant
  <2>5. CASE Initialize(req) \/ Ignore(req) \/ Exit(req)
    BY <2>0, <2>5, LoopKeepsInvariant
  <2> QED
    BY <1>1, <2>1, <2>2, <2>3, <2>4, <2>5 DEF Handle, Query
<1>2. CASE UNCHANGED vars
  <2> USE <1>2 DEF vars, indexVars, serverVars, historyVars
  <2>1. TypeOK' /\ TablesAgree' /\ CacheRemembers' /\ SlotWasShown' /\ IndexFollows'
    BY DEF IInv, TypeOK, TablesAgree, CacheRemembers, SlotWasShown, Known, IndexFollows
  <2>2. DiagnosticsFollowText' /\ (\A i \in DOMAIN docs : docs[i].uri \in DOMAIN editor)'
    BY DEF IInv, DiagnosticsFollowText
  <2> QED
    BY <2>1, <2>2 DEF IInv
<1> QED
  BY <1>1, <1>2 DEF Next

\* The inductive invariant holds in every behaviour of the message loop.
THEOREM Invariant == Spec => []IInv
<1> QED
  BY InitInvariant, NextInvariant, PTL DEF Spec

\* Every table stays within its capacity and holds what it is declared to.
THEOREM TypeCorrect == Spec => []TypeOK
<1>1. IInv => TypeOK
  BY DEF IInv
<1> QED
  BY <1>1, Invariant, PTL

\* The document tables of main.c and index.c never come apart, although each
\* has its own capacity and its own search.
THEOREM TablesAlwaysAgree == Spec => []TablesAgree
<1>1. IInv => TablesAgree
  BY DEF IInv
<1> QED
  BY <1>1, Invariant, PTL

\* What the editor was last shown for a served document is the verdict on the
\* text the server holds, which is the latest one it received.
THEOREM DiagnosticsAlwaysFollow == Spec => []DiagnosticsFollowText
<1>1. IInv => DiagnosticsFollowText
  BY DEF IInv
<1> QED
  BY <1>1, Invariant, PTL

-----------------------------------------------------------------------------
(* What the invariant says of the answers.                                 *)

\* The turn that reads a request for tokens is the action for it.
LEMMA TokensTurn ==
  ASSUME NEW req \in Messages, Handle(req), req.method = "semanticTokens"
  PROVE  SemanticTokens(req)
BY DEF Handle, DidOpenOrChange, DocumentUpdates, Definition, OwnDeclaration,
       References, Rename, Hover, PrepareRename, SelectionRange, SignatureHelp, Completion, SymbolList, Formatting, RangeFormatting, InlayHint,
       FoldingRange, PullDiagnostic, RefactorPreview, Acknowledge, CodeAction,
       Initialize, Ignore, Exit

\* The turn that reads a pull is the action for it.
LEMMA PullTurn ==
  ASSUME NEW req \in Messages, Handle(req), req.method = "diagnostic"
  PROVE  PullDiagnostic(req)
BY DEF Handle, DidOpenOrChange, DocumentUpdates, Definition, OwnDeclaration,
       References, Rename, Hover, PrepareRename, SelectionRange, SignatureHelp, Completion, SymbolList, Formatting, RangeFormatting, InlayHint,
       FoldingRange, SemanticTokens, RefactorPreview, Acknowledge, CodeAction,
       Initialize, Ignore, Exit

\* What the cache needs of text_checksum: texts it confuses have the same
\* tokens.  The 32-bit checksum of the code satisfies this only as long as no
\* two versions of a document collide.
NoCollision ==
  \A s, t \in ServerTexts : Checksum[s] = Checksum[t] => Tokens(s) = Tokens(t)

\* Tokens answered from the cache are those of the present text, if the
\* checksum does not collide.
THEOREM TokensAlwaysCurrent ==
  ASSUME NoCollision PROVE Spec => []TokensAreCurrent
<1>1. Init => TokensAreCurrent
  BY DEF Init, TokensAreCurrent, NoMessage
<1>2. ASSUME IInv, TokensAreCurrent, [Next]_vars
      PROVE  TokensAreCurrent'
  <2>1. ASSUME NEW req \in Messages, Handle(req) PROVE TokensAreCurrent'
    <3>0. request' = req
      BY <2>1 DEF Handle
    <3> SUFFICES ASSUME req.method = "semanticTokens", Known(req.uri)'
                 PROVE  sent'.result.data = Tokens(Text(req.uri)')
      BY <3>0 DEF TokensAreCurrent
    <3>1. SemanticTokens(req)
      BY <2>1, TokensTurn
    <3>2. docs' = docs
      BY <3>1 DEF SemanticTokens
    <3>3. Known(req.uri) /\ Text(req.uri)' = Text(req.uri)
      BY <3>2 DEF Known, Text
    <3>4. Text(req.uri) \in ServerTexts
      BY <1>2, <3>3, TextOfEntry DEF IInv, TypeOK, Known, Text
    <3>5. ASSUME NEW e \in semCache, e.sum = Checksum[Text(req.uri)]
          PROVE  e.payload = Tokens(Text(req.uri))
      BY <1>2, <3>4, <3>5, NoCollision DEF IInv, CacheRemembers, NoCollision
    <3>6. \/ \E e \in semCache : /\ e.sum = Checksum[Text(req.uri)]
                                 /\ sent' = Respond(req.id, TokenData(e.payload))
          \/ sent' = Respond(req.id, TokenData(Tokens(Text(req.uri))))
      BY <3>1, <3>3 DEF SemanticTokens, Hit
    <3> QED
      BY <3>3, <3>5, <3>6 DEF Respond, TokenData
  <2>2. CASE UNCHANGED vars
    BY <1>2, <2>2 DEF TokensAreCurrent, Known, Text, vars, serverVars
  <2> QED
    BY <1>2, <2>1, <2>2 DEF Next
<1> QED
  BY <1>1, <1>2, Invariant, PTL DEF Spec

\* A pull never returns an error the editor was not shown, or was shown to be
\* gone.
THEOREM PullsNeverInvent == Spec => []PullNeverInvents
<1>1. Init => PullNeverInvents
  BY DEF Init, PullNeverInvents, NoMessage
<1>2. ASSUME IInv, PullNeverInvents, [Next]_vars
      PROVE  PullNeverInvents'
  <2>1. ASSUME NEW req \in Messages, Handle(req) PROVE PullNeverInvents'
    <3>0. request' = req
      BY <2>1 DEF Handle
    <3> SUFFICES ASSUME req.method = "diagnostic", sent'.result.error
                 PROVE  shown'[req.uri] = "error"
      BY <3>0 DEF PullNeverInvents
    <3>1. PullDiagnostic(req)
      BY <2>1, PullTurn
    <3>2. /\ sent' = Respond(req.id, Items(diagSlot.uri = req.uri /\ diagSlot.error))
          /\ shown' = shown
      BY <3>1 DEF PullDiagnostic, Answer, historyVars
    <3>3. diagSlot.uri = req.uri /\ diagSlot.error
      BY <3>2 DEF Respond, Items
    <3> QED
      BY <1>2, <3>2, <3>3 DEF IInv, SlotWasShown
  <2>2. CASE UNCHANGED vars
    BY <1>2, <2>2 DEF PullNeverInvents, vars, serverVars, historyVars
  <2> QED
    BY <1>2, <2>1, <2>2 DEF Next
<1> QED
  BY <1>1, <1>2, Invariant, PTL DEF Spec

-----------------------------------------------------------------------------
(* No document is lost.                                                    *)

\* The table grows up to its capacity, and the update that is refused finds it
\* full.
LEMMA UpdateServes ==
  ASSUME IInv, ServedUnlessFull, NEW req \in Messages, DidOpenOrChange(req)
  PROVE  ServedUnlessFull'
<1>0. /\ docs \in Seq(Entry) /\ Len(docs) <= DocCap /\ DocCap \in Nat
      /\ req.uri \in Uris /\ req.text \in Texts /\ opened' = opened \cup {req.uri}
  BY DocCapAssumption DEF IInv, TypeOK, DidOpenOrChange, DocumentUpdates
<1>1. Received(req.text) \in ServerTexts
  BY <1>0 DEF ServerTexts
<1>2. CASE req.uri \in Sources /\ HasRoom(docs, DocCap, req.uri)
  <2> DEFINE new == Stored(docs, req.uri, Received(req.text))
  <2>1. docs' = new
    BY <1>2, DocumentsAssumption DEF DidOpenOrChange
  <2>2. /\ Holds(new, req.uri) /\ \A other : Holds(docs, other) => Holds(new, other)
    BY <1>0, <1>1, <1>2, StoredKeeps
  <2>3. Len(docs) = DocCap => Len(new) = DocCap
    BY <1>0, <1>1, <1>2, StoredIsTable DEF HasRoom
  <2> HIDE DEF new
  <2> QED
    BY <1>0, <2>1, <2>2, <2>3 DEF ServedUnlessFull, Known
<1>3. CASE req.uri \in Sources /\ ~HasRoom(docs, DocCap, req.uri)
  <2>1. docs' = docs
    BY <1>3, DocumentsAssumption DEF DidOpenOrChange
  <2>2. Len(docs) = DocCap
    BY <1>0, <1>3 DEF HasRoom
  <2> QED
    BY <2>1, <2>2 DEF ServedUnlessFull
<1>4. CASE req.uri \in Others
  <2>1. docs' = docs /\ req.uri \notin Sources
    BY <1>4, DocumentsAssumption DEF DidOpenOrChange
  <2> QED
    BY <1>0, <2>1 DEF ServedUnlessFull, Known
<1> QED
  BY <1>0, <1>2, <1>3, <1>4 DEF Uris

\* Every source text the editor has open is served, unless the table of main.c
\* was full when it came, whatever was opened, changed or closed in between.
THEOREM AlwaysServedUnlessFull == Spec => []ServedUnlessFull
<1>1. Init => ServedUnlessFull
  BY DEF Init, ServedUnlessFull
<1>2. ASSUME IInv, ServedUnlessFull, [Next]_vars
      PROVE  ServedUnlessFull'
  <2>1. ASSUME NEW req \in Messages, Handle(req) PROVE ServedUnlessFull'
    <3>1. CASE DidOpenOrChange(req)
      BY <1>2, <3>1, UpdateServes
    <3>2. CASE ~DidOpenOrChange(req)
      <4>1. docs' = docs /\ opened' \subseteq opened
        <5>1. CASE Query(req)
          BY <5>1, QueryAnswers DEF stateVars, historyVars
        <5>2. CASE SemanticTokens(req) \/ CodeAction(req) \/ Initialize(req) \/ Exit(req)
          BY <5>2 DEF SemanticTokens, CodeAction, Initialize, Exit, historyVars
        <5>3. CASE Ignore(req)
          BY <5>3 DEF Ignore
        <5> QED
          BY <2>1, <3>2, <5>1, <5>2, <5>3 DEF Handle, Query
      <4> QED
        BY <1>2, <4>1 DEF ServedUnlessFull, Known
    <3> QED
      BY <3>1, <3>2
  <2>2. CASE UNCHANGED vars
    BY <1>2, <2>2 DEF ServedUnlessFull, Known, vars, serverVars, historyVars
  <2> QED
    BY <1>2, <2>1, <2>2 DEF Next
<1> QED
  BY <1>1, <1>2, Invariant, PTL DEF Spec

-----------------------------------------------------------------------------
(* What the tables hold.                                                   *)
\* A text arrives as one line, if it is not empty.
LEMMA ReceivedLine ==
  ASSUME NEW text \in ServerTexts
  PROVE  text = <<>> \/ (text = <<text[1]>> /\ text[1] \in Line)
<1>1. PICK sentText \in Texts : text = Received(sentText)
  BY DEF ServerTexts
<1>2. sentText \in Seq(Line)
  BY TextsAssumption
<1>3. CASE sentText = <<>>
  BY <1>1, <1>3 DEF Received
<1>4. CASE sentText # <<>>
  <2> DEFINE quotes == {i \in DOMAIN sentText : sentText[i].quoted}
             last   == IF quotes = {} THEN Len(sentText) ELSE Min(quotes)
             first  == sentText[1]
             kept   == 1 .. last
             line   == [kind   |-> IF first.kind = "fn" /\ first.quoted THEN "open"
                                                                        ELSE first.kind,
                        name   |-> first.name,
                        fns    |-> UNION {sentText[i].fns : i \in kept},
                        lets   |-> UNION {sentText[i].lets : i \in kept},
                        words  |-> FlattenSeq([i \in kept |-> sentText[i].words]),
                        spaced |-> \E i \in kept : sentText[i].spaced,
                        quoted |-> FALSE]
  <2>1. text = <<line>>
    BY <1>1, <1>4, Zenon DEF Received
  <2>2. last \in 1 .. Len(sentText)
    <3>1. Len(sentText) \in 1 .. Len(sentText)
      BY <1>2, <1>4
    <3>2. CASE quotes # {}
      <4>1. quotes \in SUBSET Nat /\ quotes \subseteq 1 .. Len(sentText)
        BY <1>2
      <4>2. Min(quotes) \in quotes
        <5>1. \E x \in quotes : \A y \in quotes : x <= y
          BY <3>2, <4>1, LeastNumber
        <5> QED
          BY <5>1 DEF Min
      <4> QED
        BY <3>2, <4>1, <4>2
    <3> QED
      BY <3>1, <3>2
  <2>3. \A i \in kept : sentText[i] \in Line
    BY <1>2, <2>2
  <2>4. first \in Line
    BY <1>2, <1>4
  <2>5. /\ line.kind \in Kinds /\ line.name \in Names \cup {NoName}
        /\ line.fns \in SUBSET Names /\ line.lets \in SUBSET Names
        /\ line.words \in Seq(Names)
    <3>1. line.kind \in Kinds /\ line.name \in Names \cup {NoName}
      BY <2>4 DEF Line, Kinds
    <3>2. \A i \in kept : /\ sentText[i].fns \in SUBSET Names /\ sentText[i].lets \in SUBSET Names
                          /\ sentText[i].words \in Seq(Names)
      BY <2>3 DEF Line
    <3>3. /\ line.fns = UNION {sentText[i].fns : i \in kept}
          /\ line.lets = UNION {sentText[i].lets : i \in kept}
          /\ line.words = FlattenSeq([i \in kept |-> sentText[i].words])
      OBVIOUS
    <3>4. FlattenSeq([i \in kept |-> sentText[i].words]) \in Seq(Names)
      <4> DEFINE words == [i \in kept |-> sentText[i].words]
      <4>1. last \in Nat
        BY <1>2, <2>2
      <4>2. words \in Seq(Seq(Names))
        <5> HIDE DEF last
        <5> QED
          BY <3>2, <4>1
      <4> HIDE DEF words
      <4>3. FlattenSeq(words) \in Seq(Names)
        BY <4>2, FlattenHolds, Zenon
      <4> QED
        BY <4>3 DEF words
    <3> HIDE DEF kept, line
    <3> QED
      BY <3>1, <3>2, <3>3, <3>4
  <2>6. line.spaced \in BOOLEAN /\ line.quoted \in BOOLEAN
    OBVIOUS
  <2>7. line = [kind |-> line.kind, name |-> line.name, fns |-> line.fns, lets |-> line.lets,
                words |-> line.words, spaced |-> line.spaced, quoted |-> line.quoted]
    OBVIOUS
  <2> HIDE DEF line
  <2>8. line \in Line
    BY <2>5, <2>6, <2>7 DEF Line
  <2>9. text[1] = line
    BY <2>1
  <2> QED
    BY <2>1, <2>8, <2>9
<1> QED
  BY <1>3, <1>4

\* Its declarations are on its one line.
LEMMA OneDecl ==
  ASSUME NEW text \in ServerTexts
  PROVE  DeclLines(text) = IF text # <<>> /\ Declares(text[1]) THEN <<1>> ELSE <<>>
<1> DEFINE S == {i \in DOMAIN text : Declares(text[i])}
<1>1. CASE text = <<>>
  <2>1. Places(text) = <<>> /\ <<>> \in Seq({})
    BY <1>1 DEF Places
  <2>2. Range(Places(text)) \subseteq S
    BY <2>1 DEF Range
  <2>3. Only(Places(text), S) = Places(text)
    BY <2>1, <2>2, OnlyAllOrNone, Zenon
  <2> QED
    BY <1>1, <2>1, <2>3 DEF DeclLines
<1>2. CASE text = <<text[1]>> /\ text[1] \in Line
  <2>1. DOMAIN text = {1} /\ text # <<>>
    BY <1>2
  <2>2. Places(text) = <<1>>
    BY <2>1 DEF Places
  <2>3. Only(<<1>>, S) = IF 1 \in S THEN <<1>> ELSE <<>>
    <3>1. 1 \in Nat
      OBVIOUS
    <3> QED
      BY <3>1, OnlySingle, Zenon
  <2>4. 1 \in S <=> Declares(text[1])
    BY <2>1
  <2>5. DeclLines(text) = Only(<<1>>, S)
    BY <2>2 DEF DeclLines
  <2> QED
    BY <2>1, <2>3, <2>4, <2>5
<1> QED
  BY <1>1, <1>2, ReceivedLine

\* What index.c can hold in its symbol table.
Symbol == [uri : Sources, name : Names \cup {NoName}, line : {1}, type : Kinds,
           excluded : BOOLEAN, documented : BOOLEAN]

\* The symbols of a text: at most one, which is what its line declares.
LEMMA OneSymbol ==
  ASSUME NEW uri \in Sources, NEW text \in ServerTexts
  PROVE  /\ SymbolsIn(uri, text) \in Seq(Symbol) /\ Len(SymbolsIn(uri, text)) <= 1
         /\ \A s \in Range(SymbolsIn(uri, text)) :
               /\ 1 \in DOMAIN text /\ Declares(text[1])
               /\ s.uri = uri /\ s.name = text[1].name /\ s.line = 1
         /\ 1 \in DOMAIN text /\ Declares(text[1])
              => \E s \in Range(SymbolsIn(uri, text)) : s.uri = uri /\ s.name = text[1].name
<1> DEFINE decls == DeclLines(text)
           SymbolOf(i) == [uri |-> uri, name |-> text[i].name, line |-> i,
                         type |-> IF text[i].kind = "open" THEN "fn" ELSE text[i].kind,
                         excluded |-> Excluded(text, i),
                         documented |-> Documented(text, i)]
           list == [k \in DOMAIN decls |-> SymbolOf(decls[k])]
<1>1. SymbolsIn(uri, text) = list
  BY Zenon DEF SymbolsIn
<1>2. CASE text # <<>> /\ Declares(text[1])
  <2>1. text[1] \in Line /\ 1 \in DOMAIN text
    BY <1>2, ReceivedLine
  <2>2. decls = <<1>>
    BY <1>2, OneDecl
  <2>3. list = <<SymbolOf(1)>>
    <3> HIDE DEF SymbolOf, decls
    <3> QED
      BY <2>2
  <2>4. SymbolOf(1) \in Symbol
    <3>1. Excluded(text, 1) \in BOOLEAN /\ Documented(text, 1) \in BOOLEAN
      BY DEF Excluded, Documented
    <3> QED
      BY <2>1, <3>1 DEF Symbol, Line, Kinds
  <2>5. SymbolOf(1).uri = uri /\ SymbolOf(1).name = text[1].name /\ SymbolOf(1).line = 1
    OBVIOUS
  <2> HIDE DEF SymbolOf, list
  <2>6. Range(list) = {SymbolOf(1)} /\ Len(list) = 1 /\ list \in Seq(Symbol)
    BY <2>3, <2>4 DEF Range
  <2> QED
    BY <1>1, <1>2, <2>1, <2>5, <2>6
<1>3. CASE ~(text # <<>> /\ Declares(text[1]))
  <2>1. decls = <<>>
    BY <1>3, OneDecl
  <2>2. list = <<>>
    BY <2>1
  <2>3. Range(list) = {} /\ Len(list) = 0 /\ list \in Seq(Symbol)
    BY <2>2 DEF Range
  <2>4. 1 \in DOMAIN text => text # <<>>
    OBVIOUS
  <2> HIDE DEF list
  <2> QED
    BY <1>1, <1>3, <2>3, <2>4
<1> QED
  BY <1>2, <1>3

\* All the documents are indexed: the table of main.c takes no more documents
\* than the symbol table takes symbols (64 against 4096).
RoomForAll == DocCap <= SymbolCap

\* What the invariant says of the document table.
LEMMA Table ==
  ASSUME IInv
  PROVE  /\ docs \in Seq(Entry) /\ Len(docs) <= DocCap /\ indexDocs = docs
         /\ symbols = SymbolsOf(docs)
         /\ \A i, j \in DOMAIN docs : docs[i].uri = docs[j].uri => i = j
         /\ \A i \in DOMAIN docs : /\ docs[i].uri \in Sources /\ docs[i].text \in ServerTexts
                                   /\ Known(docs[i].uri)
                                   /\ Text(docs[i].uri) = docs[i].text
<1>1. TypeOK /\ TablesAgree /\ IndexFollows
  BY DEF IInv
<1>2. /\ docs \in Seq(Entry) /\ Len(docs) <= DocCap /\ indexDocs = docs
      /\ \A i, j \in DOMAIN docs : docs[i].uri = docs[j].uri => i = j
  BY <1>1 DEF TypeOK, TablesAgree
<1>3. ASSUME NEW i \in DOMAIN docs
      PROVE  /\ docs[i].uri \in Sources /\ docs[i].text \in ServerTexts
             /\ Known(docs[i].uri)
             /\ Text(docs[i].uri) = docs[i].text
  <2>1. docs[i] \in Entry
    BY <1>2
  <2>2. \A k \in DOMAIN docs : docs[k].uri = docs[i].uri => k = i
    BY <1>2
  <2> QED
    BY <2>1, <2>2 DEF Entry, Known, Holds, Text, TextOf
<1> QED
  BY <1>1, <1>2, <1>3 DEF IndexFollows

\* A served document stands in the table.
LEMMA KnownPlace ==
  ASSUME IInv, NEW uri, Known(uri)
  PROVE  /\ uri \in Sources /\ Text(uri) \in ServerTexts
         /\ \E i \in DOMAIN docs : docs[i].uri = uri /\ docs[i].text = Text(uri)
<1>1. docs \in Seq(Entry)
  BY Table
<1>2. PICK i \in DOMAIN docs : docs[i] = [uri |-> uri, text |-> TextOf(docs, uri)]
  BY <1>1, TextOfEntry DEF Known
<1> QED
  BY <1>1, <1>2, TextOfEntry DEF Known, Text

\* A sequence that is short enough is not cut.
LEMMA Uncut ==
  ASSUME NEW A, NEW seq \in Seq(A), NEW n \in Nat, Len(seq) <= n
  PROVE  SubSeq(seq, 1, Min({Len(seq), n})) = seq
<1>1. Min({Len(seq), n}) = Len(seq)
  BY DEF Min
<1> QED
  BY <1>1

\* The table has no more documents than there is room for symbols.
LEMMA AllIndexed ==
  ASSUME IInv, RoomForAll
  PROVE  Len(docs) <= SymbolCap
BY Table, IndexCapsAssumption, DocCapAssumption DEF RoomForAll

\* The symbol table is, document by document, what the texts declare.
LEMMA SymbolTable ==
  ASSUME IInv, Len(docs) <= SymbolCap
  PROVE  LET blocks == [i \in DOMAIN docs |-> SymbolsIn(docs[i].uri, docs[i].text)]
         IN /\ blocks \in Seq(Seq(Symbol)) /\ DOMAIN blocks = DOMAIN docs
            /\ symbols = FlattenSeq(blocks) /\ symbols \in Seq(Symbol)
            /\ Range(symbols) = UNION {Range(SymbolsIn(docs[i].uri, docs[i].text)) :
                                         i \in DOMAIN docs}
<1> DEFINE block(i) == SymbolsIn(docs[i].uri, docs[i].text)
           blocks == [i \in DOMAIN docs |-> block(i)]
           flat == FlattenSeq(blocks)
<1>1. \A i \in DOMAIN docs : block(i) \in Seq(Symbol) /\ Len(block(i)) <= 1
  BY Table, OneSymbol
<1>2. /\ docs \in Seq(Entry) /\ Len(docs) <= DocCap
      /\ symbols = SymbolsOf(docs)
  BY Table
<1>3. /\ blocks \in Seq(Seq(Symbol)) /\ DOMAIN blocks = DOMAIN docs /\ Len(blocks) = Len(docs)
      /\ \A i \in DOMAIN blocks : blocks[i] = block(i)
  <2> HIDE DEF block
  <2>1. \A i \in DOMAIN docs : block(i) \in Seq(Symbol)
    BY <1>1
  <2>2. DOMAIN docs = 1 .. Len(docs) /\ Len(docs) \in Nat
    BY <1>2
  <2> QED
    BY <2>1, <2>2
<1>4. symbols = SubSeq(flat, 1, Min({Len(flat), SymbolCap}))
  BY <1>2, Zenon DEF SymbolsOf
<1> HIDE DEF block, blocks
<1>5. /\ flat \in Seq(Symbol) /\ Len(flat) <= Len(docs)
      /\ Range(flat) = UNION {Range(blocks[i]) : i \in DOMAIN blocks}
  <2>1. \A i \in DOMAIN blocks : Len(blocks[i]) <= 1
    BY <1>1, <1>3
  <2>2. /\ flat \in Seq(Symbol) /\ Len(flat) <= Len(blocks)
        /\ Range(flat) = UNION {Range(blocks[i]) : i \in DOMAIN blocks}
    BY <1>3, <2>1, FlattenHolds, Zenon
  <2> QED
    BY <1>3, <2>2
<1>6. SymbolCap \in Nat /\ Len(flat) <= SymbolCap
  BY <1>2, <1>5, IndexCapsAssumption
<1>7. symbols = flat
  BY <1>4, <1>5, <1>6, Uncut, Zenon
<1>8. UNION {Range(blocks[i]) : i \in DOMAIN blocks} = UNION {Range(block(i)) : i \in DOMAIN docs}
  BY <1>3
<1> USE DEF block, blocks
<1> QED
  BY <1>3, <1>5, <1>7, <1>8, Zenon

-----------------------------------------------------------------------------
(* What the queries of index.c find.                                       *)

\* The text declares the name.
DeclaredIn(text, name) == 1 \in DOMAIN text /\ Declares(text[1]) /\ text[1].name = name

\* The places in the tables that declare a name are those of the texts that do.
LEMMA NamedSymbols ==
  ASSUME IInv, Len(docs) <= SymbolCap, NEW name
  PROVE  /\ Named(name) \in SUBSET Nat
         /\ \A k \in Named(name) : \E i \in DOMAIN docs :
               /\ DeclaredIn(docs[i].text, name)
               /\ symbols[k].uri = docs[i].uri /\ symbols[k].line = 1
         /\ \A i \in DOMAIN docs : DeclaredIn(docs[i].text, name)
              => \E k \in Named(name) : symbols[k].uri = docs[i].uri
<1> DEFINE block(i) == SymbolsIn(docs[i].uri, docs[i].text)
<1>1. /\ symbols \in Seq(Symbol)
      /\ Range(symbols) = UNION {Range(block(i)) : i \in DOMAIN docs}
  BY SymbolTable
<1>2. \A i \in DOMAIN docs :
        /\ \A s \in Range(block(i)) :
              /\ 1 \in DOMAIN docs[i].text /\ Declares(docs[i].text[1])
              /\ s.uri = docs[i].uri /\ s.name = docs[i].text[1].name /\ s.line = 1
        /\ 1 \in DOMAIN docs[i].text /\ Declares(docs[i].text[1])
             => \E s \in Range(block(i)) : s.uri = docs[i].uri /\ s.name = docs[i].text[1].name
  BY Table, OneSymbol, SMTT(30)
<1> HIDE DEF block
<1>3. Named(name) \in SUBSET Nat
  BY <1>1 DEF Named
<1>4. ASSUME NEW k \in Named(name)
      PROVE  \E i \in DOMAIN docs : /\ DeclaredIn(docs[i].text, name)
                                    /\ symbols[k].uri = docs[i].uri /\ symbols[k].line = 1
  <2>1. symbols[k] \in Range(symbols) /\ symbols[k].name = name
    BY <1>1 DEF Named, Range
  <2>2. PICK i \in DOMAIN docs : symbols[k] \in Range(block(i))
    BY <1>1, <2>1
  <2> QED
    BY <1>2, <2>1, <2>2 DEF DeclaredIn
<1>5. ASSUME NEW i \in DOMAIN docs, DeclaredIn(docs[i].text, name)
      PROVE  \E k \in Named(name) : symbols[k].uri = docs[i].uri
  <2>1. PICK s \in Range(block(i)) : s.uri = docs[i].uri /\ s.name = name
    BY <1>2, <1>5 DEF DeclaredIn
  <2>2. s \in Range(symbols)
    BY <1>1, <2>1
  <2> QED
    BY <2>1, <2>2 DEF Range, Named
<1> QED
  BY <1>3, <1>4, <1>5

\* The first of some numbers is one of them.
LEMMA FirstIsOne ==
  ASSUME NEW S \in SUBSET Nat, S # {}
  PROVE  Min(S) \in S
<1>1. \E x \in S : \A y \in S : x <= y
  BY LeastNumber
<1> QED
  BY <1>1 DEF Min

\* nls_find_definition finds nothing only if no text declares the name, and
\* otherwise a declaration, in the preferred document if that has one.
LEMMA DefinitionFound ==
  ASSUME IInv, Len(docs) <= SymbolCap, NEW name, NEW prefer
  PROVE  \/ /\ FindDefinition(name, prefer) = Null
            /\ \A i \in DOMAIN docs : ~DeclaredIn(docs[i].text, name)
         \/ \E i \in DOMAIN docs :
              /\ DeclaredIn(docs[i].text, name)
              /\ FindDefinition(name, prefer) = Location(docs[i].uri, 1)
              /\ \/ docs[i].uri = prefer
                 \/ \A j \in DOMAIN docs :
                      DeclaredIn(docs[j].text, name) => docs[j].uri # prefer
<1> DEFINE own == {k \in Named(name) : symbols[k].uri = prefer}
           chosen == Min(IF own # {} THEN own ELSE Named(name))
<1>1. /\ Named(name) \in SUBSET Nat
      /\ \A k \in Named(name) : \E i \in DOMAIN docs :
               /\ DeclaredIn(docs[i].text, name)
               /\ symbols[k].uri = docs[i].uri /\ symbols[k].line = 1
      /\ \A i \in DOMAIN docs : DeclaredIn(docs[i].text, name)
              => \E k \in Named(name) : symbols[k].uri = docs[i].uri
  BY NamedSymbols
<1>2. FindDefinition(name, prefer) =
        IF Named(name) = {} THEN Null ELSE Location(symbols[chosen].uri, symbols[chosen].line)
  BY Zenon DEF FindDefinition
<1>3. CASE Named(name) = {}
  BY <1>1, <1>2, <1>3
<1>4. CASE Named(name) # {}
  <2>1. chosen \in Named(name) /\ (own # {} => chosen \in own)
    <3>1. CASE own # {}
      <4>1. own \in SUBSET Nat
        BY <1>1
      <4>2. Min(own) \in own
        BY <3>1, <4>1, FirstIsOne
      <4> QED
        BY <3>1, <4>2
    <3>2. CASE own = {}
      BY <1>1, <1>4, <3>2, FirstIsOne
    <3> QED
      BY <3>1, <3>2
  <2> HIDE DEF chosen
  <2>2. PICK i \in DOMAIN docs : /\ DeclaredIn(docs[i].text, name)
                                 /\ symbols[chosen].uri = docs[i].uri
                                 /\ symbols[chosen].line = 1
    BY <1>1, <2>1
  <2>3. FindDefinition(name, prefer) = Location(docs[i].uri, 1)
    BY <1>2, <1>4, <2>2
  <2>4. \/ docs[i].uri = prefer
        \/ \A j \in DOMAIN docs : DeclaredIn(docs[j].text, name) => docs[j].uri # prefer
    BY <1>1, <2>1, <2>2, SMTT(30)
  <2> QED
    BY <2>2, <2>3, <2>4
<1> QED
  BY <1>3, <1>4

\* A sequence without repetitions has as many elements as places.
LEMMA DistinctCount ==
  ASSUME NEW A, NEW s \in Seq(A), IsInjective(s)
  PROVE  Cardinality(Range(s)) = Len(s)
<1>1. Len(s) \in Nat /\ DOMAIN s = 1 .. Len(s) /\ s \in [1 .. Len(s) -> Range(s)]
  BY DEF Range
<1>2. s \in Bijection(1 .. Len(s), Range(s))
  BY <1>1 DEF Bijection, Injection, Surjection, IsInjective, Range
<1> QED
  BY <1>1, <1>2, FS_CountingElements DEF ExistsBijection

\* What nls_find_references finds in one document.
Place == [uri : Sources, line : {1}, column : Nat]
Within(i, name, comments) ==
  LET text == docs[i].text
      on(k) == [c \in DOMAIN Columns(text[k], name) |->
                  [uri |-> docs[i].uri, line |-> k, column |-> Columns(text[k], name)[c]]]
  IN FlattenSeq([k \in DOMAIN text |->
                   IF comments \/ ~IsComment(text[k]) THEN on(k) ELSE <<>>])
Counts(p, i, name, comments) ==
  /\ p \in Place /\ p.uri = docs[i].uri
  /\ Stands(docs[i].text, p.line, p.column, name)
  /\ comments \/ ~IsComment(docs[i].text[p.line])

LEMMA ColumnsAre ==
  ASSUME NEW line, line.words \in Seq(Names), NEW name
  PROVE  /\ Columns(line, name) \in Seq(Nat) /\ IsInjective(Columns(line, name))
         /\ Range(Columns(line, name)) = {c \in DOMAIN line.words : line.words[c] = name}
<1> DEFINE places == Places(line.words)
           at == {c \in DOMAIN line.words : line.words[c] = name}
<1>1. places \in Seq(Nat) /\ IsInjective(places) /\ Range(places) = DOMAIN line.words
  BY DEF Places, IsInjective, Range
<1> HIDE DEF places
<1>2. Only(places, at) \in Seq(Nat) /\ Range(Only(places, at)) = Range(places) \cap at
  BY <1>1, OnlyKeeps, Zenon
<1>3. IsInjective(Only(places, at))
  BY <1>1, OnlyDistinct, Zenon
<1> USE DEF places
<1>4. Columns(line, name) = Only(places, at)
  BY Zenon DEF Columns
<1> HIDE DEF places
<1>5. Range(places) \cap at = at
  BY <1>1
<1> QED
  BY <1>2, <1>3, <1>4, <1>5

LEMMA WithinIs ==
  ASSUME IInv, NEW i \in DOMAIN docs, NEW name, NEW comments \in BOOLEAN
  PROVE  /\ Within(i, name, comments) \in Seq(Place)
         /\ IsInjective(Within(i, name, comments))
         /\ \A p : p \in Range(Within(i, name, comments)) <=> Counts(p, i, name, comments)
<1> DEFINE text == docs[i].text
           uri == docs[i].uri
           columns == Columns(text[1], name)
           on(k) == [c \in DOMAIN Columns(text[k], name) |->
                       [uri |-> uri, line |-> k, column |-> Columns(text[k], name)[c]]]
           part(k) == IF comments \/ ~IsComment(text[k]) THEN on(k) ELSE <<>>
           parts == [k \in DOMAIN text |-> part(k)]
<1>1. Within(i, name, comments) = FlattenSeq(parts)
  BY Zenon DEF Within
<1>2. uri \in Sources /\ text \in ServerTexts
  BY Table
<1>3. CASE text = <<>>
  <2>1. parts = <<>>
    BY <1>3
  <2>2. FlattenSeq(<<>>) = <<>>
    BY DEF FlattenSeq
  <2>3. Within(i, name, comments) = <<>>
    BY <1>1, <2>1, <2>2
  <2>4. Range(<<>>) = {} /\ IsInjective(<<>>) /\ <<>> \in Seq(Place)
    BY DEF Range, IsInjective
  <2>5. \A p : ~Counts(p, i, name, comments)
    BY <1>3 DEF Counts, Stands
  <2> QED
    BY <2>3, <2>4, <2>5
<1>4. CASE text = <<text[1]>> /\ text[1] \in Line
  <2>1. DOMAIN text = {1} /\ text[1].words \in Seq(Names)
    BY <1>4 DEF Line
  <2>2. /\ columns \in Seq(Nat) /\ IsInjective(columns)
        /\ Range(columns) = {c \in DOMAIN text[1].words : text[1].words[c] = name}
    BY <2>1, ColumnsAre
  <2>3. parts = <<part(1)>>
    BY <2>1
  <2>4. on(1) \in Seq(Place) /\ IsInjective(on(1))
        /\ \A p : p \in Range(on(1)) <=>
                    /\ p \in Place /\ p.uri = uri /\ Stands(text, p.line, p.column, name)
    <3> DEFINE at(c) == [uri |-> uri, line |-> 1, column |-> columns[c]]
               list == [c \in DOMAIN columns |-> at(c)]
    <3>1. on(1) = list
      OBVIOUS
    <3> HIDE DEF columns, on
    <3>2. \A c \in DOMAIN columns : columns[c] \in Nat /\ at(c) \in Place
      BY <1>2, <2>2 DEF Place
    <3>3. list \in Seq(Place) /\ DOMAIN list = DOMAIN columns
      BY <2>2, <3>2
    <3>4. \A c \in DOMAIN columns : list[c].column = columns[c] /\ list[c] = at(c)
      OBVIOUS
    <3> HIDE DEF list
    <3>5. IsInjective(list)
      BY <2>2, <3>3, <3>4 DEF IsInjective
    <3>6. ASSUME NEW p PROVE p \in Range(list) <=>
                    /\ p \in Place /\ p.uri = uri /\ Stands(text, p.line, p.column, name)
      <4>1. ASSUME p \in Range(list)
            PROVE  p \in Place /\ p.uri = uri /\ Stands(text, p.line, p.column, name)
        <5>1. PICK c \in DOMAIN columns : p = at(c)
          BY <3>3, <3>4, <4>1 DEF Range
        <5>2. p \in Place /\ p.uri = uri /\ p.line = 1 /\ p.column = columns[c]
          BY <3>2, <5>1
        <5>3. columns[c] \in Range(columns)
          BY DEF Range
        <5> QED
          BY <2>1, <2>2, <5>2, <5>3 DEF Stands
      <4>2. ASSUME p \in Place, p.uri = uri, Stands(text, p.line, p.column, name)
            PROVE  p \in Range(list)
        <5>1. p.line = 1 /\ p.column \in Range(columns)
          BY <2>1, <2>2, <4>2 DEF Stands
        <5>2. PICK c \in DOMAIN columns : p.column = columns[c]
          BY <5>1 DEF Range
        <5>3. p = at(c)
          BY <4>2, <5>1, <5>2 DEF Place
        <5> QED
          BY <3>3, <3>4, <5>3 DEF Range
      <4> QED
        BY <4>1, <4>2
    <3> QED
      BY <3>1, <3>3, <3>5, <3>6
  <2> HIDE DEF on
  <2>5. /\ part(1) \in Seq(Place) /\ IsInjective(part(1))
        /\ \A p : p \in Range(part(1)) <=> Counts(p, i, name, comments)
    <3>1. \A p \in Place : p.line = 1
      BY DEF Place
    <3>2. CASE comments \/ ~IsComment(text[1])
      BY <2>4, <3>1, <3>2 DEF Counts
    <3>3. CASE ~(comments \/ ~IsComment(text[1]))
      <4>1. part(1) = <<>> /\ <<>> \in Seq(Place) /\ IsInjective(<<>>) /\ Range(<<>>) = {}
        BY <3>3 DEF IsInjective, Range
      <4>2. \A p : ~Counts(p, i, name, comments)
        BY <3>1, <3>3 DEF Counts
      <4> HIDE DEF part
      <4> QED
        BY <4>1, <4>2
    <3> QED
      BY <3>2, <3>3
  <2> HIDE DEF part, parts
  <2>6. FlattenSeq(<<part(1)>>) = part(1)
    <3>1. <<>> \in Seq(Seq(Place)) /\ FlattenSeq(<<>>) = <<>>
      BY DEF FlattenSeq
    <3>2. FlattenSeq(Append(<<>>, part(1))) = FlattenSeq(<<>>) \o part(1)
      BY <2>5, <3>1, FlattenAppend
    <3>3. Append(<<>>, part(1)) = <<part(1)>> /\ <<>> \o part(1) = part(1)
      BY <2>5
    <3> QED
      BY <3>1, <3>2, <3>3
  <2> QED
    BY <1>1, <2>3, <2>5, <2>6
<1> QED
  BY <1>2, <1>3, <1>4, ReceivedLine

\* nls_find_references finds every occurrence of the name once, and nothing
\* else.
LEMMA ReferencesFound ==
  ASSUME IInv, 1 \in Lines, NEW name, NEW comments \in BOOLEAN
  PROVE  LET found == FindReferences(name, comments)
         IN /\ found \in Seq(Place) /\ IsInjective(found)
            /\ Range(found) = Occurrences(name, comments)
            /\ \A p \in Range(found) : \E i \in DOMAIN docs : p.uri = docs[i].uri
            /\ Cardinality(Occurrences(name, comments)) = Len(found)
<1> DEFINE blocks == [i \in DOMAIN docs |-> Within(i, name, comments)]
           found == FindReferences(name, comments)
           all == Occurrences(name, comments)
<1>1. /\ indexDocs = docs /\ docs \in Seq(Entry)
      /\ \A i, j \in DOMAIN docs : docs[i].uri = docs[j].uri => i = j
      /\ \A i \in DOMAIN docs : /\ docs[i].uri \in Sources /\ docs[i].text \in ServerTexts
                                /\ Known(docs[i].uri) /\ Text(docs[i].uri) = docs[i].text
  BY Table
<1>2. found = FlattenSeq(blocks)
  BY <1>1, Zenon DEF FindReferences, Within
<1>3. \A i \in DOMAIN docs :
        /\ Within(i, name, comments) \in Seq(Place) /\ IsInjective(Within(i, name, comments))
        /\ \A p : p \in Range(Within(i, name, comments)) <=> Counts(p, i, name, comments)
  BY WithinIs
<1>4. /\ blocks \in Seq(Seq(Place)) /\ DOMAIN blocks = DOMAIN docs
      /\ \A i \in DOMAIN docs :
           IsInjective(blocks[i]) /\ \A p : p \in Range(blocks[i]) <=> Counts(p, i, name, comments)
  BY <1>1, <1>3
<1> HIDE DEF blocks
<1>5. \A i, j \in DOMAIN blocks : i # j => Range(blocks[i]) \cap Range(blocks[j]) = {}
  BY <1>1, <1>4 DEF Counts
<1>6. IsInjective(FlattenSeq(blocks))
  <2>1. \A i \in DOMAIN blocks : IsInjective(blocks[i])
    BY <1>4
  <2> QED
    BY <1>4, <1>5, <2>1, FlattenDistinct
<1>7. /\ FlattenSeq(blocks) \in Seq(Place)
      /\ Range(FlattenSeq(blocks)) = UNION {Range(blocks[i]) : i \in DOMAIN blocks}
  BY <1>4, FlattenHolds, Zenon
<1> HIDE DEF found
<1>8. \A p : p \in Range(found) <=> \E i \in DOMAIN docs : Counts(p, i, name, comments)
  BY <1>2, <1>4, <1>7
<1>9. ASSUME NEW p, NEW i \in DOMAIN docs, Counts(p, i, name, comments)
      PROVE  p \in all
  <2>1. /\ p \in Place /\ p.uri = docs[i].uri
        /\ Stands(docs[i].text, p.line, p.column, name)
        /\ comments \/ ~IsComment(docs[i].text[p.line])
    BY <1>9 DEF Counts
  <2>2. p.column \in WordColumns
    BY <1>1, <2>1 DEF WordColumns, Stands
  <2>3. p = [uri |-> p.uri, line |-> 1, column |-> p.column] /\ p.uri \in Sources /\ p.line = 1
    BY <2>1 DEF Place
  <2>4. p \in [uri : Sources, line : Lines, column : WordColumns]
    BY <2>2, <2>3
  <2> QED
    BY <1>1, <2>1, <2>4 DEF Occurrences
<1>10. ASSUME NEW p \in all
       PROVE  \E i \in DOMAIN docs : Counts(p, i, name, comments)
  <2>1. /\ p \in [uri : Sources, line : Lines, column : WordColumns] /\ Known(p.uri)
        /\ Stands(Text(p.uri), p.line, p.column, name)
        /\ comments \/ ~IsComment(Text(p.uri)[p.line])
    BY DEF Occurrences
  <2>2. PICK i \in DOMAIN docs : docs[i].uri = p.uri /\ docs[i].text = Text(p.uri)
    BY <2>1, KnownPlace
  <2>3. p.line = 1 /\ p.column \in Nat
    <3>1. /\ docs[i].text \in ServerTexts /\ p.line \in DOMAIN docs[i].text
          /\ p.column \in DOMAIN docs[i].text[p.line].words
      BY <1>1, <2>1, <2>2 DEF Stands
    <3>2. p.line = 1 /\ docs[i].text[1] \in Line
      BY <3>1, ReceivedLine
    <3>3. docs[i].text[1].words \in Seq(Names)
      BY <3>2 DEF Line
    <3> QED
      BY <3>1, <3>2, <3>3
  <2>4. p \in Place
    BY <2>1, <2>3 DEF Place
  <2> QED
    BY <2>1, <2>2, <2>4 DEF Counts
<1> HIDE DEF all
<1>11. Range(found) = all
  BY <1>8, <1>9, <1>10
<1>12. found \in Seq(Place) /\ IsInjective(found)
  BY <1>2, <1>6, <1>7
<1>13. \A p \in Range(found) : \E i \in DOMAIN docs : p.uri = docs[i].uri
  BY <1>8 DEF Counts
<1>14. Cardinality(all) = Len(found)
  BY <1>11, <1>12, DistinctCount
<1> QED
  BY <1>11, <1>12, <1>13, <1>14 DEF found, all

\* The first n of a sequence.
LEMMA PrefixIs ==
  ASSUME NEW A, NEW s \in Seq(A), NEW n \in Nat
  PROVE  /\ Prefix(s, n) \in Seq(A) /\ Len(Prefix(s, n)) <= n
         /\ Range(Prefix(s, n)) \subseteq Range(s)
         /\ IsInjective(s) => IsInjective(Prefix(s, n))
         /\ Len(s) <= n => Prefix(s, n) = s
<1> DEFINE m == Min({Len(s), n})
<1>1. m = IF Len(s) <= n THEN Len(s) ELSE n
  BY DEF Min
<1>2. m \in 0 .. Len(s) /\ m <= n
  BY <1>1
<1> HIDE DEF m
<1>3. /\ SubSeq(s, 1, m) \in Seq(A) /\ Len(SubSeq(s, 1, m)) = m
      /\ Range(SubSeq(s, 1, m)) \subseteq Range(s)
      /\ IsInjective(s) => IsInjective(SubSeq(s, 1, m))
  BY <1>2, FrontIs
<1>4. Prefix(s, n) = SubSeq(s, 1, m)
  BY DEF Prefix, m
<1>5. Len(s) <= n => SubSeq(s, 1, m) = s
  BY <1>1
<1> QED
  BY <1>2, <1>3, <1>4, <1>5

\* The edits of one document.
LEMMA EditsAre ==
  ASSUME NEW found \in Seq(Place), IsInjective(found), NEW uri
  PROVE  /\ EditsOf(uri, found) \in Seq(Place) /\ IsInjective(EditsOf(uri, found))
         /\ Range(EditsOf(uri, found)) \subseteq {p \in Range(found) : p.uri = uri}
         /\ Len(found) <= EditCap
              => Range(EditsOf(uri, found)) = {p \in Range(found) : p.uri = uri}
<1> DEFINE here == {p \in Range(found) : p.uri = uri}
           kept == Only(found, here)
<1>1. /\ kept \in Seq(Place) /\ Len(kept) <= Len(found) /\ Range(kept) = Range(found) \cap here
      /\ IsInjective(kept)
  BY OnlyKeeps, OnlyDistinct, Zenon
<1>2. EditsOf(uri, found) = Prefix(kept, EditCap)
  BY Zenon DEF EditsOf
<1>3. Range(found) \cap here = here /\ EditCap \in Nat /\ Len(found) \in Nat
  BY EditCapsAssumption
<1> HIDE DEF kept, here
<1>4. /\ Prefix(kept, EditCap) \in Seq(Place)
      /\ Range(Prefix(kept, EditCap)) \subseteq Range(kept)
      /\ IsInjective(Prefix(kept, EditCap))
      /\ Len(kept) <= EditCap => Prefix(kept, EditCap) = kept
  BY <1>1, <1>3, PrefixIs, Zenon
<1>5. Len(found) <= EditCap => Len(kept) <= EditCap
  BY <1>1, <1>3
<1> QED
  BY <1>1, <1>2, <1>3, <1>4, <1>5 DEF here

\* The edits of some documents together are references found, none twice; the
\* reply they fill is no more than twice what was found.
LEMMA EditsTogether ==
  ASSUME IInv, NEW found \in Seq(Place), IsInjective(found), NEW n \in 0 .. Len(docs)
  PROVE  /\ EditsUpTo(n, found) \in Seq(Place) /\ IsInjective(EditsUpTo(n, found))
         /\ Range(EditsUpTo(n, found)) \subseteq Range(found)
         /\ Len(found) <= EditCap =>
              Range(EditsUpTo(n, found))
                = {p \in Range(found) : \E i \in 1 .. n : p.uri = docs[i].uri}
         /\ Filled(n, found) \in Nat /\ Filled(n, found) <= 2 * Len(found)
<1> DEFINE own(i) == EditsOf(docs[i].uri, found)
           blocks == [i \in 1 .. n |-> own(i)]
           flat == EditsUpTo(n, found)
           having == {i \in 1 .. n : own(i) # <<>>}
<1>1. /\ docs \in Seq(Entry) /\ n \in Nat /\ 1 .. n \subseteq DOMAIN docs
      /\ \A i, j \in 1 .. n : docs[i].uri = docs[j].uri => i = j
  BY Table
<1>2. flat = FlattenSeq(blocks) /\ Filled(n, found) = Len(flat) + Cardinality(having)
  BY Zenon DEF EditsUpTo, Filled
<1>3. \A i \in 1 .. n :
        /\ own(i) \in Seq(Place) /\ IsInjective(own(i))
        /\ Range(own(i)) \subseteq {p \in Range(found) : p.uri = docs[i].uri}
        /\ Len(found) <= EditCap => Range(own(i)) = {p \in Range(found) : p.uri = docs[i].uri}
  BY EditsAre
<1> HIDE DEF own
<1>4. /\ blocks \in Seq(Seq(Place)) /\ DOMAIN blocks = 1 .. n
      /\ \A i \in 1 .. n : blocks[i] = own(i)
  BY <1>1, <1>3
<1> HIDE DEF blocks
<1>5. /\ FlattenSeq(blocks) \in Seq(Place)
      /\ Range(FlattenSeq(blocks)) = UNION {Range(blocks[i]) : i \in DOMAIN blocks}
  BY <1>4, FlattenHolds, Zenon
<1>6. IsInjective(FlattenSeq(blocks))
  <2>1. \A i \in DOMAIN blocks : IsInjective(blocks[i])
    BY <1>3, <1>4
  <2>2. ASSUME NEW i \in 1 .. n, NEW j \in 1 .. n, i # j
        PROVE  Range(blocks[i]) \cap Range(blocks[j]) = {}
    <3>1. \A p \in Range(own(i)) : p.uri = docs[i].uri
      BY <1>3
    <3>2. \A p \in Range(own(j)) : p.uri = docs[j].uri
      BY <1>3
    <3>3. docs[i].uri # docs[j].uri
      BY <1>1, <2>2
    <3> QED
      BY <1>4, <3>1, <3>2, <3>3
  <2> QED
    BY <1>4, <2>1, <2>2, FlattenDistinct
<1> HIDE DEF flat
<1>7. \A p : p \in Range(flat) <=> \E i \in 1 .. n : p \in Range(own(i))
  BY <1>2, <1>4, <1>5
<1>8. flat \in Seq(Place) /\ IsInjective(flat) /\ Range(flat) \subseteq Range(found)
  BY <1>2, <1>3, <1>5, <1>6, <1>7
<1>9. Len(found) <= EditCap =>
        Range(flat) = {p \in Range(found) : \E i \in 1 .. n : p.uri = docs[i].uri}
  BY <1>3, <1>7
<1>10. /\ IsFiniteSet(Range(found)) /\ Cardinality(Range(found)) = Len(found)
       /\ Cardinality(Range(flat)) = Len(flat) /\ Len(flat) \in Nat /\ Len(found) \in Nat
  <2>1. Cardinality(Range(found)) = Len(found) /\ Cardinality(Range(flat)) = Len(flat)
    BY <1>8, DistinctCount
  <2>2. IsFiniteSet(Range(found))
    <3>1. IsFiniteSet(1 .. Len(found))
      BY FS_Interval
    <3>2. found \in Surjection(1 .. Len(found), Range(found))
      BY DEF Surjection, Range
    <3> QED
      BY <3>1, <3>2, FS_Surjection
  <2> QED
    BY <1>8, <2>1, <2>2
<1>11. Len(flat) <= Len(found)
  BY <1>8, <1>10, FS_Subset
<1>12. Cardinality(having) \in Nat /\ Cardinality(having) <= Len(found)
  <2> DEFINE f == [i \in having |-> own(i)[1]]
  <2>1. \A i \in having : own(i)[1] \in Range(found) /\ own(i)[1].uri = docs[i].uri
    <3> SUFFICES ASSUME NEW i \in having
                 PROVE  own(i)[1] \in Range(found) /\ own(i)[1].uri = docs[i].uri
      OBVIOUS
    <3>1. own(i) \in Seq(Place) /\ own(i) # <<>>
      BY <1>3
    <3>2. own(i)[1] \in Range(own(i))
      BY <3>1 DEF Range
    <3> QED
      BY <1>3, <3>2
  <2>2. f \in [having -> Range(found)] /\ \A i \in having : f[i] = own(i)[1]
    BY <2>1
  <2> HIDE DEF f
  <2>3. f \in Injection(having, Range(found))
    <3>1. \A i, j \in having : f[i] = f[j] => i = j
      BY <1>1, <2>1, <2>2
    <3> HIDE DEF having
    <3> QED
      BY <2>2, <3>1 DEF Injection, IsInjective
  <2>4. IsFiniteSet(having) /\ Cardinality(having) <= Cardinality(Range(found))
    BY <1>10, <2>3, FS_Injection
  <2> QED
    BY <1>10, <2>4, FS_CardinalityType
<1> HIDE DEF having
<1>13. Filled(n, found) \in Nat /\ Filled(n, found) <= 2 * Len(found)
  BY <1>2, <1>10, <1>11, <1>12
<1> QED
  BY <1>8, <1>9, <1>13 DEF flat

\* What the loop of handle_rename makes of the references it looks at.
LEMMA RenameReply ==
  ASSUME IInv, 1 \in Lines, NEW name, NEW comments \in BOOLEAN
  PROVE  LET found == Prefix(FindReferences(name, comments), RenameCap)
             last == LastEdited(found)
             reply == EditsUpTo(last, found)
             all == Occurrences(name, comments)
         IN /\ IsInjective(reply) /\ Range(reply) \subseteq all
            /\ Cardinality(all) \in Nat
            /\ Cardinality(all) <= EditCap => /\ Range(reply) = all
                                              /\ ~(Filled(last, found) > OutSize)
<1> DEFINE refs == FindReferences(name, comments)
           found == Prefix(refs, RenameCap)
           full == {n \in DOMAIN docs : Filled(n, found) >= OutCap}
           last == LastEdited(found)
           all == Occurrences(name, comments)
<1>1. /\ refs \in Seq(Place) /\ IsInjective(refs) /\ Range(refs) = all
      /\ \A p \in Range(refs) : \E i \in DOMAIN docs : p.uri = docs[i].uri
      /\ Cardinality(all) = Len(refs) /\ Len(refs) \in Nat
  BY ReferencesFound
<1> HIDE DEF refs, all
<1>2. /\ EditCap \in Nat /\ OutCap \in Nat /\ OutSize \in Nat /\ RenameCap \in Nat
      /\ EditCap <= RenameCap /\ 2 * EditCap < OutCap /\ OutCap <= OutSize
  BY EditCapsAssumption, IndexCapsAssumption
<1>3. /\ found \in Seq(Place) /\ IsInjective(found) /\ Range(found) \subseteq Range(refs)
      /\ Len(refs) <= EditCap => found = refs
  <2>1. /\ Prefix(refs, RenameCap) \in Seq(Place)
        /\ Range(Prefix(refs, RenameCap)) \subseteq Range(refs)
        /\ IsInjective(Prefix(refs, RenameCap))
        /\ Len(refs) <= RenameCap => Prefix(refs, RenameCap) = refs
    BY <1>1, <1>2, PrefixIs, Zenon
  <2> QED
    BY <1>1, <1>2, <2>1
<1> HIDE DEF found
<1>4. /\ last = IF full = {} THEN Len(docs) ELSE Min(full)
      /\ docs \in Seq(Entry) /\ Len(docs) \in Nat /\ DOMAIN docs = 1 .. Len(docs)
  <2>1. last = IF full = {} THEN Len(docs) ELSE Min(full)
    BY Zenon DEF LastEdited
  <2>2. docs \in Seq(Entry)
    BY Table
  <2> HIDE DEF last, full
  <2> QED
    BY <2>1, <2>2
<1> HIDE DEF last
<1>5. full \in SUBSET Nat /\ full \subseteq 1 .. Len(docs)
  BY <1>4
<1>6. last \in 0 .. Len(docs)
  <2>1. CASE full = {}
    BY <1>4, <2>1
  <2>2. CASE full # {}
    <3> HIDE DEF full
    <3>1. \E x \in full : \A y \in full : x <= y
      BY <1>5, <2>2, LeastNumber
    <3>2. Min(full) \in full
      BY <3>1 DEF Min
    <3>3. 1 .. Len(docs) \subseteq 0 .. Len(docs)
      BY <1>4
    <3> QED
      BY <1>4, <1>5, <2>2, <3>2, <3>3
  <2> QED
    BY <2>1, <2>2
<1>7. \A n \in 0 .. Len(docs) :
        /\ IsInjective(EditsUpTo(n, found)) /\ Range(EditsUpTo(n, found)) \subseteq Range(found)
        /\ Len(found) <= EditCap =>
              Range(EditsUpTo(n, found))
                = {p \in Range(found) : \E i \in 1 .. n : p.uri = docs[i].uri}
        /\ Filled(n, found) \in Nat /\ Filled(n, found) <= 2 * Len(found)
  BY <1>3, EditsTogether
<1>8. IsInjective(EditsUpTo(last, found)) /\ Range(EditsUpTo(last, found)) \subseteq all
  BY <1>1, <1>3, <1>6, <1>7
<1>9. ASSUME Len(refs) <= EditCap
      PROVE  Range(EditsUpTo(last, found)) = all /\ ~(Filled(last, found) > OutSize)
  <2>1. found = refs /\ Len(found) \in Nat /\ Len(found) <= EditCap
    BY <1>1, <1>3, <1>9
  <2>2. \A n \in 0 .. Len(docs) : Filled(n, found) < OutCap /\ ~(Filled(n, found) >= OutCap)
    BY <1>2, <1>7, <2>1
  <2>3. full = {}
    BY <1>4, <2>2
  <2> HIDE DEF full
  <2>4. last = Len(docs)
    BY <1>4, <2>3
  <2>5. Range(EditsUpTo(last, found))
          = {p \in Range(found) : \E i \in 1 .. Len(docs) : p.uri = docs[i].uri}
    BY <1>6, <1>7, <2>1, <2>4
  <2>6. Range(EditsUpTo(last, found)) = Range(found)
    BY <1>1, <1>4, <2>1, <2>5
  <2>7. ~(Filled(last, found) > OutSize)
    BY <1>2, <1>6, <1>7, <2>2
  <2> QED
    BY <1>1, <2>1, <2>6, <2>7
<1> QED
  BY <1>1, <1>8, <1>9 DEF refs, found, last, all

\* nls_collect_document_symbols returns what the text declares.
LEMMA DocumentSymbolsFound ==
  ASSUME IInv, RoomForAll, NEW uri
  PROVE  /\ Known(uri) => DocumentSymbols(uri) = SymbolsIn(uri, Text(uri))
         /\ ~Known(uri) => DocumentSymbols(uri) = <<>>
<1> DEFINE block(i) == SymbolsIn(docs[i].uri, docs[i].text)
           blocks == [i \in DOMAIN docs |-> block(i)]
           S == {s \in Range(symbols) : s.uri = uri}
<1>1. /\ blocks \in Seq(Seq(Symbol)) /\ DOMAIN blocks = DOMAIN docs
      /\ symbols = FlattenSeq(blocks) /\ symbols \in Seq(Symbol)
      /\ Range(symbols) = UNION {Range(block(i)) : i \in DOMAIN docs}
  BY AllIndexed, SymbolTable, Zenon
<1>2. \A i \in DOMAIN docs : \A s \in Range(block(i)) : s.uri = docs[i].uri
  BY Table, OneSymbol
<1>3. \A i \in DOMAIN docs : blocks[i] = block(i)
  OBVIOUS
<1> HIDE DEF block, blocks
<1>4. ASSUME Known(uri)
      PROVE  DocumentSymbols(uri) = SymbolsIn(uri, Text(uri))
  <2>1. PICK j \in DOMAIN docs : docs[j].uri = uri /\ docs[j].text = Text(uri)
    BY <1>4, KnownPlace
  <2>2. \A i \in DOMAIN docs : i # j => docs[i].uri # uri
    BY <2>1, Table
  <2>3. j \in DOMAIN blocks /\ Range(blocks[j]) \subseteq S
    BY <1>1, <1>2, <1>3, <2>1
  <2>4. ASSUME NEW i \in DOMAIN blocks, i # j
        PROVE  Range(blocks[i]) \cap S = {}
    <3>1. \A s \in Range(blocks[i]) : s.uri # uri
      BY <1>1, <1>2, <1>3, <2>2, <2>4
    <3> QED
      BY <3>1, Zenon
  <2>5. Only(FlattenSeq(blocks), S) = blocks[j]
    <3> HIDE DEF S
    <3> QED
      BY <1>1, <2>3, <2>4, OnlyOfFlatten, Zenon
  <2>6. blocks[j] = SymbolsIn(uri, Text(uri))
    BY <1>3, <2>1 DEF block
  <2>7. DocumentSymbols(uri) = Only(FlattenSeq(blocks), S)
    BY <1>1 DEF DocumentSymbols
  <2> QED
    BY <2>5, <2>6, <2>7
<1>5. ASSUME ~Known(uri)
      PROVE  DocumentSymbols(uri) = <<>>
  <2>1. \A i \in DOMAIN docs : docs[i].uri # uri
    BY <1>5 DEF Known, Holds
  <2>2. Range(symbols) \cap S = {}
    <3>1. \A s \in Range(symbols) : s.uri # uri
      BY <1>1, <1>2, <2>1
    <3> QED
      BY <3>1, Zenon
  <2>3. Only(symbols, S) = <<>>
    <3> HIDE DEF S
    <3> QED
      BY <1>1, <2>2, OnlyAllOrNone, Zenon
  <2> QED
    BY <2>3 DEF DocumentSymbols
<1> QED
  BY <1>4, <1>5

\* The turn that reads a request of these methods is the action for it.
LEMMA LookupTurns ==
  ASSUME NEW req \in Messages, Handle(req)
  PROVE  /\ req.method = "definition" => Definition(req)
         /\ req.method = "references" => References(req)
         /\ req.method = "rename" => Rename(req)
         /\ req.method = "documentSymbol" => SymbolList(req)
BY DEF Handle, DidOpenOrChange, DocumentUpdates, Definition, OwnDeclaration,
       References, Rename, Hover, PrepareRename, SelectionRange, SignatureHelp, Completion,
       SymbolList, Formatting, RangeFormatting, InlayHint, FoldingRange, PullDiagnostic,
       RefactorPreview, Acknowledge, SemanticTokens, CodeAction, Initialize, Ignore, Exit

\* Only a request with these methods asks for every place of a name.
LEMMA CommentsAsked ==
  ASSUME NEW req \in Messages, req.method \in WorkspaceEditMethods
  PROVE  req \in WorkspaceEditRequests /\ req.comments \in BOOLEAN /\ req.line \in Lines
<1>1. req \in WorkspaceEditRequests
  BY DEF Messages, Requests, DocumentUpdates, DocumentClosings, PositionRequests,
         DocumentRequests, RangeRequests, PlainRequests, Exits, WorkspaceEditMethods,
         PositionMethods, DocumentMethods, RangeMethods, PlainMethods
<1> QED
  BY <1>1 DEF WorkspaceEditRequests

\* A definition request is never sent to a line that does not declare the name
\* in the text served now.
THEOREM DefinitionsAlwaysCurrent ==
  ASSUME RoomForAll PROVE Spec => []DefinitionIsCurrent
<1>1. Init => DefinitionIsCurrent
  BY DEF Init, DefinitionIsCurrent, NoMessage
<1>2. ASSUME IInv, DefinitionIsCurrent, [Next]_vars
      PROVE  DefinitionIsCurrent'
  <2>1. ASSUME NEW req \in Messages, Handle(req) PROVE DefinitionIsCurrent'
    <3>0. request' = req
      BY <2>1 DEF Handle
    <3> DEFINE there == sent'.result
    <3> SUFFICES ASSUME req.method = "definition", there.kind = "location"
                 PROVE  /\ Holds(docs', there.uri)
                        /\ there.line \in DOMAIN TextOf(docs', there.uri)
                        /\ Declares(TextOf(docs', there.uri)[there.line])
                        /\ TextOf(docs', there.uri)[there.line].name = req.name
      BY <3>0 DEF DefinitionIsCurrent, Known, Text
    <3>1. Definition(req)
      BY <2>1, LookupTurns
    <3>2. /\ docs' = docs
          /\ there = IF SymbolAt(req) THEN FindDefinition(req.name, req.uri) ELSE Null
      BY <3>1 DEF Definition, Answer, Respond
    <3>3. there # Null
      BY DEF Null
    <3>4. PICK i \in DOMAIN docs : /\ DeclaredIn(docs[i].text, req.name)
                                   /\ there = Location(docs[i].uri, 1)
      BY <1>2, <3>2, <3>3, AllIndexed, DefinitionFound
    <3>5. /\ there.uri = docs[i].uri /\ there.line = 1
          /\ Known(docs[i].uri) /\ Text(docs[i].uri) = docs[i].text
      BY <1>2, <3>4, Table DEF Location
    <3> QED
      BY <3>2, <3>4, <3>5 DEF DeclaredIn, Known, Text
  <2>2. CASE UNCHANGED vars
    BY <1>2, <2>2 DEF DefinitionIsCurrent, Known, Text, vars, serverVars
  <2> QED
    BY <1>2, <2>1, <2>2 DEF Next
<1> QED
  BY <1>1, <1>2, Invariant, PTL DEF Spec

\* A request that points at something is about the one line a text has.
LEMMA PointedLine ==
  ASSUME IInv, NEW req, req.line \in Lines, SymbolAt(req)
  PROVE  1 \in Lines
<1>1. Text(req.uri) \in ServerTexts /\ req.line \in DOMAIN Text(req.uri)
  BY KnownPlace DEF SymbolAt, OccursAt
<1>2. req.line = 1
  BY <1>1, ReceivedLine
<1> QED
  BY <1>2

\* What a rename is answered with.
LEMMA RenameAnswers ==
  ASSUME IInv, NEW req \in Messages, Rename(req)
  PROVE  LET all == Occurrences(req.name, req.comments)
         IN IF ~SymbolAt(req) THEN sent'.result = Null
            ELSE /\ Cardinality(all) \in Nat
                 /\ \/ sent'.result = Overrun /\ ~(Cardinality(all) <= EditCap)
                    \/ \E places :
                         /\ sent'.result = Edits(places)
                         /\ IsInjective(places) /\ Range(places) \subseteq all
                         /\ Cardinality(all) <= EditCap => Range(places) = all
<1> DEFINE found == Prefix(FindReferences(req.name, req.comments), RenameCap)
           last == LastEdited(found)
           reply == EditsUpTo(last, found)
           all == Occurrences(req.name, req.comments)
<1>1. req.comments \in BOOLEAN /\ req.line \in Lines
  BY CommentsAsked DEF Rename, WorkspaceEditMethods
<1>2. sent'.result = IF ~SymbolAt(req) THEN Null
                     ELSE IF Filled(last, found) > OutSize THEN Overrun ELSE Edits(reply)
  BY Zenon DEF Rename, Answer, Respond
<1>3. CASE SymbolAt(req)
  <2>1. /\ IsInjective(reply) /\ Range(reply) \subseteq all
        /\ Cardinality(all) \in Nat
        /\ Cardinality(all) <= EditCap => /\ Range(reply) = all
                                          /\ ~(Filled(last, found) > OutSize)
    BY <1>1, <1>3, PointedLine, RenameReply, Zenon
  <2> HIDE DEF reply, last, found, all
  <2>2. CASE Filled(last, found) > OutSize
    BY <1>2, <1>3, <2>1, <2>2 DEF all
  <2>3. CASE ~(Filled(last, found) > OutSize)
    BY <1>2, <1>3, <2>1, <2>3 DEF all
  <2> QED
    BY <2>2, <2>3
<1>4. CASE ~SymbolAt(req)
  BY <1>2, <1>4
<1> QED
  BY <1>3, <1>4

\* A rename edits occurrences of the name in served texts only, none twice, and
\* all of them as long as one document's buffer would take them.
THEOREM RenamesAlwaysComplete == Spec => []RenameIsComplete
<1>1. Init => RenameIsComplete
  BY DEF Init, RenameIsComplete, NoMessage
<1>2. ASSUME IInv, RenameIsComplete, [Next]_vars
      PROVE  RenameIsComplete'
  <2>1. ASSUME NEW req \in Messages, Handle(req) PROVE RenameIsComplete'
    <3>0. request' = req
      BY <2>1 DEF Handle
    <3> DEFINE all == Occurrences(req.name, req.comments)
               result == sent'.result
    <3>1. SUFFICES ASSUME req.method = "rename", result.kind \in {"edits", "overrun"}
                   PROVE  /\ result.kind = "overrun" => ~(Cardinality(all') <= EditCap)
                          /\ result.kind = "edits" =>
                               /\ IsInjective(result.places)
                               /\ ToSet(result.places) \subseteq all'
                               /\ Cardinality(all') <= EditCap => ToSet(result.places) = all'
      BY <3>0, Zenon DEF RenameIsComplete
    <3>2. Rename(req)
      BY <2>1, <3>1, LookupTurns
    <3>3. IF ~SymbolAt(req) THEN result = Null
          ELSE \/ result = Overrun /\ ~(Cardinality(all) <= EditCap)
               \/ \E places :
                    /\ result = Edits(places)
                    /\ IsInjective(places) /\ Range(places) \subseteq all
                    /\ Cardinality(all) <= EditCap => Range(places) = all
      BY <1>2, <3>2, RenameAnswers, Zenon
    <3>4. docs' = docs
      BY <3>2, Zenon DEF Rename, Answer
    <3>5. all' = all
      BY <3>4 DEF Occurrences, Known, Text
    <3> HIDE DEF all, result
    <3>6. SymbolAt(req)
      BY <3>1, <3>3 DEF Null
    <3>7. CASE result = Overrun /\ ~(Cardinality(all) <= EditCap)
      BY <3>5, <3>7 DEF Overrun
    <3>8. ASSUME NEW places, result = Edits(places), IsInjective(places),
                 Range(places) \subseteq all,
                 Cardinality(all) <= EditCap => Range(places) = all
          PROVE  /\ result.kind = "overrun" => ~(Cardinality(all') <= EditCap)
                 /\ result.kind = "edits" =>
                      /\ IsInjective(result.places)
                      /\ ToSet(result.places) \subseteq all'
                      /\ Cardinality(all') <= EditCap => ToSet(result.places) = all'
      <4>1. result.kind = "edits" /\ result.places = places
        BY <3>8 DEF Edits
      <4>2. ToSet(places) = Range(places)
        BY DEF ToSet, Range
      <4> QED
        BY <3>5, <3>8, <4>1, <4>2
    <3> QED
      BY <3>3, <3>6, <3>7, <3>8
  <2>2. CASE UNCHANGED vars
    <3>1. docs' = docs /\ request' = request /\ sent' = sent
      BY <2>2 DEF vars, serverVars
    <3>2. \A name, comments : Occurrences(name, comments)' = Occurrences(name, comments)
      BY <3>1 DEF Occurrences, Known, Text
    <3> QED
      BY <1>2, <3>1, <3>2 DEF RenameIsComplete
  <2> QED
    BY <1>2, <2>1, <2>2 DEF Next
<1> QED
  BY <1>1, <1>2, Invariant, PTL DEF Spec

-----------------------------------------------------------------------------
(* The abstract service.  Its module brings its own copies of the          *)
(* definitions about messages and texts, which say the same.               *)

LEMMA SameMessages ==
  /\ Service!Messages = Messages /\ Service!Requests = Requests
  /\ Service!DocumentUpdates = DocumentUpdates
  /\ Service!WorkspaceEditMethods = WorkspaceEditMethods
  /\ Service!Silence = Silence /\ Service!NoMessage = NoMessage /\ Service!Null = Null
<1> USE Zenon DEF Service!Uris, Uris,
      Service!DocumentUpdates, DocumentUpdates, Service!DocumentClosings, DocumentClosings,
      Service!PositionMethods, PositionMethods, Service!PositionRequests, PositionRequests,
      Service!WorkspaceEditMethods, WorkspaceEditMethods,
      Service!WorkspaceEditRequests, WorkspaceEditRequests,
      Service!DocumentMethods, DocumentMethods, Service!DocumentRequests, DocumentRequests,
      Service!RangeMethods, RangeMethods, Service!RangeRequests, RangeRequests,
      Service!PlainMethods, PlainMethods, Service!PlainRequests, PlainRequests,
      Service!Exits, Exits, Service!Requests, Requests
<1>1. Service!Requests = Requests /\ Service!DocumentUpdates = DocumentUpdates
  OBVIOUS
<1>2. Service!Messages = Messages
  BY Zenon DEF Service!Messages, Messages
<1>3. Service!WorkspaceEditMethods = WorkspaceEditMethods
  OBVIOUS
<1> QED
  BY <1>1, <1>2, <1>3
     DEF Service!Silence, Silence, Service!NoMessage, NoMessage, Service!Null, Null

LEMMA SameAnswers ==
  /\ \A uri, error : Service!Publish(uri, error) = Publish(uri, error)
  /\ \A uri, line : Service!Location(uri, line) = Location(uri, line)
  /\ \A data : Service!TokenData(data) = TokenData(data)
  /\ \A list : Service!Symbols(list) = Symbols(list)
  /\ \A places : Service!Edits(places) = Edits(places)
  /\ \A places : Service!Locations(places) = Locations(places)
  /\ Service!Overrun = Overrun
BY Zenon DEF Service!Edits, Edits, Service!Locations, Locations, Service!Overrun, Overrun, Service!Publish, Publish, Service!Location, Location,
             Service!TokenData, TokenData, Service!Symbols, Symbols

LEMMA SameCardinality ==
  ASSUME NEW S PROVE Service!Cardinality(S) = Cardinality(S)
BY Zenon DEF Service!Cardinality, Cardinality, Service!IsFiniteSet, IsFiniteSet

LEMMA SameReading ==
  ASSUME NEW text
  PROVE  /\ Service!Received(text) = Received(text)
         /\ Service!Parses(text) <=> Parses(text)
<1>1. Service!Received(text) = Received(text)
  BY Zenon DEF Service!Received, Received, Service!Min, Min, Service!FlattenSeq, FlattenSeq
<1>2. Service!Parses(text) <=> Parses(text)
  BY SameCardinality, Zenon
     DEF Service!Parses, Parses, Service!Depth, Depth, Service!IsComment, IsComment,
         Service!Quantify, Quantify
<1> QED
  BY <1>1, <1>2

LEMMA SameScanning ==
  ASSUME NEW text
  PROVE  /\ Service!Tokens(text) = Tokens(text)
         /\ \A uri : Service!SymbolsIn(uri, text) = SymbolsIn(uri, text)
         /\ \A line, name : Service!OccursAt(text, line, name) <=> OccursAt(text, line, name)
         /\ \A line, column, name :
              Service!Stands(text, line, column, name) <=> Stands(text, line, column, name)
<1>1. Service!DeclLines(text) = DeclLines(text)
  BY Zenon DEF Service!DeclLines, DeclLines, Service!Places, Places,
               Service!Declares, Declares, Service!Only, Only
<1>2. Service!Tokens(text) = Tokens(text)
  BY Zenon DEF Service!Tokens, Tokens, Service!DeclLines, DeclLines, Service!Places, Places,
               Service!Declares, Declares, Service!Only, Only
<1>3. \A uri : Service!SymbolsIn(uri, text) = SymbolsIn(uri, text)
  BY <1>1, Zenon DEF Service!SymbolsIn, SymbolsIn, Service!Excluded, Excluded,
                     Service!Documented, Documented, Service!Declares, Declares
<1>4. \A line, name : Service!OccursAt(text, line, name) <=> OccursAt(text, line, name)
  BY Zenon DEF Service!OccursAt, OccursAt, Service!Range, Range
<1>5. \A line, column, name :
        Service!Stands(text, line, column, name) <=> Stands(text, line, column, name)
  BY Zenon DEF Service!Stands, Stands
<1> QED
  BY <1>2, <1>3, <1>4, <1>5

LEMMA SameLooks ==
  /\ \A seq : Service!ToSet(seq) = Range(seq)
  /\ \A line : Service!Declares(line) <=> Declares(line)
  /\ \A line : Service!IsComment(line) <=> IsComment(line)
  /\ \A seq : Service!IsInjective(seq) <=> IsInjective(seq)
  /\ Service!WordColumns = WordColumns
<1>1. Service!WordColumns = WordColumns
  <2>1. Service!ServerTexts = ServerTexts
    BY SameReading, Zenon DEF Service!ServerTexts, ServerTexts
  <2> QED
    BY <2>1, Zenon DEF Service!WordColumns, WordColumns
<1> QED
  BY <1>1, Zenon DEF Service!ToSet, Range, Service!Declares, Declares,
                     Service!IsComment, IsComment, Service!IsInjective, IsInjective

\* The served texts are those of the documents the table holds.
LEMMA ServedTexts ==
  /\ \A uri : uri \in DOMAIN Served <=> Known(uri)
  /\ \A uri : Known(uri) => Served[uri] = Text(uri)
BY DEF Served, Known, Holds

\* As many texts are served as the table has entries.
LEMMA ServedCount ==
  ASSUME IInv
  PROVE  Cardinality(DOMAIN Served) = Len(docs)
<1> DEFINE uris == {docs[i].uri : i \in DOMAIN docs}
           f == [i \in 1 .. Len(docs) |-> docs[i].uri]
<1>1. /\ docs \in Seq(Entry) /\ Len(docs) \in Nat /\ DOMAIN docs = 1 .. Len(docs)
      /\ \A i, j \in DOMAIN docs : docs[i].uri = docs[j].uri => i = j
  BY Table
<1>2. f \in Bijection(1 .. Len(docs), uris)
  <2>1. f \in Injection(1 .. Len(docs), uris)
    <3>1. \A i \in 1 .. Len(docs) : f[i] = docs[i].uri /\ f[i] \in uris
      BY <1>1
    <3>2. f \in [1 .. Len(docs) -> uris]
      BY <3>1
    <3>3. \A i, j \in 1 .. Len(docs) : f[i] = f[j] => i = j
      BY <1>1, <3>1
    <3> HIDE DEF f, uris
    <3> QED
      BY <3>2, <3>3 DEF Injection, IsInjective
  <2>2. f \in Surjection(1 .. Len(docs), uris)
    BY <1>1 DEF Surjection
  <2> QED
    BY <2>1, <2>2 DEF Bijection
<1>3. Cardinality(uris) = Len(docs)
  BY <1>1, <1>2, FS_CountingElements DEF ExistsBijection
<1>4. DOMAIN Served = uris
  BY DEF Served
<1> QED
  BY <1>3, <1>4

\* As long as the table is the same, so is what is served.
LEMMA ServedStays ==
  ASSUME docs' = docs
  PROVE  Served' = Served
BY DEF Served, Text

\* Storing a document serves its new text, and the others as before.
LEMMA StoredServes ==
  ASSUME IInv, NEW uri \in Sources, NEW text \in ServerTexts,
         docs' = Stored(docs, uri, text)
  PROVE  Served' = [u \in DOMAIN Served \cup {uri} |-> IF u = uri THEN text ELSE Served[u]]
<1> DEFINE new == Stored(docs, uri, text)
           e == [uri |-> uri, text |-> text]
<1>1. /\ docs \in Seq(Entry)
      /\ \A i, j \in DOMAIN docs : docs[i].uri = docs[j].uri => i = j
      /\ \A i \in DOMAIN docs : Known(docs[i].uri) /\ Text(docs[i].uri) = docs[i].text
  BY Table
<1>2. Served' = [u \in {new[i].uri : i \in DOMAIN new} |-> TextOf(new, u)]
  BY DEF Served, Text
<1>3. /\ \A i \in DOMAIN new : \/ new[i] = e
                               \/ i \in DOMAIN docs /\ new[i] = docs[i] /\ docs[i].uri # uri
      /\ \A i, j \in DOMAIN new : new[i].uri = new[j].uri => i = j
      /\ Holds(new, uri) /\ \A other : Holds(docs, other) => Holds(new, other)
  BY <1>1, StoredEntries, StoredOnce, StoredKeeps
<1>4. e.uri = uri /\ e.text = text
  OBVIOUS
<1> HIDE DEF new, e
<1>5. {new[i].uri : i \in DOMAIN new} = DOMAIN Served \cup {uri}
  <2>1. ASSUME NEW i \in DOMAIN new
        PROVE  new[i].uri \in DOMAIN Served \cup {uri}
    BY <1>1, <1>3, <1>4, ServedTexts
  <2>2. ASSUME NEW u \in DOMAIN Served \cup {uri}
        PROVE  \E i \in DOMAIN new : new[i].uri = u
    BY <1>3, ServedTexts DEF Known, Holds
  <2> QED
    BY <2>1, <2>2
<1>6. ASSUME NEW u \in DOMAIN Served \cup {uri}
      PROVE  TextOf(new, u) = IF u = uri THEN text ELSE Served[u]
  <2>1. PICK i \in DOMAIN new : new[i].uri = u
    BY <1>5
  <2>2. TextOf(new, u) = new[i].text
    BY <1>3, <2>1 DEF TextOf
  <2>3. CASE new[i] = e
    BY <1>4, <2>1, <2>2, <2>3
  <2>4. CASE i \in DOMAIN docs /\ new[i] = docs[i] /\ docs[i].uri # uri
    <3>1. Known(u) /\ Text(u) = new[i].text
      BY <1>1, <2>1, <2>4
    <3> QED
      BY <2>1, <2>2, <2>4, <3>1, ServedTexts
  <2> QED
    BY <1>3, <2>3, <2>4
<1> QED
  BY <1>2, <1>5, <1>6

\* An update is one of the service: the table refuses a document only once it
\* serves as many as it has slots.
LEMMA UpdateRefines ==
  ASSUME IInv, NEW req \in Messages, DidOpenOrChange(req)
  PROVE  Service!Update(req)
<1> DEFINE text == Received(req.text)
<1>1. /\ req \in DocumentUpdates /\ req.uri \in Uris /\ req.text \in Texts
      /\ text \in ServerTexts
  BY DEF DidOpenOrChange, DocumentUpdates, ServerTexts
<1>2. docs \in Seq(Entry) /\ Len(docs) <= DocCap /\ Len(docs) \in Nat /\ DocCap \in Nat
  BY Table, DocCapAssumption
<1> HIDE DEF text
<1>3. CASE req.uri \in Others
  <2>1. docs' = docs /\ sent' = Publish(req.uri, FALSE)
    BY <1>3, DocumentsAssumption DEF DidOpenOrChange
  <2>2. Served' = Served /\ sent' = Service!Publish(req.uri, FALSE)
    BY <2>1, ServedStays, SameAnswers, Zenon
  <2> QED
    BY <1>1, <1>3, <2>2, SameMessages, Zenon DEF Service!Update
<1>4. CASE req.uri \in Sources /\ HasRoom(docs, DocCap, req.uri)
  <2>1. docs' = Stored(docs, req.uri, text) /\ sent' = Publish(req.uri, ~Parses(text))
    BY <1>4, DocumentsAssumption DEF DidOpenOrChange, AnalyzeAndPublish, text
  <2>2. Served' = Service!With(req.uri, Service!Received(req.text))
    <3>1. Service!Received(req.text) = text
      BY SameReading, Zenon DEF text
    <3>2. Served' = [u \in DOMAIN Served \cup {req.uri} |->
                       IF u = req.uri THEN text ELSE Served[u]]
      BY <1>1, <1>4, <2>1, StoredServes, Zenon
    <3> QED
      BY <3>1, <3>2, Zenon DEF Service!With
  <2>3. sent' = Service!Publish(req.uri, ~Service!Parses(Service!Received(req.text)))
    <3>1. Service!Received(req.text) = text
      BY SameReading, Zenon DEF text
    <3>2. Service!Parses(text) <=> Parses(text)
      BY SameReading, Zenon
    <3>3. sent' = Service!Publish(req.uri, ~Parses(text))
      BY <2>1, SameAnswers, Zenon
    <3>4. (~Service!Parses(text)) = (~Parses(text))
      BY <3>2
    <3> QED
      BY <3>1, <3>3, <3>4, Zenon
  <2> QED
    BY <1>1, <1>4, <2>2, <2>3, SameMessages, Zenon DEF Service!Update
<1>5. CASE req.uri \in Sources /\ ~HasRoom(docs, DocCap, req.uri)
  <2>1. docs' = docs /\ sent' = Silence
    BY <1>5, DocumentsAssumption DEF DidOpenOrChange
  <2>2. Served' = Served /\ sent' = Service!Silence
    BY <2>1, ServedStays, SameMessages, Zenon
  <2>3. req.uri \in Sources \ DOMAIN Served
    BY <1>5, ServedTexts DEF HasRoom, Known
  <2>4. Service!Cardinality(DOMAIN Served) >= DocCap
    <3>1. Cardinality(DOMAIN Served) = Len(docs)
      BY ServedCount
    <3>2. Service!Cardinality(DOMAIN Served) = Len(docs)
      BY <3>1, SameCardinality, Zenon
    <3>3. Len(docs) >= DocCap
      BY <1>2, <1>5 DEF HasRoom
    <3> QED
      BY <3>2, <3>3
  <2> QED
    BY <1>1, <2>2, <2>3, <2>4, SameMessages, Zenon DEF Service!Update
<1> QED
  BY <1>1, <1>3, <1>4, <1>5 DEF Uris

\* The messages that are neither updates nor closings nor the end are requests.
LEMMA IsRequest ==
  ASSUME NEW req \in Messages,
         req.method \notin {"didOpen", "didChange", "didClose", "exit"}
  PROVE  req \in Requests /\ req.id \in Ids
<1>1. req \in Requests
  BY DEF Messages, DocumentUpdates, DocumentClosings, Exits
<1> QED
  BY <1>1 DEF Requests, PositionRequests, WorkspaceEditRequests, DocumentRequests,
              RangeRequests, PlainRequests

\* A good answer that leaves the table as it is, is one of the service.
LEMMA AskRefines ==
  ASSUME NEW req \in Messages, NEW result,
         req.method \notin {"didOpen", "didChange", "didClose", "exit", "unknown"},
         docs' = docs, sent' = Respond(req.id, result), Service!Good(req, result)
  PROVE  Service!Ask(req)
<1>1. req \in Service!Requests
  BY IsRequest, SameMessages, Zenon
<1>2. Served' = Served
  BY ServedStays
<1>3. sent'.type = "response" /\ sent'.id = req.id /\ sent'.result = result
  BY DEF Respond
<1>4. req.method # "unknown" /\ Service!Good(req, sent'.result)
  BY <1>3
<1> QED
  BY <1>1, <1>2, <1>3, <1>4, Zenon DEF Service!Ask

\* The methods whose answers the service says something about.
Promised == {"definition", "references", "rename", "semanticTokens", "diagnostic",
             "documentSymbol"}

LEMMA OthersAreGood ==
  ASSUME NEW req, NEW result, req.method \notin Promised
  PROVE  Service!Good(req, result)
BY DEF Service!Good, Service!WorkspaceEditMethods, Promised

\* Where the identifier of a request is, for the server and for the service.
LEMMA SamePointing ==
  ASSUME NEW req
  PROVE  Service!Pointed(req) <=> SymbolAt(req)
<1>1. Service!Pointed(req)
        <=> req.uri \in DOMAIN Served /\ OccursAt(Served[req.uri], req.line, req.name)
  BY SameScanning, Zenon DEF Service!Pointed
<1> QED
  BY <1>1, ServedTexts, Zenon DEF SymbolAt

\* The declarations the service speaks of.
LEMMA ServiceDeclarations ==
  ASSUME IInv, NEW name, 1 \in Lines
  PROVE  \A p : p \in Service!Declarations(name) <=>
           \E i \in DOMAIN docs : /\ DeclaredIn(docs[i].text, name)
                                  /\ p = [uri |-> docs[i].uri, line |-> 1]
<1> DEFINE all == {p \in [uri : DOMAIN Served, line : Lines] :
                     /\ p.line \in DOMAIN Served[p.uri]
                     /\ Declares(Served[p.uri][p.line])
                     /\ Served[p.uri][p.line].name = name}
<1>1. Service!Declarations(name) = all
  BY SameLooks, Zenon DEF Service!Declarations
<1>2. \A i \in DOMAIN docs : /\ docs[i].text \in ServerTexts
                             /\ docs[i].uri \in DOMAIN Served
                             /\ Served[docs[i].uri] = docs[i].text
  BY Table, ServedTexts
<1>3. ASSUME NEW i \in DOMAIN docs, DeclaredIn(docs[i].text, name)
      PROVE  [uri |-> docs[i].uri, line |-> 1] \in all
  BY <1>2, <1>3 DEF DeclaredIn
<1>4. ASSUME NEW p \in all
      PROVE  \E i \in DOMAIN docs : /\ DeclaredIn(docs[i].text, name)
                                    /\ p = [uri |-> docs[i].uri, line |-> 1]
  <2>1. /\ p \in [uri : DOMAIN Served, line : Lines]
        /\ p.line \in DOMAIN Served[p.uri]
        /\ Declares(Served[p.uri][p.line])
        /\ Served[p.uri][p.line].name = name
    OBVIOUS
  <2>2. PICK i \in DOMAIN docs : docs[i].uri = p.uri
    BY <2>1, ServedTexts DEF Known, Holds
  <2>3. p.line = 1
    BY <1>2, <2>1, <2>2, ReceivedLine
  <2>4. p = [uri |-> p.uri, line |-> p.line]
    BY <2>1
  <2> QED
    BY <1>2, <2>1, <2>2, <2>3, <2>4 DEF DeclaredIn
<1> HIDE DEF all
<1> QED
  BY <1>1, <1>3, <1>4

LEMMA DefinitionIsGood ==
  ASSUME IInv, RoomForAll, NEW req, req.line \in Lines
  PROVE  Service!GoodDefinition(req,
           IF SymbolAt(req) THEN FindDefinition(req.name, req.uri) ELSE Null)
<1> DEFINE result == IF SymbolAt(req) THEN FindDefinition(req.name, req.uri) ELSE Null
           all == IF Service!Pointed(req) THEN Service!Declarations(req.name) ELSE {}
           own == {p \in all : p.uri = req.uri}
<1>1. IF all = {} THEN result = Null
      ELSE \E p \in (IF own # {} THEN own ELSE all) : result = Location(p.uri, p.line)
  <2>1. CASE ~SymbolAt(req)
    BY <2>1, SamePointing
  <2>2. CASE SymbolAt(req)
    <3>1. \A p : p \in all <=>
            \E i \in DOMAIN docs : /\ DeclaredIn(docs[i].text, req.name)
                                   /\ p = [uri |-> docs[i].uri, line |-> 1]
      BY <2>2, SamePointing, PointedLine, ServiceDeclarations
    <3>2. result = FindDefinition(req.name, req.uri)
      BY <2>2
    <3> HIDE DEF result, all
    <3>3. CASE result = Null /\ \A i \in DOMAIN docs : ~DeclaredIn(docs[i].text, req.name)
      BY <3>1, <3>3
    <3>4. CASE \E i \in DOMAIN docs :
                 /\ DeclaredIn(docs[i].text, req.name)
                 /\ result = Location(docs[i].uri, 1)
                 /\ \/ docs[i].uri = req.uri
                    \/ \A j \in DOMAIN docs :
                         DeclaredIn(docs[j].text, req.name) => docs[j].uri # req.uri
      <4>1. PICK i \in DOMAIN docs :
                 /\ DeclaredIn(docs[i].text, req.name)
                 /\ result = Location(docs[i].uri, 1)
                 /\ \/ docs[i].uri = req.uri
                    \/ \A j \in DOMAIN docs :
                         DeclaredIn(docs[j].text, req.name) => docs[j].uri # req.uri
        BY <3>4
      <4> DEFINE p == [uri |-> docs[i].uri, line |-> 1]
      <4>2. p \in all /\ p.uri = docs[i].uri /\ result = Location(p.uri, p.line)
        BY <3>1, <4>1
      <4>3. own # {} => p \in own
        <5>1. ASSUME NEW q \in own PROVE docs[i].uri = req.uri
          BY <3>1, <4>1
        <5> QED
          BY <4>2, <5>1
      <4> HIDE DEF p, own
      <4> QED
        BY <4>2, <4>3
    <3> QED
      BY <3>2, <3>3, <3>4, AllIndexed, DefinitionFound
  <2> QED
    BY <2>1, <2>2
<1> HIDE DEF result
<1>2. Service!GoodDefinition(req, result)
  BY <1>1, SameMessages, SameAnswers, Zenon DEF Service!GoodDefinition
<1> QED
  BY <1>2 DEF result

\* The occurrences the service speaks of are the places that are found.
LEMMA ServiceOccurrences ==
  ASSUME IInv, NEW name, NEW comments \in BOOLEAN
  PROVE  Service!Occurrences(name, comments) = Occurrences(name, comments)
<1> DEFINE known == Occurrences(name, comments)
           all == {p \in [uri : DOMAIN Served, line : Lines, column : WordColumns] :
                     /\ Stands(Served[p.uri], p.line, p.column, name)
                     /\ comments \/ ~IsComment(Served[p.uri][p.line])}
<1>1. Service!Occurrences(name, comments) = all
  <2>1. \A text, line, column, n :
          Service!Stands(text, line, column, n) <=> Stands(text, line, column, n)
    BY SameScanning, Zenon
  <2> QED
    BY <2>1, SameLooks, Zenon DEF Service!Occurrences
<1>2. ASSUME NEW p PROVE p \in all <=> p \in known
  <2>1. \A uri : Known(uri) => uri \in Sources
    BY KnownPlace
  <2>2. p \in [uri : DOMAIN Served, line : Lines, column : WordColumns]
          <=> p \in [uri : Sources, line : Lines, column : WordColumns] /\ Known(p.uri)
    BY <2>1, ServedTexts
  <2>3. Known(p.uri) => Served[p.uri] = Text(p.uri)
    BY ServedTexts
  <2> QED
    BY <2>2, <2>3 DEF Occurrences
<1> HIDE DEF all, known
<1>3. all = known
  BY <1>2
<1> QED
  BY <1>1, <1>3 DEF known

\* What the service says of the places listed and of those edited.
LEMMA GoodPlacesAre ==
  ASSUME IInv, NEW req, req.comments \in BOOLEAN, NEW places, IsInjective(places),
         NEW all, all = IF SymbolAt(req) THEN Occurrences(req.name, req.comments) ELSE {},
         Range(places) \subseteq all,
         NEW result,
         \/ /\ req.method = "references" /\ result = Locations(places)
            /\ Cardinality(all) <= LocationCap => Range(places) = all
         \/ /\ req.method = "rename" /\ result = Edits(places) /\ SymbolAt(req)
            /\ Cardinality(all) <= EditCap => Range(places) = all
  PROVE  Service!GoodPlaces(req, result)
<1>1. /\ Service!Pointed(req) <=> SymbolAt(req)
      /\ Service!Occurrences(req.name, req.comments) = Occurrences(req.name, req.comments)
  BY SamePointing, ServiceOccurrences
<1>2. all = IF Service!Pointed(req) THEN Service!Occurrences(req.name, req.comments) ELSE {}
  BY <1>1
<1>3. result.places = places
  BY DEF Locations, Edits
<1>4. Service!IsInjective(places) /\ Service!ToSet(places) = Range(places)
  BY SameLooks
<1>5. Service!Cardinality(all) = Cardinality(all)
  BY SameCardinality
<1> QED
  BY <1>1, <1>2, <1>3, <1>4, <1>5, SameAnswers DEF Service!GoodPlaces

LEMMA ReferencesAreGood ==
  ASSUME IInv, NEW req \in Messages, References(req)
  PROVE  Service!GoodPlaces(req, sent'.result)
<1> DEFINE refs == FindReferences(req.name, req.comments)
           places == IF SymbolAt(req) THEN Prefix(refs, LocationCap) ELSE <<>>
           all == IF SymbolAt(req) THEN Occurrences(req.name, req.comments) ELSE {}
<1>1. req.method = "references" /\ req.comments \in BOOLEAN /\ req.line \in Lines
  BY CommentsAsked DEF References, WorkspaceEditMethods
<1>2. sent'.result = Locations(places)
  <2>1. sent' = Respond(req.id, Locations(places))
    <3>1. CASE SymbolAt(req)
      BY <3>1 DEF References, Answer
    <3>2. CASE ~SymbolAt(req)
      BY <3>2 DEF References, Answer
    <3> QED
      BY <3>1, <3>2
  <2> HIDE DEF places
  <2> QED
    BY <2>1 DEF Respond
<1>3. /\ IsInjective(places) /\ Range(places) \subseteq all
      /\ Cardinality(all) <= LocationCap => Range(places) = all
  <2>1. CASE SymbolAt(req)
    <3>1. /\ refs \in Seq(Place) /\ IsInjective(refs)
          /\ Range(refs) = Occurrences(req.name, req.comments)
          /\ Cardinality(Occurrences(req.name, req.comments)) = Len(refs)
      BY <1>1, <2>1, PointedLine, ReferencesFound
    <3> HIDE DEF refs
    <3>2. LocationCap \in Nat
      BY IndexCapsAssumption
    <3>3. /\ Range(Prefix(refs, LocationCap)) \subseteq Range(refs)
          /\ IsInjective(Prefix(refs, LocationCap))
          /\ Len(refs) <= LocationCap => Prefix(refs, LocationCap) = refs
      BY <3>1, <3>2, PrefixIs, Zenon
    <3> QED
      BY <2>1, <3>1, <3>3
  <2>2. CASE ~SymbolAt(req)
    <3>1. places = <<>> /\ all = {}
      BY <2>2
    <3>2. Range(<<>>) = {} /\ IsInjective(<<>>)
      BY DEF Range, IsInjective
    <3> HIDE DEF places, all
    <3> QED
      BY <3>1, <3>2
  <2> QED
    BY <2>1, <2>2
<1>4. all = IF SymbolAt(req) THEN Occurrences(req.name, req.comments) ELSE {}
  OBVIOUS
<1> HIDE DEF places, all
<1> QED
  BY <1>1, <1>2, <1>3, <1>4, GoodPlacesAre

LEMMA RenameIsGood ==
  ASSUME IInv, NEW req \in Messages, Rename(req)
  PROVE  Service!GoodPlaces(req, sent'.result)
<1> DEFINE all == Occurrences(req.name, req.comments)
<1>1. req.method = "rename" /\ req.comments \in BOOLEAN
  BY CommentsAsked DEF Rename, WorkspaceEditMethods
<1>2. IF ~SymbolAt(req) THEN sent'.result = Null
      ELSE /\ Cardinality(all) \in Nat
           /\ \/ sent'.result = Overrun /\ ~(Cardinality(all) <= EditCap)
              \/ \E places :
                   /\ sent'.result = Edits(places)
                   /\ IsInjective(places) /\ Range(places) \subseteq all
                   /\ Cardinality(all) <= EditCap => Range(places) = all
  BY RenameAnswers, Zenon
<1>3. CASE ~SymbolAt(req)
  <2>1. sent'.result = Service!Null /\ ~Service!Pointed(req)
    BY <1>2, <1>3, SamePointing, SameMessages
  <2> QED
    BY <1>1, <2>1, Zenon DEF Service!GoodPlaces
<1>4. CASE SymbolAt(req)
  <2>1. CASE sent'.result = Overrun /\ ~(Cardinality(all) <= EditCap)
    <3>1. Service!Pointed(req) /\ Service!Occurrences(req.name, req.comments) = all
      BY <1>1, <1>4, SamePointing, ServiceOccurrences
    <3>2. Cardinality(all) \in Nat /\ EditCap \in Nat
      BY <1>2, <1>4, EditCapsAssumption
    <3> HIDE DEF all
    <3>3. Cardinality(all) > EditCap
      BY <2>1, <3>2
    <3>4. Service!Cardinality(all) = Cardinality(all) /\ Service!Overrun = Overrun
      BY SameCardinality, SameAnswers
    <3> QED
      BY <1>1, <2>1, <3>1, <3>3, <3>4 DEF Service!GoodPlaces
  <2>2. ASSUME NEW places, sent'.result = Edits(places), IsInjective(places),
               Range(places) \subseteq all, Cardinality(all) <= EditCap => Range(places) = all
        PROVE  Service!GoodPlaces(req, sent'.result)
    <3>1. all = IF SymbolAt(req) THEN Occurrences(req.name, req.comments) ELSE {}
      BY <1>4
    <3> HIDE DEF all
    <3> QED
      BY <1>1, <1>4, <2>2, <3>1, GoodPlacesAre
  <2> QED
    BY <1>2, <1>4, <2>1, <2>2
<1> QED
  BY <1>3, <1>4

LEMMA TokensAreGood ==
  ASSUME IInv, NoCollision, NEW req \in Messages, SemanticTokens(req)
  PROVE  \E result : sent' = Respond(req.id, result) /\ Service!GoodTokens(req, result)
<1> DEFINE data == IF Known(req.uri) THEN Tokens(Text(req.uri)) ELSE <<>>
<1>1. sent' = Respond(req.id, TokenData(data))
  <2>1. CASE ~Known(req.uri)
    BY <2>1 DEF SemanticTokens
  <2>2. CASE Known(req.uri)
    <3>1. Text(req.uri) \in ServerTexts
      BY <2>2, KnownPlace
    <3>2. ASSUME NEW e \in semCache, e.sum = Checksum[Text(req.uri)]
          PROVE  e.payload = Tokens(Text(req.uri))
      BY <3>1, <3>2 DEF IInv, CacheRemembers, NoCollision
    <3>3. \/ \E e \in semCache : /\ e.sum = Checksum[Text(req.uri)]
                                 /\ sent' = Respond(req.id, TokenData(e.payload))
          \/ sent' = Respond(req.id, TokenData(Tokens(Text(req.uri))))
      BY <2>2 DEF SemanticTokens, Hit
    <3> QED
      BY <2>2, <3>2, <3>3
  <2> QED
    BY <2>1, <2>2
<1>2. data = IF req.uri \in DOMAIN Served THEN Service!Tokens(Served[req.uri]) ELSE <<>>
  <2>1. Service!Tokens(Text(req.uri)) = Tokens(Text(req.uri))
    BY SameScanning, Zenon
  <2> QED
    BY <2>1, ServedTexts
<1> HIDE DEF data
<1>3. Service!GoodTokens(req, TokenData(data))
  BY <1>2, SameAnswers, Zenon DEF Service!GoodTokens
<1> QED
  BY <1>1, <1>3, Zenon

LEMMA ItemsAreGood ==
  ASSUME IInv, NEW req
  PROVE  Service!GoodItems(req, Items(diagSlot.uri = req.uri /\ diagSlot.error))
<1> DEFINE result == Items(diagSlot.uri = req.uri /\ diagSlot.error)
<1>1. ASSUME diagSlot.uri = req.uri, diagSlot.error
      PROVE  req.uri \in DOMAIN Served /\ ~Parses(Served[req.uri])
  <2>1. Known(req.uri) /\ shown[req.uri] = "error"
    BY <1>1 DEF IInv, SlotWasShown
  <2>2. PICK i \in DOMAIN docs : docs[i].uri = req.uri /\ docs[i].text = Text(req.uri)
    BY <2>1, KnownPlace
  <2>3. Verdict(Text(req.uri)) = "error"
    BY <2>1, <2>2 DEF IInv, DiagnosticsFollowText
  <2> QED
    BY <2>1, <2>3, ServedTexts DEF Verdict
<1>2. result.error => req.uri \in DOMAIN Served /\ ~Service!Parses(Served[req.uri])
  <2>1. Service!Parses(Served[req.uri]) <=> Parses(Served[req.uri])
    BY SameReading, Zenon
  <2>2. result.error => diagSlot.uri = req.uri /\ diagSlot.error
    BY DEF Items
  <2> QED
    BY <1>1, <2>1, <2>2
<1> QED
  BY <1>2, Zenon DEF Service!GoodItems

LEMMA SymbolsAreGood ==
  ASSUME IInv, RoomForAll, NEW req
  PROVE  Service!GoodSymbols(req, Symbols(DocumentSymbols(req.uri)))
<1>1. DocumentSymbols(req.uri) = IF req.uri \in DOMAIN Served
                                 THEN SymbolsIn(req.uri, Served[req.uri]) ELSE <<>>
  BY DocumentSymbolsFound, ServedTexts
<1>2. Service!SymbolsIn(req.uri, Served[req.uri]) = SymbolsIn(req.uri, Served[req.uri])
  BY SameScanning, Zenon
<1> QED
  BY <1>1, <1>2, SameAnswers, Zenon DEF Service!GoodSymbols

\* What the service promises nothing about is answered all the same.
LEMMA PlainAnswers ==
  ASSUME NEW req \in Messages,
         \/ OwnDeclaration(req) \/ Hover(req) \/ PrepareRename(req) \/ SelectionRange(req)
         \/ SignatureHelp(req) \/ Completion(req) \/ Formatting(req) \/ RangeFormatting(req)
         \/ InlayHint(req) \/ FoldingRange(req) \/ RefactorPreview(req) \/ Acknowledge(req)
         \/ CodeAction(req)
  PROVE  /\ \E result : sent' = Respond(req.id, result)
         /\ docs' = docs
         /\ req.method \notin Promised
         /\ req.method \notin {"didOpen", "didChange", "didClose", "exit", "unknown"}
BY DEF OwnDeclaration, Hover, PrepareRename, SelectionRange, SignatureHelp, Completion,
       Formatting, RangeFormatting, InlayHint, FoldingRange, RefactorPreview, Acknowledge,
       CodeAction, Answer, Promised

\* A turn of the loop is a step of the service.
LEMMA TurnRefines ==
  ASSUME IInv, RoomForAll, NoCollision, 0 \notin Ids, NEW req \in Messages, Handle(req)
  PROVE  Service!Update(req) \/ Service!Ask(req) \/ Service!Pass(req)
<1> DEFINE Plain == req.method \notin {"didOpen", "didChange", "didClose", "exit", "unknown"}
<1>1. CASE DidOpenOrChange(req)
  BY <1>1, UpdateRefines
<1>2. CASE Definition(req)
  <2> DEFINE result == IF SymbolAt(req) THEN FindDefinition(req.name, req.uri) ELSE Null
  <2>1. req.method = "definition" /\ docs' = docs /\ sent' = Respond(req.id, result)
    BY <1>2, Zenon DEF Definition, Answer
  <2>2. req.line \in Lines
    <3>1. req \in PositionRequests
      BY <2>1 DEF Messages, Requests, DocumentUpdates, DocumentClosings,
             WorkspaceEditRequests, DocumentRequests, RangeRequests, PlainRequests, Exits,
             WorkspaceEditMethods, DocumentMethods, RangeMethods, PlainMethods
    <3> QED
      BY <3>1 DEF PositionRequests
  <2>3. Service!GoodDefinition(req, result)
    BY <2>2, DefinitionIsGood, Zenon
  <2> HIDE DEF result
  <2>4. Service!Good(req, result)
    BY <2>1, <2>3 DEF Service!Good, Service!WorkspaceEditMethods
  <2> QED
    BY <2>1, <2>4, AskRefines
<1>3. CASE References(req) \/ Rename(req)
  <2>1. /\ req.method \in {"references", "rename"} /\ docs' = docs
        /\ \E result : sent' = Respond(req.id, result)
    BY <1>3, Zenon DEF References, Rename, Answer
  <2>2. sent' = Respond(req.id, sent'.result)
    BY <2>1 DEF Respond
  <2>3. Service!GoodPlaces(req, sent'.result)
    BY <1>3, ReferencesAreGood, RenameIsGood, Zenon
  <2>4. Service!Good(req, sent'.result)
    BY <2>1, <2>3 DEF Service!Good, Service!WorkspaceEditMethods
  <2> QED
    BY <2>1, <2>2, <2>4, AskRefines
<1>4. CASE PullDiagnostic(req)
  <2> DEFINE result == Items(diagSlot.uri = req.uri /\ diagSlot.error)
  <2>1. req.method = "diagnostic" /\ docs' = docs /\ sent' = Respond(req.id, result)
    BY <1>4, Zenon DEF PullDiagnostic, Answer
  <2>2. Service!GoodItems(req, result)
    BY ItemsAreGood, Zenon
  <2> HIDE DEF result
  <2>3. Service!Good(req, result)
    BY <2>1, <2>2 DEF Service!Good, Service!WorkspaceEditMethods
  <2> QED
    BY <2>1, <2>3, AskRefines
<1>5. CASE SymbolList(req)
  <2>1. CASE req.method = "documentSymbol"
    <3> DEFINE result == Symbols(DocumentSymbols(req.uri))
    <3>1. docs' = docs /\ sent' = Respond(req.id, result)
      BY <1>5, <2>1, Zenon DEF SymbolList, Answer
    <3>2. Service!GoodSymbols(req, result)
      BY SymbolsAreGood, Zenon
    <3> HIDE DEF result
    <3>3. Service!Good(req, result)
      BY <2>1, <3>2 DEF Service!Good, Service!WorkspaceEditMethods
    <3> QED
      BY <2>1, <3>1, <3>3, AskRefines
  <2>2. CASE req.method # "documentSymbol"
    <3>1. /\ req.method = "workspaceSymbol" /\ docs' = docs
          /\ \E result : sent' = Respond(req.id, result)
      BY <1>5, <2>2, Zenon DEF SymbolList, Answer
    <3> QED
      BY <3>1, OthersAreGood, AskRefines DEF Promised
  <2> QED
    BY <2>1, <2>2
<1>6. CASE SemanticTokens(req)
  <2>1. req.method = "semanticTokens" /\ docs' = docs
    BY <1>6 DEF SemanticTokens
  <2>2. PICK result : sent' = Respond(req.id, result) /\ Service!GoodTokens(req, result)
    BY <1>6, TokensAreGood
  <2>3. Service!Good(req, result)
    BY <2>1, <2>2 DEF Service!Good, Service!WorkspaceEditMethods
  <2> QED
    BY <2>1, <2>2, <2>3, AskRefines
<1>7. CASE \/ OwnDeclaration(req) \/ Hover(req) \/ PrepareRename(req) \/ SelectionRange(req)
           \/ SignatureHelp(req) \/ Completion(req) \/ Formatting(req) \/ RangeFormatting(req)
           \/ InlayHint(req) \/ FoldingRange(req) \/ RefactorPreview(req) \/ Acknowledge(req)
           \/ CodeAction(req)
  BY <1>7, PlainAnswers, OthersAreGood, AskRefines
<1>8. CASE Initialize(req)
  <2>1. req.method = "initialize" /\ docs' = docs
    BY <1>8 DEF Initialize
  <2>2. req.id # 0
    BY <2>1, IsRequest
  <2>3. sent' = Respond(req.id, Info)
    BY <1>8, <2>2 DEF Initialize
  <2> QED
    BY <2>1, <2>3, OthersAreGood, AskRefines DEF Promised
<1>9. CASE Ignore(req) \/ Exit(req)
  <2>1. /\ req.method \in {"didClose", "exit", "unknown"} /\ docs' = docs
        /\ sent' = Silence
    BY <1>9 DEF Ignore, Exit
  <2>2. Served' = Served /\ sent' = Service!Silence
    BY <2>1, ServedStays, SameMessages, Zenon
  <2> QED
    BY <2>1, <2>2, Zenon DEF Service!Pass
<1> QED
  BY <1>1, <1>2, <1>3, <1>4, <1>5, <1>6, <1>7, <1>8, <1>9 DEF Handle

\* The server implements the language service, for any documents, texts and
\* capacities that let every document be answered for, as long as checksums do
\* not collide and the editor gives no request the id 0, which main takes for
\* none.
THEOREM ServesTheService ==
  ASSUME RoomForAll, NoCollision, 0 \notin Ids
  PROVE  Spec => ServesDocuments
<1>1. Init => Service!ServiceInit
  <2> SUFFICES ASSUME Init PROVE Service!ServiceInit
    OBVIOUS
  <2>1. docs = <<>> /\ request = NoMessage /\ sent = Silence
    BY DEF Init
  <2>2. Served = <<>>
    BY <2>1 DEF Served
  <2>3. request = Service!NoMessage /\ sent = Service!Silence
    BY <2>1, SameMessages, Zenon
  <2> QED
    BY <2>2, <2>3, Zenon DEF Service!ServiceInit
<1>2. IInv /\ [Next]_vars => [Service!ServiceNext]_(Service!serviceVars)
  <2> SUFFICES ASSUME IInv, [Next]_vars
               PROVE  [Service!ServiceNext]_(Service!serviceVars)
    OBVIOUS
  <2>1. ASSUME NEW req \in Messages, Handle(req) PROVE Service!ServiceNext
    <3>1. req \in Service!Messages
      BY SameMessages, Zenon
    <3>2. request' = req
      BY <2>1 DEF Handle
    <3>3. Service!Update(req) \/ Service!Ask(req) \/ Service!Pass(req)
      BY <2>1, TurnRefines
    <3> QED
      BY <3>1, <3>2, <3>3, Zenon DEF Service!ServiceNext
  <2>2. CASE UNCHANGED vars
    <3>1. docs' = docs /\ request' = request /\ sent' = sent
      BY <2>2 DEF vars, serverVars
    <3>2. Served' = Served
      BY <3>1, ServedStays
    <3> QED
      BY <3>1, <3>2 DEF Service!serviceVars
  <2> QED
    BY <2>1, <2>2 DEF Next
<1> QED
  BY <1>1, <1>2, Invariant, PTL DEF Spec, ServesDocuments, Service!ServiceSpec

-----------------------------------------------------------------------------
(* The server together with Studio: what is in the two pipes.              *)

\* What Studio sends.
StudioMessages ==
  [method : {"initialize"}, id : {1}]
    \cup [method : {"didOpen", "didChange"}, uri : {Doc}, text : Texts]
    \cup [method : {"completion", "definition"}, id : 1 .. MaxAsks + 1, uri : {Doc},
          line : Lines, name : Names]

\* What the server writes for it.
Results == {Info, Null, Location(Doc, 1)} \cup {Labels(names) : names \in SUBSET (Names \cup {NoName})}
ServerMessages ==
  [type : {"publish"}, uri : {Doc}, error : BOOLEAN]
    \cup [type : {"response"}, id : 1 .. MaxAsks + 1, result : Results]
Responses == {m \in ServerMessages : m.type = "response"}

\* A request without a reply.
OpenRequests ==
  [method : {"initialize"}, text : Texts]
    \cup [method : {"completion", "definition"}, text : Texts, name : Names]

Views == [verdict : Verdicts, problems : SUBSET {Doc, "completion", "definition"},
          completions : SUBSET (Names \cup {NoName}), panel : BOOLEAN, cursor : {0, 1}]

\* A message on its way to the server, with what will be served of Doc once it
\* is handled: one text, or none.
Entries == [msg : StudioMessages, held : SUBSET ServerTexts]
Askings == {e \in Entries : Asking(e.msg)}
HeldNow == IF Known(Doc) THEN {Text(Doc)} ELSE {}
Updating(m) == m.method \in {"didOpen", "didChange"}
After(log, first, i) == IF i = 0 THEN first ELSE log[i].held
Foresees(log, queue, first) ==
  /\ log \in Seq(Entries) /\ Len(log) = Len(queue)
  /\ \A i \in 1 .. Len(log) :
       /\ log[i].msg = queue[i]
       /\ log[i].held = IF Updating(queue[i]) THEN {Received(queue[i].text)}
                        ELSE After(log, first, i - 1)

\* e is the entry of a further message m.
Continues(e, log, queue, first, m) ==
  /\ e \in Entries /\ e.msg = m
  /\ e.held = IF Updating(m) THEN {Received(m.text)} ELSE After(log, first, Len(log))
  /\ Foresees(Append(log, e), Append(queue, m), first)
  /\ After(Append(log, e), first, Len(Append(log, e))) = e.held

LEMMA ForeseesMore ==
  ASSUME NEW queue \in Seq(StudioMessages), NEW first \in SUBSET ServerTexts, NEW log,
         Foresees(log, queue, first), NEW m \in StudioMessages
  PROVE  \E e : Continues(e, log, queue, first, m)
<1> DEFINE held == IF Updating(m) THEN {Received(m.text)} ELSE After(log, first, Len(log))
           e == [msg |-> m, held |-> held]
           longer == Append(log, e)
<1>1. log \in Seq(Entries) /\ Len(log) = Len(queue) /\ Len(log) \in Nat
  BY DEF Foresees
<1>2. held \in SUBSET ServerTexts
  <2>1. CASE Updating(m)
    <3>1. m.text \in Texts
      BY <2>1 DEF StudioMessages, Updating
    <3> QED
      BY <2>1, <3>1 DEF ServerTexts
  <2>2. CASE ~Updating(m)
    <3>1. Len(log) # 0 => log[Len(log)] \in Entries
      BY <1>1
    <3> QED
      BY <2>2, <3>1 DEF After, Entries
  <2> QED
    BY <2>1, <2>2
<1> HIDE DEF held
<1>3. e \in Entries /\ e.msg = m /\ e.held = held
  BY <1>2 DEF Entries
<1> HIDE DEF e
<1>4. /\ longer \in Seq(Entries) /\ Len(longer) = Len(log) + 1
      /\ longer[Len(log) + 1] = e
      /\ \A i \in 1 .. Len(log) : longer[i] = log[i]
  BY <1>1, <1>3
<1>5. /\ Len(Append(queue, m)) = Len(log) + 1
      /\ Append(queue, m)[Len(log) + 1] = m
      /\ \A i \in 1 .. Len(log) : Append(queue, m)[i] = queue[i]
  BY <1>1
<1> HIDE DEF longer
<1>6. ASSUME NEW i \in 0 .. Len(log)
      PROVE  After(longer, first, i) = After(log, first, i)
  BY <1>4 DEF After
<1>7. ASSUME NEW i \in 1 .. Len(longer)
      PROVE  /\ longer[i].msg = Append(queue, m)[i]
             /\ longer[i].held = IF Updating(Append(queue, m)[i])
                                 THEN {Received(Append(queue, m)[i].text)}
                                 ELSE After(longer, first, i - 1)
  <2>1. CASE i = Len(log) + 1
    <3>1. After(longer, first, i - 1) = After(log, first, Len(log))
      BY <1>1, <1>6, <2>1
    <3> QED
      BY <1>3, <1>4, <1>5, <2>1, <3>1 DEF held
  <2>2. CASE i \in 1 .. Len(log)
    <3>1. i - 1 \in 0 .. Len(log)
      BY <2>2
    <3>2. After(longer, first, i - 1) = After(log, first, i - 1)
      BY <1>6, <3>1
    <3> QED
      BY <1>4, <1>5, <2>2, <3>2 DEF Foresees
  <2>3. i = Len(log) + 1 \/ i \in 1 .. Len(log)
    BY <1>1, <1>4
  <2> QED
    BY <2>1, <2>2, <2>3, Zenon
<1>8. Foresees(longer, Append(queue, m), first)
  BY <1>4, <1>5, <1>7 DEF Foresees
<1>9. After(longer, first, Len(longer)) = e.held
  BY <1>1, <1>4 DEF After
<1>10. Continues(e, log, queue, first, m)
  BY <1>3, <1>8, <1>9, Zenon DEF Continues, longer, held
<1> QED
  BY <1>10

\* The first message is taken: what will be served then is served now.
LEMMA ForeseesLess ==
  ASSUME NEW queue \in Seq(StudioMessages), queue # <<>>, NEW first, NEW log,
         Foresees(log, queue, first)
  PROVE  /\ log # <<>> /\ log[1] \in Entries /\ log[1].msg = Head(queue)
         /\ log[1].held = IF Updating(Head(queue)) THEN {Received(Head(queue).text)}
                          ELSE first
         /\ Foresees(Tail(log), Tail(queue), log[1].held)
         /\ After(Tail(log), log[1].held, Len(Tail(log))) = After(log, first, Len(log))
<1>1. log \in Seq(Entries) /\ Len(log) = Len(queue) /\ Len(log) \in Nat /\ Len(log) > 0
  BY DEF Foresees
<1>2. log # <<>> /\ log[1] \in Entries /\ 1 \in 1 .. Len(log) /\ Head(queue) = queue[1]
  BY <1>1
<1>3. /\ log[1].msg = queue[1]
      /\ log[1].held = IF Updating(queue[1]) THEN {Received(queue[1].text)} ELSE first
  <2>1. /\ log[1].msg = queue[1]
        /\ log[1].held = IF Updating(queue[1]) THEN {Received(queue[1].text)}
                         ELSE After(log, first, 1 - 1)
    BY <1>1, <1>2 DEF Foresees
  <2>2. After(log, first, 1 - 1) = first
    BY DEF After
  <2> QED
    BY <2>1, <2>2, Zenon
<1> DEFINE rest == Tail(log)  left == Tail(queue)
<1>4. /\ rest \in Seq(Entries) /\ Len(rest) = Len(log) - 1 /\ Len(left) = Len(log) - 1
      /\ \A i \in 1 .. Len(log) - 1 : rest[i] = log[i + 1] /\ left[i] = queue[i + 1]
  BY <1>1
<1> HIDE DEF rest, left
<1>5. ASSUME NEW i \in 0 .. Len(log) - 1
      PROVE  After(rest, log[1].held, i) = After(log, first, i + 1)
  BY <1>4 DEF After
<1>6. ASSUME NEW i \in 1 .. Len(rest)
      PROVE  /\ rest[i].msg = left[i]
             /\ rest[i].held = IF Updating(left[i]) THEN {Received(left[i].text)}
                               ELSE After(rest, log[1].held, i - 1)
  <2>1. i + 1 \in 1 .. Len(log) /\ i - 1 \in 0 .. Len(log) - 1 /\ (i - 1) + 1 = (i + 1) - 1
    BY <1>1, <1>4
  <2>2. rest[i] = log[i + 1] /\ left[i] = queue[i + 1]
    BY <1>4
  <2>3. After(rest, log[1].held, i - 1) = After(log, first, (i + 1) - 1)
    BY <1>5, <2>1
  <2> QED
    BY <2>1, <2>2, <2>3 DEF Foresees
<1>7. Foresees(rest, left, log[1].held)
  BY <1>4, <1>6 DEF Foresees
<1>8. After(rest, log[1].held, Len(rest)) = After(log, first, Len(log))
  <2>1. Len(rest) \in 0 .. Len(log) - 1 /\ Len(rest) + 1 = Len(log)
    BY <1>1, <1>4
  <2> QED
    BY <1>5, <2>1
<1> QED
  BY <1>2, <1>3, <1>7, <1>8 DEF rest, left

\* The pieces of frames on their way back are those of whole messages.
Frames(pieces, msgs) ==
  /\ Len(pieces) = 2 * Len(msgs)
  /\ \A i \in 1 .. Len(msgs) : /\ pieces[2 * i - 1] = [part |-> HeaderPart, message |-> msgs[i]]
                               /\ pieces[2 * i] = [part |-> "body", message |-> msgs[i]]
Pieces == [part : {HeaderPart, "body"}, message : ServerMessages]

\* The verdict shown once a message is handled, if v was shown before, and how
\* it goes on from first to last.
ShownBy(m, v) ==
  IF m.type = "publish" THEN IF m.error THEN "error" ELSE "clear" ELSE v
Displays(verdicts, msgs, first, last) ==
  /\ verdicts \in [0 .. Len(msgs) -> Verdicts]
  /\ verdicts[0] = first /\ verdicts[Len(msgs)] = last
  /\ \A i \in 1 .. Len(msgs) : verdicts[i] = ShownBy(msgs[i], verdicts[i - 1])

\* What an asking has to be asking.
Waits(asker, e) ==
  /\ asker.method = e.msg.method
  /\ asker.method = "definition" => /\ e.msg.name = asker.name
                                    /\ e.held = {Received(asker.text)}

\* The oldest requests have their replies underway, the others are.
Answered(list, answers) ==
  /\ Len(answers) <= Len(list)
  /\ \A k \in 1 .. Len(answers) : Meets(list[k], answers[k].result)
Awaits(list, n, askings) ==
  /\ Len(list) = n + Len(askings)
  /\ \A j \in 1 .. Len(askings) : Waits(list[n + j], askings[j])

LEMMA FramesMore ==
  ASSUME NEW pieces \in Seq(Pieces), NEW msgs \in Seq(ServerMessages), Frames(pieces, msgs),
         NEW m \in ServerMessages
  PROVE  LET pair == << [part |-> HeaderPart, message |-> m], [part |-> "body", message |-> m] >>
         IN pieces \o pair \in Seq(Pieces) /\ Frames(pieces \o pair, Append(msgs, m))
<1> DEFINE header == [part |-> HeaderPart, message |-> m]
           body == [part |-> "body", message |-> m]
           pair == << header, body >>
           all == pieces \o pair  more == Append(msgs, m)
<1>1. header \in Pieces /\ body \in Pieces
  BY DEF Pieces
<1>2. Len(pieces) = 2 * Len(msgs) /\ Len(msgs) \in Nat
  BY DEF Frames
<1> HIDE DEF header, body
<1>3. pair \in Seq(Pieces) /\ Len(pair) = 2 /\ pair[1] = header /\ pair[2] = body
  BY <1>1
<1> HIDE DEF pair
<1>4. /\ all \in Seq(Pieces) /\ Len(all) = 2 * Len(msgs) + 2
      /\ \A i \in 1 .. 2 * Len(msgs) : all[i] = pieces[i]
      /\ all[2 * Len(msgs) + 1] = header /\ all[2 * Len(msgs) + 2] = body
  <2>1. /\ all \in Seq(Pieces) /\ Len(all) = Len(pieces) + 2
        /\ \A i \in 1 .. Len(pieces) : all[i] = pieces[i]
        /\ all[Len(pieces) + 1] = header /\ all[Len(pieces) + 2] = body
    BY <1>1, PairBehind DEF pair
  <2> HIDE DEF all
  <2> QED
    BY <1>2, <2>1
<1>5. /\ Len(more) = Len(msgs) + 1 /\ more[Len(msgs) + 1] = m
      /\ \A i \in 1 .. Len(msgs) : more[i] = msgs[i]
  OBVIOUS
<1> HIDE DEF all, more
<1>6. ASSUME NEW i \in 1 .. Len(more)
      PROVE  /\ all[2 * i - 1] = [part |-> HeaderPart, message |-> more[i]]
             /\ all[2 * i] = [part |-> "body", message |-> more[i]]
  <2>1. CASE i = Len(msgs) + 1
    <3>1. 2 * i - 1 = 2 * Len(msgs) + 1 /\ 2 * i = 2 * Len(msgs) + 2
      BY <1>2, <2>1
    <3> QED
      BY <1>4, <1>5, <2>1, <3>1 DEF header, body
  <2>2. CASE i \in 1 .. Len(msgs)
    <3>1. 2 * i - 1 \in 1 .. 2 * Len(msgs) /\ 2 * i \in 1 .. 2 * Len(msgs)
      BY <1>2, <2>2
    <3> QED
      BY <1>4, <1>5, <2>2, <3>1 DEF Frames
  <2>3. i = Len(msgs) + 1 \/ i \in 1 .. Len(msgs)
    BY <1>2, <1>5
  <2> QED
    BY <2>1, <2>2, <2>3, Zenon
<1>7. Len(all) = 2 * Len(more)
  BY <1>2, <1>4, <1>5
<1> QED
  BY <1>4, <1>6, <1>7, Zenon DEF Frames, all, more, pair, header, body

LEMMA DisplaysMore ==
  ASSUME NEW msgs \in Seq(ServerMessages), NEW verdicts, NEW first, NEW last,
         Displays(verdicts, msgs, first, last), NEW m \in ServerMessages
  PROVE  \E longer : Displays(longer, Append(msgs, m), first, ShownBy(m, last))
<1> DEFINE n == Len(msgs)
           more == Append(msgs, m)
           longer == [i \in 0 .. n + 1 |-> IF i = n + 1 THEN ShownBy(m, last) ELSE verdicts[i]]
<1>1. n \in Nat /\ Len(more) = n + 1 /\ more[n + 1] = m /\ \A i \in 1 .. n : more[i] = msgs[i]
  OBVIOUS
<1> HIDE DEF n, more
<1>2. /\ verdicts \in [0 .. n -> Verdicts] /\ verdicts[0] = first /\ verdicts[n] = last
      /\ \A i \in 1 .. n : verdicts[i] = ShownBy(msgs[i], verdicts[i - 1])
  BY DEF Displays, n
<1>3. last \in Verdicts /\ ShownBy(m, last) \in Verdicts
  BY <1>1, <1>2 DEF ShownBy, Verdicts
<1>4. longer \in [0 .. n + 1 -> Verdicts] /\ longer[0] = first /\ longer[n + 1] = ShownBy(m, last)
  BY <1>1, <1>2, <1>3
<1>5. ASSUME NEW i \in 1 .. n + 1
      PROVE  longer[i] = ShownBy(more[i], longer[i - 1])
  <2>1. CASE i = n + 1
    <3>1. longer[i - 1] = last
      BY <1>1, <1>2, <2>1
    <3> QED
      BY <1>1, <1>4, <2>1, <3>1
  <2>2. CASE i \in 1 .. n
    <3>1. longer[i] = verdicts[i] /\ longer[i - 1] = verdicts[i - 1]
      BY <1>1, <2>2
    <3> QED
      BY <1>1, <1>2, <2>2, <3>1
  <2>3. i = n + 1 \/ i \in 1 .. n
    BY <1>1
  <2> QED
    BY <2>1, <2>2, <2>3, Zenon
<1> HIDE DEF longer
<1>6. Displays(longer, more, first, ShownBy(m, last))
  BY <1>1, <1>4, <1>5 DEF Displays
<1> QED
  BY <1>6 DEF more

\* The first c messages are taken.
LEMMA PipeLess ==
  ASSUME NEW pieces \in Seq(Pieces), NEW msgs \in Seq(ServerMessages), Frames(pieces, msgs),
         NEW verdicts, NEW first, NEW last, Displays(verdicts, msgs, first, last),
         NEW c \in 0 .. Len(msgs)
  PROVE  LET left == SubSeq(msgs, c + 1, Len(msgs))
         IN /\ left \in Seq(ServerMessages) /\ Len(left) = Len(msgs) - c
            /\ Frames(SubSeq(pieces, 2 * c + 1, Len(pieces)), left)
            /\ \E later : Displays(later, left, verdicts[c], last)
<1> DEFINE left == SubSeq(msgs, c + 1, Len(msgs))
           rest == SubSeq(pieces, 2 * c + 1, Len(pieces))
           n == Len(msgs)
           later == [i \in 0 .. n - c |-> verdicts[c + i]]
<1>1. n \in Nat /\ c \in 0 .. n /\ Len(pieces) = 2 * n
  BY DEF Frames
<1>2. /\ left \in Seq(ServerMessages) /\ Len(left) = n - c
      /\ \A i \in 1 .. n - c : left[i] = msgs[c + i]
  OBVIOUS
<1>3. /\ Len(rest) = 2 * (n - c)
      /\ \A i \in 1 .. 2 * (n - c) : rest[i] = pieces[2 * c + i]
  <2> HIDE DEF n
  <2>1. /\ 2 * c \in 0 .. Len(pieces)
        /\ Len(pieces) - 2 * c = 2 * (n - c)
    BY <1>1
  <2> DEFINE k == 2 * c
             end == SubSeq(pieces, k + 1, Len(pieces))
  <2> HIDE DEF k
  <2>2. k \in 0 .. Len(pieces)
    BY <2>1 DEF k
  <2>3. /\ Len(end) = Len(pieces) - k
        /\ \A i \in 1 .. Len(pieces) - k : end[i] = pieces[k + i]
    BY <2>2
  <2> QED
    BY <2>1, <2>3 DEF k
<1>4. \A i \in 1 .. n : /\ pieces[2 * i - 1] = [part |-> HeaderPart, message |-> msgs[i]]
                        /\ pieces[2 * i] = [part |-> "body", message |-> msgs[i]]
  BY DEF Frames
<1>5. /\ verdicts \in [0 .. n -> Verdicts] /\ verdicts[n] = last
      /\ \A i \in 1 .. n : verdicts[i] = ShownBy(msgs[i], verdicts[i - 1])
  BY DEF Displays
<1> HIDE DEF left, rest, n
<1>6. ASSUME NEW i \in 1 .. n - c
      PROVE  /\ rest[2 * i - 1] = [part |-> HeaderPart, message |-> left[i]]
             /\ rest[2 * i] = [part |-> "body", message |-> left[i]]
  <2>1. /\ c + i \in 1 .. n
        /\ 2 * i - 1 \in 1 .. 2 * (n - c) /\ 2 * i \in 1 .. 2 * (n - c)
        /\ 2 * c + (2 * i - 1) = 2 * (c + i) - 1 /\ 2 * c + 2 * i = 2 * (c + i)
    BY <1>1
  <2>2. /\ rest[2 * i - 1] = pieces[2 * (c + i) - 1] /\ rest[2 * i] = pieces[2 * (c + i)]
        /\ left[i] = msgs[c + i]
    BY <1>2, <1>3, <2>1
  <2> QED
    BY <1>4, <2>1, <2>2
<1>7. Frames(rest, left)
  BY <1>1, <1>2, <1>3, <1>6 DEF Frames
<1>8. later \in [0 .. n - c -> Verdicts] /\ later[0] = verdicts[c] /\ later[n - c] = last
  BY <1>1, <1>5
<1>9. ASSUME NEW i \in 1 .. n - c
      PROVE  later[i] = ShownBy(left[i], later[i - 1])
  <2>1. c + i \in 1 .. n /\ i - 1 \in 0 .. n - c /\ i \in 0 .. n - c /\ c + (i - 1) = (c + i) - 1
    BY <1>1
  <2>2. later[i] = verdicts[c + i] /\ later[i - 1] = verdicts[(c + i) - 1]
    BY <2>1
  <2> QED
    BY <1>2, <1>5, <2>1, <2>2
<1> HIDE DEF later
<1>10. Displays(later, left, verdicts[c], last)
  BY <1>2, <1>8, <1>9 DEF Displays
<1> QED
  BY <1>2, <1>7, <1>10 DEF left, rest, n

\* The state Studio and its server are in together.
StudioTypes ==
  /\ client \in {"starting", "connected", "failed"} /\ typed \in Seq(Line)
  /\ client = "connected" => typed \in Texts
  /\ typed = <<>> \/ typed \in Texts
  /\ toServer \in Seq(StudioMessages)
  /\ buffer \in Seq(Pieces) /\ toClient \in Seq(Pieces)
  /\ TextMode \/ Len(buffer) <= 1
  /\ view \in Views /\ asked \in Seq(OpenRequests)
  /\ asks \in 0 .. MaxAsks /\ requestId \in 1 .. asks + 2
  /\ client = "starting" => requestId = 1 /\ running
  /\ client # "connected"
       => toServer = <<>> /\ buffer = <<>> /\ toClient = <<>> /\ asked = <<>>
  /\ ~running => toServer = <<>>
  /\ \A i \in DOMAIN docs : docs[i].uri = Doc

\* What is underway: the texts and requests to the server, the replies and
\* verdicts to the window.
Underway(log, msgs, verdicts) ==
  /\ Foresees(log, toServer, HeldNow)
  /\ client = "connected" /\ running => After(log, HeldNow, Len(log)) = {Received(typed)}
  /\ msgs \in Seq(ServerMessages)
  /\ Frames(buffer \o toClient, msgs)
  /\ Displays(verdicts, msgs, view.verdict, shown[Doc])
  /\ Answered(asked, Only(msgs, Responses))
  /\ running => Awaits(asked, Len(Only(msgs, Responses)), Only(log, Askings))

StudioInv ==
  /\ IInv /\ StudioTypes /\ RepliesMeetTheirRequests
  /\ \E log, msgs, verdicts : Underway(log, msgs, verdicts)

\* What Studio sends is covered by the server's model.
LEMMA SentIsRead == StudioMessages \subseteq Messages
<1> SUFFICES ASSUME NEW m \in StudioMessages PROVE m \in Messages
  OBVIOUS
<1>1. Doc \in Uris /\ 1 .. MaxAsks + 1 \subseteq Ids /\ 1 \in Ids
  BY StudioAssumption, StudioSendsAssumption DEF Uris
<1>2. CASE m \in [method : {"initialize"}, id : {1}]
  BY <1>1, <1>2, StudioSendsAssumption DEF Messages, Requests, PlainRequests, PlainMethods
<1>3. CASE m \in [method : {"didOpen", "didChange"}, uri : {Doc}, text : Texts]
  BY <1>1, <1>3, StudioSendsAssumption DEF Messages, DocumentUpdates
<1>4. CASE m \in [method : {"completion", "definition"}, id : 1 .. MaxAsks + 1, uri : {Doc},
                  line : Lines, name : Names]
  BY <1>1, <1>4, StudioSendsAssumption DEF Messages, Requests, PositionRequests, PositionMethods
<1> QED
  BY <1>2, <1>3, <1>4 DEF StudioMessages

\* Nothing but what the server's model is about.
LEMMA HeldIsText ==
  ASSUME IInv
  PROVE  HeldNow \in SUBSET ServerTexts
BY KnownPlace DEF HeldNow

LEMMA HeldStays ==
  ASSUME docs' = docs
  PROVE  HeldNow' = HeldNow
BY DEF HeldNow, Known, Text

\* At the start nothing is underway.
LEMMA StudioInitInvariant == StudioInit => StudioInv
<1> SUFFICES ASSUME StudioInit PROVE StudioInv
  OBVIOUS
<1>1. IInv
  BY InitInvariant DEF StudioInit
<1>2. /\ docs = <<>> /\ running = TRUE /\ shown = [uri \in Uris |-> "none"]
      /\ client = "starting" /\ typed = <<>> /\ toServer = <<>> /\ toClient = <<>>
      /\ buffer = <<>> /\ view = BlankView /\ requestId = 1 /\ asks = 0 /\ asked = <<>>
      /\ replied = NoReply
  BY DEF StudioInit, Init
<1>3. StudioTypes
  <2>1. view \in Views
    BY <1>2 DEF BlankView, Views, Verdicts
  <2> QED
    BY <1>2, <2>1, StudioAssumption DEF StudioTypes
<1>4. RepliesMeetTheirRequests
  BY <1>2 DEF RepliesMeetTheirRequests, Meets, NoReply
<1>5. Only(<<>>, Responses) = <<>> /\ Only(<<>>, Askings) = <<>>
  <2>1. <<>> \in Seq(ServerMessages) /\ <<>> \in Seq(Entries) /\ Range(<<>>) = {}
    BY DEF Range
  <2> QED
    BY <2>1, OnlyAllOrNone
<1>6. Underway(<<>>, <<>>, [i \in 0 .. 0 |-> "none"])
  <2>1. Foresees(<<>>, toServer, HeldNow)
    BY <1>2 DEF Foresees
  <2>2. Frames(buffer \o toClient, <<>>)
    BY <1>2 DEF Frames
  <2>3. Displays([i \in 0 .. 0 |-> "none"], <<>>, view.verdict, shown[Doc])
    <3>1. shown[Doc] = "none" /\ view.verdict = "none"
      BY <1>2, StudioAssumption DEF Uris, BlankView
    <3> QED
      BY <3>1 DEF Displays, Verdicts
  <2>4. Answered(asked, <<>>) /\ Awaits(asked, 0, <<>>)
    BY <1>2 DEF Answered, Awaits
  <2> QED
    BY <1>2, <1>5, <2>1, <2>2, <2>3, <2>4 DEF Underway
<1> QED
  BY <1>1, <1>3, <1>4, <1>6, Zenon DEF StudioInv

\* The user and the end of the server leave the server's tables alone.
LEMMA ServerStands ==
  ASSUME IInv, UNCHANGED vars
  PROVE  /\ IInv' /\ HeldNow' = HeldNow
         /\ running' = running /\ docs' = docs /\ shown' = shown
<1>1. IInv'
  BY NextInvariant
<1>2. running' = running /\ docs' = docs /\ shown' = shown
  BY DEF vars, serverVars, historyVars
<1> QED
  BY <1>1, <1>2, HeldStays

\* Nothing written on, and asked, is as it was.
LEMMA NothingSent ==
  ASSUME IInv, UNCHANGED <<vars, buffer, toClient>>, NEW log, NEW msgs, NEW verdicts,
         Underway(log, msgs, verdicts), UNCHANGED <<toServer, asked>>,
         view'.verdict = view.verdict,
         client' = "connected" /\ running => client = "connected" /\ typed' = typed
  PROVE  Underway(log, msgs, verdicts)'
<1>1. HeldNow' = HeldNow /\ running' = running /\ shown' = shown
  BY ServerStands
<1> QED
  BY <1>1 DEF Underway

\* Every text the editor sends is the one it will be served.
LEMMA ChangesAreSent ==
  ASSUME StudioInv, NEW t \in Texts, ChangeText(t), view' \in Views, view'.verdict = view.verdict
  PROVE  StudioInv'
<1>1. PICK log, msgs, verdicts : Underway(log, msgs, verdicts)
  BY DEF StudioInv
<1>2. /\ IInv /\ StudioTypes /\ UNCHANGED <<vars, client, toClient, buffer, requestId, asks,
                                            asked, replied>>
      /\ typed' = t /\ client # "starting"
      /\ IF client = "connected" THEN Send(<<DidChange(t)>>) ELSE UNCHANGED toServer
  BY DEF StudioInv, ChangeText
<1>3. IInv' /\ HeldNow' = HeldNow /\ running' = running /\ docs' = docs /\ shown' = shown
  BY <1>2, ServerStands
<1>4. DidChange(t) \in StudioMessages /\ Updating(DidChange(t)) /\ ~Asking(DidChange(t))
      /\ DidChange(t).text = t
  BY DEF DidChange, StudioMessages, Updating, Asking
<1>5. toServer \in Seq(StudioMessages)
  BY <1>2 DEF StudioTypes
<1>6. toServer' = IF client = "connected" /\ running THEN Append(toServer, DidChange(t))
                  ELSE toServer
  <2> DEFINE m == DidChange(t)
  <2>1. m \in StudioMessages
    BY <1>4
  <2> HIDE DEF m
  <2>2. toServer \o <<m>> = Append(toServer, m)
    BY <1>5, <2>1
  <2> QED
    BY <1>2, <2>2 DEF Send, m
<1>7. StudioTypes'
  <2>1. toServer' \in Seq(StudioMessages)
    BY <1>4, <1>5, <1>6
  <2>2. typed' \in Seq(Line)
    BY <1>2, TextsAssumption
  <2> QED
    BY <1>2, <1>3, <1>6, <2>1, <2>2 DEF StudioTypes
<1>8. RepliesMeetTheirRequests'
  BY <1>2 DEF StudioInv, RepliesMeetTheirRequests
<1>9. \E more : Underway(more, msgs, verdicts)'
  <2>1. CASE client = "connected" /\ running
    <3>1. HeldNow \in SUBSET ServerTexts /\ Foresees(log, toServer, HeldNow)
      BY <1>1, <1>2, HeldIsText DEF Underway
    <3>0. PICK e : Continues(e, log, toServer, HeldNow, DidChange(t))
      BY <1>4, <1>5, <3>1, ForeseesMore, Zenon
    <3>2. /\ e \in Entries /\ e.msg = DidChange(t) /\ e.held = {Received(t)}
          /\ Foresees(Append(log, e), Append(toServer, DidChange(t)), HeldNow)
          /\ After(Append(log, e), HeldNow, Len(Append(log, e))) = e.held
      BY <1>4, <3>0 DEF Continues
    <3>3. Only(Append(log, e), Askings) = Only(log, Askings)
      <4>1. log \in Seq(Entries) /\ e \notin Askings
        BY <1>4, <3>1, <3>2 DEF Foresees, Askings
      <4> QED
        BY <3>2, <4>1, OnlyAppend
    <3>4. Underway(Append(log, e), msgs, verdicts)'
      <4> DEFINE more == Append(log, e)
      <4>1. /\ Foresees(more, toServer', HeldNow) /\ Only(more, Askings) = Only(log, Askings)
            /\ After(more, HeldNow, Len(more)) = {Received(typed')}
        BY <1>2, <1>6, <2>1, <3>2, <3>3
      <4> HIDE DEF more
      <4> QED
        BY <1>1, <1>2, <1>3, <2>1, <4>1 DEF Underway, more
    <3> QED
      BY <3>4
  <2>2. CASE ~(client = "connected" /\ running)
    BY <1>1, <1>2, <1>6, <2>2, NothingSent
  <2> QED
    BY <2>1, <2>2
<1> QED
  BY <1>3, <1>7, <1>8, <1>9, Zenon DEF StudioInv

\* So do the two ways to change it.
LEMMA EditKeeps ==
  ASSUME StudioInv, Edit \/ AcceptCompletion
  PROVE  StudioInv'
<1>1. view \in Views /\ [view EXCEPT !.panel = FALSE] \in Views
      /\ [view EXCEPT !.panel = FALSE].verdict = view.verdict
  BY DEF StudioInv, StudioTypes, Views
<1>2. PICK t \in Texts : /\ ChangeText(t)
                         /\ view' \in {view, [view EXCEPT !.panel = FALSE]}
  BY DEF Edit, AcceptCompletion
<1> QED
  BY <1>1, <1>2, ChangesAreSent

\* Starting: the text is announced behind the greeting.
LEMMA StartKeeps ==
  ASSUME StudioInv, Start
  PROVE  StudioInv'
<1>1. PICK log, msgs, verdicts : Underway(log, msgs, verdicts)
  BY DEF StudioInv
<1> DEFINE hello == [method |-> "initialize", id |-> 1]
           open == [method |-> "didOpen", uri |-> Doc, text |-> InitialText]
           greeter == [method |-> "initialize", text |-> InitialText]
<1>2. /\ IInv /\ StudioTypes /\ client = "starting" /\ requestId = 1 /\ running
      /\ toServer = <<>> /\ asked = <<>> /\ buffer = <<>> /\ toClient = <<>>
  BY DEF StudioInv, StudioTypes, Start
<1>3. /\ UNCHANGED <<vars, toClient, buffer, view, edits, asks, replied>>
      /\ client' = "connected" /\ typed' = InitialText /\ requestId' = 2
      /\ asked' = <<greeter>>
      /\ toServer' = toServer \o <<hello, open>>
  BY <1>2 DEF Start, Send
<1>4. IInv' /\ HeldNow' = HeldNow /\ running' = running /\ docs' = docs /\ shown' = shown
  BY <1>2, <1>3, ServerStands
<1>5. /\ hello \in StudioMessages /\ open \in StudioMessages /\ greeter \in OpenRequests
      /\ InitialText \in Texts /\ ~Updating(hello) /\ Updating(open) /\ open.text = InitialText
      /\ Asking(hello) /\ ~Asking(open) /\ hello.method = greeter.method
      /\ greeter.method # "definition"
  BY StudioAssumption DEF StudioMessages, OpenRequests, Updating, Asking
<1> HIDE DEF hello, open, greeter
<1>6. toServer' = Append(Append(<<>>, hello), open)
  BY <1>2, <1>3
<1>7. Append(<<>>, hello) \in Seq(StudioMessages) /\ toServer' \in Seq(StudioMessages)
  BY <1>5, <1>6
<1>8. StudioTypes'
  <2>1. asked' \in Seq(OpenRequests) /\ typed' \in Seq(Line)
    BY <1>3, <1>5, TextsAssumption
  <2>2. asks \in Nat /\ requestId' \in 1 .. asks + 2
    BY <1>2, <1>3, StudioAssumption DEF StudioTypes
  <2> QED
    BY <1>2, <1>3, <1>4, <1>5, <1>7, <2>1, <2>2 DEF StudioTypes
<1>9. RepliesMeetTheirRequests'
  BY <1>3 DEF StudioInv, RepliesMeetTheirRequests
<1>10. HeldNow \in SUBSET ServerTexts /\ Foresees(<<>>, <<>>, HeldNow)
  BY <1>2, HeldIsText DEF Foresees
<1> DEFINE greeted == Append(<<>>, hello)
<1>11. PICK first : Continues(first, <<>>, <<>>, HeldNow, hello)
  BY <1>2, <1>5, <1>10, <<>> \in Seq(StudioMessages), ForeseesMore, Zenon
<1> DEFINE one == Append(<<>>, first)
<1>12. PICK second : Continues(second, one, greeted, HeldNow, open)
  <2>1. Foresees(one, greeted, HeldNow)
    BY <1>11, Zenon DEF Continues
  <2> HIDE DEF one
  <2> QED
    BY <1>5, <1>7, <1>10, <2>1, ForeseesMore, Zenon
<1> DEFINE both == Append(one, second)
<1>17. /\ first \in Entries /\ first.msg = hello
       /\ second \in Entries /\ second.msg = open /\ second.held = {Received(InitialText)}
       /\ Foresees(both, toServer', HeldNow)
       /\ After(both, HeldNow, Len(both)) = {Received(InitialText)}
  BY <1>5, <1>6, <1>11, <1>12 DEF Continues
<1>13. Only(both, Askings) = <<first>>
  <2>1. <<>> \in Seq(Entries) /\ one \in Seq(Entries) /\ Range(<<>>) = {}
    BY <1>17 DEF Range
  <2>2. first \in Askings /\ second \notin Askings
    BY <1>5, <1>17 DEF Askings
  <2>3. Only(<<>>, Askings) = <<>>
    BY <2>1, OnlyAllOrNone
  <2>4. Only(one, Askings) = Append(<<>>, first)
    BY <1>17, <2>1, <2>2, <2>3, OnlyAppend
  <2> HIDE DEF one
  <2>5. Only(both, Askings) = Only(one, Askings)
    BY <1>17, <2>1, <2>2, OnlyAppend
  <2> QED
    BY <2>4, <2>5
<1>14. msgs = <<>> /\ Only(msgs, Responses) = <<>>
  <2>1. msgs \in Seq(ServerMessages) /\ Len(buffer \o toClient) = 2 * Len(msgs)
    BY <1>1 DEF Underway, Frames
  <2>2. Len(buffer \o toClient) = 0
    BY <1>2
  <2>3. msgs = <<>> /\ Range(<<>>) = {}
    BY <2>1, <2>2 DEF Range
  <2> QED
    BY <2>1, <2>3, OnlyAllOrNone
<1> HIDE DEF both
<1>15. Awaits(asked', 0, <<first>>) /\ Answered(asked', <<>>)
  BY <1>3, <1>5, <1>17 DEF Awaits, Waits, Answered
<1>16. Underway(both, msgs, verdicts)'
  BY <1>1, <1>2, <1>3, <1>4, <1>13, <1>14, <1>15, <1>17 DEF Underway
<1> QED
  BY <1>4, <1>8, <1>9, <1>16, Zenon DEF StudioInv

\* A request is remembered with the text its answer will be about.
LEMMA AskKeeps ==
  ASSUME StudioInv, Ask
  PROVE  StudioInv'
<1>1. PICK log, msgs, verdicts : Underway(log, msgs, verdicts)
  BY DEF StudioInv
<1>2. /\ IInv /\ StudioTypes /\ client # "starting" /\ asks < MaxAsks /\ asks' = asks + 1
      /\ UNCHANGED <<vars, client, typed, toClient, buffer, edits, replied>>
  BY DEF StudioInv, Ask
<1>3. IInv' /\ HeldNow' = HeldNow /\ running' = running /\ docs' = docs /\ shown' = shown
  BY <1>2, ServerStands
<1>4. RepliesMeetTheirRequests'
  BY <1>2 DEF StudioInv, RepliesMeetTheirRequests
<1>5. /\ asks \in 0 .. MaxAsks /\ requestId \in 1 .. asks + 2 /\ MaxAsks \in Nat
      /\ toServer \in Seq(StudioMessages) /\ asked \in Seq(OpenRequests) /\ view \in Views
  BY <1>2, StudioAssumption DEF StudioTypes
<1>6. PICK method \in {"completion", "definition"}, line \in DOMAIN typed :
      \E name \in Range(typed[line].words) :
        \/ /\ client = "connected"
           /\ Send(<<[method |-> method, id |-> requestId, uri |-> Doc,
                      line |-> line, name |-> name]>>)
           /\ requestId' = requestId + 1
           /\ asked' = Append(asked, [method |-> method, text |-> typed, name |-> name])
           /\ view' = view
        \/ /\ client = "failed" \/ ~running
           /\ view' = [view EXCEPT !.problems = @ \cup {method}]
           /\ requestId' = IF client = "failed" THEN requestId ELSE requestId + 1
           /\ UNCHANGED <<toServer, asked>>
  BY DEF Ask
<1>7. PICK name \in Range(typed[line].words) :
        \/ /\ client = "connected"
           /\ Send(<<[method |-> method, id |-> requestId, uri |-> Doc,
                      line |-> line, name |-> name]>>)
           /\ requestId' = requestId + 1
           /\ asked' = Append(asked, [method |-> method, text |-> typed, name |-> name])
           /\ view' = view
        \/ /\ client = "failed" \/ ~running
           /\ view' = [view EXCEPT !.problems = @ \cup {method}]
           /\ requestId' = IF client = "failed" THEN requestId ELSE requestId + 1
           /\ UNCHANGED <<toServer, asked>>
  BY <1>6
<1> DEFINE m == [method |-> method, id |-> requestId, uri |-> Doc, line |-> line, name |-> name]
           asker == [method |-> method, text |-> typed, name |-> name]
<1>8. typed \in Texts /\ name \in Names /\ line \in Lines
  <2>1. typed \in Texts
    BY <1>2, DOMAIN <<>> = {} DEF StudioTypes
  <2>2. typed \in Seq(Line) /\ line \in Lines
    BY <2>1, TextsAssumption, StudioSendsAssumption
  <2>3. typed[line] \in Line
    BY <2>2
  <2>4. typed[line].words \in Seq(Names)
    BY <2>3 DEF Line
  <2> QED
    BY <2>1, <2>2, <2>4 DEF Range
<1>9. /\ m \in StudioMessages /\ ~Updating(m) /\ Asking(m)
      /\ asker \in OpenRequests
      /\ asker.method = m.method /\ asker.name = m.name /\ asker.text = typed
  <2>1. requestId \in 1 .. MaxAsks + 1
    BY <1>2, <1>5
  <2> QED
    BY <1>8, <2>1 DEF StudioMessages, OpenRequests, Updating, Asking
<1> HIDE DEF m, asker
<1>10. CASE /\ client = "connected"
           /\ Send(<<m>>) /\ requestId' = requestId + 1
           /\ asked' = Append(asked, asker) /\ view' = view
  <2>1. toServer' = IF running THEN Append(toServer, m) ELSE toServer
    <3>1. toServer \o <<m>> = Append(toServer, m)
      BY <1>5, <1>9
    <3> QED
      BY <1>10, <3>1 DEF Send
  <2>2. StudioTypes'
    <3>1. toServer' \in Seq(StudioMessages) /\ asked' \in Seq(OpenRequests)
      BY <1>5, <1>9, <1>10, <2>1
    <3>2. asks' \in 0 .. MaxAsks /\ requestId' \in 1 .. asks' + 2
      BY <1>2, <1>5, <1>10
    <3> QED
      BY <1>2, <1>3, <1>10, <2>1, <3>1, <3>2 DEF StudioTypes
  <2> DEFINE n == Len(Only(msgs, Responses))
  <2>3. msgs \in Seq(ServerMessages) /\ Answered(asked, Only(msgs, Responses))
    BY <1>1 DEF Underway
  <2>4. n \in Nat /\ Only(msgs, Responses) \in Seq(ServerMessages)
    BY <2>3, OnlyKeeps
  <2>5. /\ Len(asked') = Len(asked) + 1 /\ asked'[Len(asked) + 1] = asker
        /\ \A k \in 1 .. Len(asked) : asked'[k] = asked[k]
    BY <1>5, <1>9, <1>10
  <2>6. Answered(asked', Only(msgs, Responses))
    <3> DEFINE answers == Only(msgs, Responses)
    <3>1. /\ answers \in Seq(ServerMessages) /\ Len(asked) \in Nat
          /\ Len(answers) <= Len(asked) /\ \A k \in 1 .. Len(answers) : Meets(asked[k], answers[k].result)
      BY <1>5, <2>3, <2>4 DEF Answered
    <3> HIDE DEF answers
    <3>2. Len(answers) \in Nat
      BY <3>1
    <3>3. ASSUME NEW k \in 1 .. Len(answers) PROVE Meets(asked'[k], answers[k].result)
      BY <2>5, <3>1, <3>2
    <3> QED
      BY <2>5, <3>1, <3>2, <3>3 DEF Answered, answers
  <2>7. CASE running
    <3>1. /\ HeldNow \in SUBSET ServerTexts /\ Foresees(log, toServer, HeldNow)
          /\ After(log, HeldNow, Len(log)) = {Received(typed)}
          /\ log \in Seq(Entries)
      BY <1>1, <1>2, <1>10, <2>7, HeldIsText DEF Underway, Foresees
    <3>2. PICK e : Continues(e, log, toServer, HeldNow, m)
      BY <1>5, <1>9, <3>1, ForeseesMore, Zenon
    <3> DEFINE more == Append(log, e)
    <3>3. /\ e \in Entries /\ e.msg = m /\ e.held = {Received(typed)}
          /\ Foresees(more, toServer', HeldNow)
          /\ After(more, HeldNow, Len(more)) = {Received(typed)}
      BY <1>9, <2>1, <2>7, <3>1, <3>2 DEF Continues
    <3>4. Only(more, Askings) = Append(Only(log, Askings), e) /\ Only(log, Askings) \in Seq(Entries)
      <4>1. e \in Askings
        BY <1>9, <3>3 DEF Askings
      <4> QED
        BY <3>1, <3>3, <4>1, OnlyAppend, OnlyKeeps
    <3> DEFINE askings == Only(log, Askings)
    <3>5. Awaits(asked, n, askings)
      BY <1>1, <2>7 DEF Underway
    <3>6. Waits(asker, e)
      BY <1>9, <3>3 DEF Waits
    <3> HIDE DEF n, more, askings
    <3>7. Awaits(asked', n, Append(askings, e))
      <4>1. /\ askings \in Seq(Entries) /\ Len(askings) \in Nat /\ Len(asked) = n + Len(askings)
            /\ \A j \in 1 .. Len(askings) : Waits(asked[n + j], askings[j])
        BY <3>4, <3>5 DEF Awaits, askings
      <4>2. /\ Len(Append(askings, e)) = Len(askings) + 1 /\ Append(askings, e)[Len(askings) + 1] = e
            /\ \A j \in 1 .. Len(askings) : Append(askings, e)[j] = askings[j]
        BY <3>3, <4>1
      <4> DEFINE all == Append(askings, e)
      <4> HIDE DEF all
      <4>3. ASSUME NEW j \in 1 .. Len(askings) + 1
            PROVE  Waits(asked'[n + j], all[j])
        <5>1. CASE j = Len(askings) + 1
          <6>1. n + j = Len(asked) + 1
            BY <2>4, <4>1, <5>1 DEF n
          <6> QED
            BY <2>5, <3>6, <4>2, <5>1, <6>1 DEF all
        <5>2. CASE j \in 1 .. Len(askings)
          <6>1. n + j \in 1 .. Len(asked)
            BY <2>4, <4>1, <5>2 DEF n
          <6>2. asked'[n + j] = asked[n + j] /\ all[j] = askings[j]
            BY <2>5, <4>2, <5>2, <6>1 DEF all
          <6> QED
            BY <4>1, <5>2, <6>2
        <5>3. j = Len(askings) + 1 \/ j \in 1 .. Len(askings)
          BY <4>1
        <5> QED
          BY <5>1, <5>2, <5>3, Zenon
      <4>4. Len(asked') = n + Len(all)
        BY <2>4, <2>5, <4>1, <4>2 DEF all, n
      <4>5. Len(all) = Len(askings) + 1
        BY <4>2 DEF all
      <4> QED
        BY <4>3, <4>4, <4>5, Zenon DEF Awaits, all
    <3>8. Awaits(asked', n, Only(more, Askings))
      BY <3>4, <3>7 DEF more, askings
    <3>9. Underway(more, msgs, verdicts)'
      BY <1>1, <1>2, <1>3, <1>10, <2>6, <3>3, <3>8 DEF Underway, n
    <3> QED
      BY <1>3, <1>4, <2>2, <3>9, Zenon DEF StudioInv
  <2>8. CASE ~running
    <3>1. Underway(log, msgs, verdicts)'
      BY <1>1, <1>2, <1>3, <1>10, <2>1, <2>6, <2>8 DEF Underway
    <3> QED
      BY <1>3, <1>4, <2>2, <3>1, Zenon DEF StudioInv
  <2> QED
    BY <2>7, <2>8
<1>11. CASE /\ view' = [view EXCEPT !.problems = @ \cup {method}]
            /\ requestId' = IF client = "failed" THEN requestId ELSE requestId + 1
            /\ UNCHANGED <<toServer, asked>>
  <2>1. view' \in Views /\ view'.verdict = view.verdict
    BY <1>5, <1>11 DEF Views
  <2>2. requestId' \in 1 .. asks' + 2 /\ asks' \in 0 .. MaxAsks
    BY <1>2, <1>5, <1>11
  <2>3. StudioTypes'
    BY <1>2, <1>3, <1>11, <2>1, <2>2 DEF StudioTypes
  <2>4. Underway(log, msgs, verdicts)'
    BY <1>1, <1>2, <1>11, <2>1, NothingSent
  <2> QED
    BY <1>3, <1>4, <2>3, <2>4, Zenon DEF StudioInv
<1> QED
  BY <1>10, <1>11, <1>7 DEF m, asker

\* Without a server there is nothing underway to it.
LEMMA LeavingKeeps ==
  ASSUME StudioInv, StartFails \/ Crash
  PROVE  StudioInv'
<1>1. PICK log, msgs, verdicts : Underway(log, msgs, verdicts)
  BY DEF StudioInv
<1>2. /\ IInv /\ StudioTypes
      /\ UNCHANGED <<typed, toClient, buffer, view, requestId, edits, asks, asked, replied>>
      /\ UNCHANGED <<indexVars, docs, diagSlot, semCache, preview, nextId, request,
                     sent, historyVars>>
  BY DEF StudioInv, StartFails, Crash, vars, serverVars
<1>3. RepliesMeetTheirRequests'
  BY <1>2 DEF StudioInv, RepliesMeetTheirRequests
<1>4. HeldNow' = HeldNow /\ shown' = shown /\ docs' = docs
  BY <1>2, HeldStays DEF historyVars
<1>5. CASE StartFails
  <2>1. UNCHANGED vars /\ client = "starting" /\ client' = "failed" /\ toServer' = toServer
    BY <1>5 DEF StartFails
  <2>2. IInv' /\ running' = running
    BY <1>2, <2>1, ServerStands
  <2>3. StudioTypes'
    BY <1>2, <1>4, <2>1, <2>2 DEF StudioTypes
  <2>4. Underway(log, msgs, verdicts)'
    BY <1>1, <1>2, <2>1, NothingSent
  <2> QED
    BY <1>3, <2>2, <2>3, <2>4, Zenon DEF StudioInv
<1>6. CASE Crash
  <2>1. running' = FALSE /\ client' = client /\ client = "connected" /\ toServer' = <<>>
    BY <1>6 DEF Crash
  <2>2. IInv'
    <3>1. TypeOK'
      BY <1>2, <2>1 DEF IInv, TypeOK, indexVars, historyVars
    <3>2. TablesAgree' /\ CacheRemembers' /\ SlotWasShown' /\ IndexFollows'
      BY <1>2 DEF IInv, TablesAgree, CacheRemembers, SlotWasShown, Known, IndexFollows,
                  indexVars, historyVars
    <3>3. DiagnosticsFollowText' /\ (\A i \in DOMAIN docs : docs[i].uri \in DOMAIN editor)'
      BY <1>2 DEF IInv, DiagnosticsFollowText, historyVars
    <3> QED
      BY <3>1, <3>2, <3>3 DEF IInv
  <2>3. StudioTypes'
    BY <1>2, <1>4, <2>1 DEF StudioTypes
  <2>4. Underway(<<>>, msgs, verdicts)'
    <3>1. Foresees(<<>>, <<>>, HeldNow)
      BY DEF Foresees
    <3> QED
      BY <1>1, <1>2, <1>4, <2>1, <3>1 DEF Underway
  <2> QED
    BY <1>3, <2>2, <2>3, <2>4, Zenon DEF StudioInv
<1> QED
  BY <1>5, <1>6

\* Studio's messages are those of their method.
LEMMA MessageFields ==
  ASSUME NEW req \in StudioMessages
  PROVE  \/ req.method = "initialize" /\ req.id = 1
         \/ /\ req.method \in {"didOpen", "didChange"}
            /\ req.uri = Doc /\ req.text \in Texts /\ req \in DocumentUpdates
         \/ /\ req.method \in {"completion", "definition"}
            /\ req.id \in 1 .. MaxAsks + 1 /\ req.uri = Doc /\ req.line \in Lines
            /\ req.name \in Names
BY StudioAssumption DEF StudioMessages, DocumentUpdates, Uris

\* The turn that reads one of them is that of its method.
LEMMA StudioTurns ==
  ASSUME NEW req \in StudioMessages, Handle(req)
  PROVE  /\ req.method = "initialize" => Initialize(req)
         /\ req.method \in {"didOpen", "didChange"} => DidOpenOrChange(req)
         /\ req.method = "completion" => Completion(req)
         /\ req.method = "definition" => Definition(req)
BY DEF Handle, DidOpenOrChange, DocumentUpdates, Definition, OwnDeclaration,
       References, Rename, Hover, PrepareRename, SelectionRange, SignatureHelp, Completion,
       SymbolList, Formatting, RangeFormatting, InlayHint, FoldingRange, PullDiagnostic,
       RefactorPreview, Acknowledge, SemanticTokens, CodeAction, Initialize, Ignore, Exit

\* The server holds one document at most, which fits all its tables.
LEMMA OneDocument ==
  ASSUME IInv, \A i \in DOMAIN docs : docs[i].uri = Doc
  PROVE  /\ docs = <<>> \/ Known(Doc)
         /\ Len(docs) <= 1 /\ Len(docs) <= SymbolCap /\ HasRoom(docs, DocCap, Doc)
<1>1. /\ docs \in Seq(Entry) /\ \A i, j \in DOMAIN docs : docs[i].uri = docs[j].uri => i = j
  BY Table
<1>2. Len(docs) \in Nat /\ DOMAIN docs = 1 .. Len(docs)
  BY <1>1
<1>3. Len(docs) <= 1
  <2> SUFFICES ASSUME Len(docs) > 1 PROVE FALSE
    BY <1>2
  <2>1. 1 \in DOMAIN docs /\ 2 \in DOMAIN docs
    BY <1>2
  <2> QED
    BY <1>1, <2>1
<1>4. docs = <<>> \/ Known(Doc)
  <2>1. docs # <<>> => 1 \in DOMAIN docs
    BY <1>1
  <2> QED
    BY <2>1 DEF Known, Holds
<1> QED
  BY <1>1, <1>3, <1>4, IndexCapsAssumption, DocCapAssumption DEF HasRoom, Known

\* A line that declares a name after a text was received declared it before.
LEMMA DeclaredAsTyped ==
  ASSUME NEW text \in Texts, NEW name, DeclaredIn(Received(text), name)
  PROVE  1 \in DOMAIN text /\ Declares(text[1]) /\ text[1].name = name
<1>1. text \in Seq(Line) /\ text # <<>>
  BY TextsAssumption DEF Received, DeclaredIn
<1>2. 1 \in DOMAIN text
  BY <1>1
<1>3. /\ Received(text)[1].name = text[1].name
      /\ Received(text)[1].kind = IF text[1].kind = "fn" /\ text[1].quoted THEN "open"
                                                                         ELSE text[1].kind
  BY <1>1 DEF Received
<1> QED
  BY <1>2, <1>3 DEF DeclaredIn, Declares

\* A jump leads to a declaration in the one text that is served.
LEMMA JumpFound ==
  ASSUME IInv, \A i \in DOMAIN docs : docs[i].uri = Doc, NEW name
  PROVE  \/ FindDefinition(name, Doc) = Null
         \/ /\ FindDefinition(name, Doc) = Location(Doc, 1)
            /\ Known(Doc) /\ DeclaredIn(Text(Doc), name)
<1>1. Len(docs) <= SymbolCap
  BY OneDocument
<1>2. \A i \in DOMAIN docs : Known(docs[i].uri) /\ Text(docs[i].uri) = docs[i].text
  BY Table
<1>3. CASE FindDefinition(name, Doc) = Null
  BY <1>3
<1>4. CASE FindDefinition(name, Doc) # Null
  <2>1. PICK i \in DOMAIN docs : /\ DeclaredIn(docs[i].text, name)
                                 /\ FindDefinition(name, Doc) = Location(docs[i].uri, 1)
    BY <1>1, <1>4, DefinitionFound
  <2>2. docs[i].uri = Doc
    OBVIOUS
  <2> QED
    BY <1>2, <2>1, <2>2
<1> QED
  BY <1>3, <1>4

\* What completion offers is made of names.
LEMMA CompletedNames ==
  ASSUME IInv, Len(docs) <= SymbolCap, NEW prefix
  PROVE  Completions(prefix) \subseteq Names \cup {NoName}
<1>1. symbols \in Seq(Symbol)
  BY SymbolTable
<1>2. ASSUME NEW i \in DOMAIN symbols
      PROVE  symbols[i].name \in Names \cup {NoName}
  <2>1. symbols[i] \in Symbol
    BY <1>1
  <2> QED
    BY <2>1 DEF Symbol
<1> QED
  BY <1>2 DEF Completions

\* What a turn leaves for the document, and writes.
LEMMA StudioAnswers ==
  ASSUME IInv, \A i \in DOMAIN docs : docs[i].uri = Doc, NEW req \in StudioMessages, Handle(req)
  PROVE  /\ running /\ running' = running
         /\ \A i \in DOMAIN docs' : docs'[i].uri = Doc
         /\ sent' \in ServerMessages /\ sent' # Silence
         /\ HeldNow' = IF Updating(req) THEN {Received(req.text)} ELSE HeldNow
         /\ shown'[Doc] = ShownBy(sent', shown[Doc])
         /\ sent'.type = IF Asking(req) THEN "response" ELSE "publish"
         /\ \A asker \in OpenRequests, held \in SUBSET ServerTexts :
              Asking(req) /\ held = HeldNow /\ Waits(asker, [msg |-> req, held |-> held])
                => Meets(asker, sent'.result)
<1>1. running
  BY DEF Handle
<1>2. /\ Doc \in Sources /\ Doc \in Uris /\ Doc \notin Others
  BY StudioAssumption, DocumentsAssumption DEF Uris
<1>3. Len(docs) <= SymbolCap /\ HasRoom(docs, DocCap, Doc)
  BY OneDocument
<1>4. CASE req.method = "initialize"
  <2>1. /\ sent' = Respond(1, Info) /\ docs' = docs /\ running' = running /\ shown' = shown
    BY <1>4, MessageFields, StudioTurns DEF Initialize, historyVars
  <2>2. sent' \in ServerMessages /\ sent'.type = "response" /\ sent'.result = Info
        /\ sent' # Silence
    BY <2>1, StudioAssumption DEF ServerMessages, Results, Respond, Silence
  <2> QED
    BY <1>1, <1>4, <2>1, <2>2, HeldStays DEF Updating, Asking, Waits, Meets, ShownBy
<1>5. CASE req.method \in {"didOpen", "didChange"}
  <2> DEFINE text == Received(req.text)
  <2>1. req.uri = Doc /\ text \in ServerTexts /\ DidOpenOrChange(req)
    BY <1>5, MessageFields, StudioTurns DEF ServerTexts
  <2>2. /\ docs' = Stored(docs, Doc, text) /\ running' = running
        /\ sent' = Publish(Doc, ~Parses(text))
        /\ shown' = [shown EXCEPT ![Doc] = Verdict(text)]
    BY <1>2, <1>3, <2>1 DEF DidOpenOrChange, AnalyzeAndPublish
  <2> HIDE DEF text
  <2>3. /\ \A i \in DOMAIN docs' : docs'[i].uri = Doc
        /\ HeldNow' = {text}
    <3>1. docs \in Seq(Entry) /\ \A i, j \in DOMAIN docs : docs[i].uri = docs[j].uri => i = j
      BY Table
    <3> DEFINE new == Stored(docs, Doc, text)
    <3>2. ASSUME NEW i \in DOMAIN new
          PROVE  \/ new[i] = [uri |-> Doc, text |-> text]
                 \/ i \in DOMAIN docs /\ new[i] = docs[i] /\ docs[i].uri # Doc
      BY <1>2, <2>1, <3>1, StoredEntries
    <3>6. Holds(new, Doc)
      BY <1>2, <2>1, <3>1, StoredKeeps
    <3> HIDE DEF new
    <3>3. \A i \in DOMAIN new : new[i] = [uri |-> Doc, text |-> text]
      BY <3>2
    <3>4. TextOf(new, Doc) = text
      BY <3>3, <3>6 DEF TextOf, Holds
    <3>5. docs' = new
      BY <2>2 DEF new
    <3> QED
      BY <3>3, <3>4, <3>5, <3>6 DEF HeldNow, Known, Text
  <2>4. sent' \in ServerMessages /\ sent'.type = "publish" /\ sent'.error = ~Parses(text)
        /\ sent' # Silence
    BY <2>2 DEF ServerMessages, Publish, Silence
  <2>5. shown'[Doc] = Verdict(text)
    <3>1. shown \in [Uris -> Verdicts]
      BY DEF IInv, TypeOK
    <3> QED
      BY <1>2, <2>2, <3>1
  <2> QED
    BY <1>1, <1>5, <2>2, <2>3, <2>4, <2>5 DEF Updating, Asking, ShownBy, Verdict, text
<1>6. CASE req.method = "completion"
  <2>1. PICK prefix : sent' = Respond(req.id, Labels(IF ~Known(Doc) THEN {}
                                                    ELSE Completions(prefix)))
    BY <1>6, MessageFields, StudioTurns DEF Completion, Answer
  <2>2. docs' = docs /\ running' = running /\ shown' = shown
    BY <1>6, StudioTurns DEF Completion, Answer, historyVars
  <2>3. PICK names \in SUBSET (Names \cup {NoName}) : sent' = Respond(req.id, Labels(names))
    BY <1>3, <2>1, CompletedNames
  <2>4. sent' \in ServerMessages /\ sent'.type = "response" /\ sent'.result.kind = "labels"
        /\ sent' # Silence
    BY <1>6, <2>3, MessageFields DEF ServerMessages, Results, Respond, Labels, Silence
  <2> QED
    BY <1>1, <1>6, <2>2, <2>4, HeldStays DEF Updating, Asking, Waits, Meets, ShownBy
<1>7. CASE req.method = "definition"
  <2>1. /\ req.uri = Doc /\ req.id \in 1 .. MaxAsks + 1
        /\ sent' = Respond(req.id, IF SymbolAt(req) THEN FindDefinition(req.name, Doc) ELSE Null)
    BY <1>7, MessageFields, StudioTurns DEF Definition, Answer
  <2>2. docs' = docs /\ running' = running /\ shown' = shown
    BY <1>7, StudioTurns DEF Definition, Answer, historyVars
  <2> DEFINE result == sent'.result
  <2>3. /\ sent' = Respond(req.id, result)
        /\ \/ result = Null
           \/ /\ result = Location(Doc, 1)
              /\ Known(Doc) /\ DeclaredIn(Text(Doc), req.name)
    BY <2>1, JumpFound DEF Respond
  <2>4. sent' \in ServerMessages /\ sent'.type = "response" /\ sent' # Silence
    <3>1. result \in Results
      BY <2>3 DEF Results
    <3> HIDE DEF result
    <3> QED
      BY <2>1, <2>3, <3>1 DEF ServerMessages, Respond, Silence
  <2>5. ASSUME NEW asker \in OpenRequests, NEW held, held = HeldNow,
               Waits(asker, [msg |-> req, held |-> held])
        PROVE  Meets(asker, result)
    <3>1. /\ asker.method = "definition" /\ asker.name = req.name
          /\ HeldNow = {Received(asker.text)}
      BY <1>7, <2>5 DEF Waits
    <3>2. asker.text \in Texts
      BY DEF OpenRequests
    <3>3. CASE result = Location(Doc, 1) /\ Known(Doc) /\ DeclaredIn(Text(Doc), req.name)
      <4>1. Text(Doc) = Received(asker.text)
        BY <3>1, <3>3 DEF HeldNow
      <4>2. 1 \in DOMAIN asker.text /\ Declares(asker.text[1]) /\ asker.text[1].name = asker.name
        BY <3>1, <3>2, <3>3, <4>1, DeclaredAsTyped
      <4>3. result.kind = "location" /\ result.line = 1
        BY <3>3 DEF Location
      <4> HIDE DEF result
      <4> QED
        BY <3>1, <4>2, <4>3 DEF Meets
    <3>4. CASE result = Null
      BY <3>1, <3>4 DEF Meets
    <3> QED
      BY <2>3, <3>3, <3>4
  <2> QED
    BY <1>1, <1>7, <2>2, <2>4, <2>5, HeldStays DEF Updating, Asking, ShownBy
<1> QED
  BY <1>4, <1>5, <1>6, <1>7, MessageFields

\* The oldest request that is on its way to the server is the first without a
\* reply on its way back.
LEMMA AwaitsLess ==
  ASSUME NEW list \in Seq(OpenRequests), NEW n \in Nat, NEW rest \in Seq(Entries),
         NEW e \in Entries, Awaits(list, n, <<e>> \o rest)
  PROVE  /\ n + 1 <= Len(list) /\ Waits(list[n + 1], e)
         /\ Awaits(list, n + 1, rest)
<1> DEFINE one == <<e>>  all == one \o rest
<1>1. one \in Seq(Entries) /\ Len(one) = 1 /\ one[1] = e /\ Len(rest) \in Nat
  OBVIOUS
<1> HIDE DEF one
<1>2. /\ Len(all) = Len(one) + Len(rest)
      /\ \A i \in 1 .. Len(one) + Len(rest) :
           all[i] = IF i <= Len(one) THEN one[i] ELSE rest[i - Len(one)]
  BY <1>1, ConcatProperties
<1> HIDE DEF all
<1>3. all[1] = e /\ \A i \in 1 .. Len(rest) : all[i + 1] = rest[i]
  BY <1>1, <1>2
<1>4. Len(list) = n + (1 + Len(rest)) /\ \A j \in 1 .. 1 + Len(rest) : Waits(list[n + j], all[j])
  BY <1>1, <1>2 DEF Awaits, all, one
<1>5. Waits(list[n + 1], e)
  BY <1>1, <1>3, <1>4
<1>6. ASSUME NEW j \in 1 .. Len(rest)
      PROVE  Waits(list[(n + 1) + j], rest[j])
  <2>1. j + 1 \in 1 .. 1 + Len(rest) /\ n + (j + 1) = (n + 1) + j
    BY <1>1
  <2> QED
    BY <1>3, <1>4, <2>1
<1> QED
  BY <1>1, <1>4, <1>5, <1>6, SMTT(30) DEF Awaits

LEMMA AnsweredMore ==
  ASSUME NEW list, NEW answers \in Seq(ServerMessages), NEW m \in ServerMessages,
         Answered(list, answers), Len(answers) + 1 <= Len(list),
         Meets(list[Len(answers) + 1], m.result)
  PROVE  Answered(list, Append(answers, m))
<1> DEFINE more == Append(answers, m)
<1>1. /\ Len(answers) \in Nat /\ Len(more) = Len(answers) + 1 /\ more[Len(answers) + 1] = m
      /\ \A k \in 1 .. Len(answers) : more[k] = answers[k]
  OBVIOUS
<1> HIDE DEF more
<1>2. ASSUME NEW k \in 1 .. Len(more)
      PROVE  Meets(list[k], more[k].result)
  <2>1. CASE k = Len(answers) + 1
    BY <1>1, <2>1
  <2>2. CASE k \in 1 .. Len(answers)
    BY <1>1, <2>2 DEF Answered
  <2>3. k = Len(answers) + 1 \/ k \in 1 .. Len(answers)
    BY <1>1
  <2> QED
    BY <2>1, <2>2, <2>3, Zenon
<1>3. Len(more) <= Len(list)
  BY <1>1
<1> QED
  BY <1>2, <1>3, Zenon DEF Answered, more

\* The server takes a message out of one pipe and puts its answer into the other.
LEMMA TurnKeeps ==
  ASSUME StudioInv, ServerTurn
  PROVE  StudioInv'
<1>1. PICK log, msgs, verdicts : Underway(log, msgs, verdicts)
  BY DEF StudioInv
<1> DEFINE req == Head(toServer)
<1>2. /\ IInv /\ StudioTypes /\ toServer \in Seq(StudioMessages) /\ toServer # <<>>
      /\ Handle(req) /\ toServer' = Tail(toServer) /\ toClient' = toClient \o Frame(sent')
      /\ UNCHANGED <<client, typed, buffer, view, requestId, edits, asks, asked, replied>>
  BY DEF StudioInv, StudioTypes, ServerTurn
<1>3. req \in StudioMessages /\ toServer' \in Seq(StudioMessages)
  BY <1>2
<1> HIDE DEF req
<1>4. IInv'
  <2>1. Next
    BY <1>2, <1>3, SentIsRead DEF Next
  <2> QED
    BY <1>2, <2>1, NextInvariant
<1>5. PICK m \in ServerMessages : m = sent'
  BY <1>2, <1>3, StudioAnswers DEF StudioTypes
<1>6. /\ running /\ running' = running
      /\ \A i \in DOMAIN docs' : docs'[i].uri = Doc
      /\ m # Silence
      /\ HeldNow' = IF Updating(req) THEN {Received(req.text)} ELSE HeldNow
      /\ shown'[Doc] = ShownBy(m, shown[Doc])
      /\ m.type = IF Asking(req) THEN "response" ELSE "publish"
      /\ \A asker \in OpenRequests, held \in SUBSET ServerTexts :
           Asking(req) /\ held = HeldNow /\ Waits(asker, [msg |-> req, held |-> held])
             => Meets(asker, m.result)
  BY <1>2, <1>3, <1>5, StudioAnswers DEF StudioTypes
<1>7. /\ client = "connected" /\ buffer \in Seq(Pieces) /\ toClient \in Seq(Pieces)
      /\ asked \in Seq(OpenRequests)
  BY <1>2 DEF StudioTypes
<1> DEFINE header == [part |-> HeaderPart, message |-> m]
           body == [part |-> "body", message |-> m]
           pair == <<header, body>>
<1>8. header \in Pieces /\ body \in Pieces /\ Frame(sent') = pair
  BY <1>5, <1>6 DEF Pieces, Frame
<1>9. StudioTypes'
  <2>1. toClient' \in Seq(Pieces)
    <3> HIDE DEF header, body
    <3> QED
      BY <1>2, <1>7, <1>8, PairBehind
  <2> QED
    BY <1>2, <1>3, <1>6, <1>7, <2>1 DEF StudioTypes
<1>10. RepliesMeetTheirRequests'
  BY <1>2 DEF StudioInv, RepliesMeetTheirRequests
<1>11. /\ Foresees(log, toServer, HeldNow) /\ msgs \in Seq(ServerMessages)
       /\ log \in Seq(Entries)
       /\ After(log, HeldNow, Len(log)) = {Received(typed)}
       /\ Frames(buffer \o toClient, msgs)
       /\ Displays(verdicts, msgs, view.verdict, shown[Doc])
       /\ Answered(asked, Only(msgs, Responses))
       /\ Awaits(asked, Len(Only(msgs, Responses)), Only(log, Askings))
  BY <1>1, <1>6, <1>7 DEF Underway, Foresees
<1>12. /\ log # <<>> /\ log[1] \in Entries /\ log[1].msg = req /\ log[1].held = HeldNow'
       /\ Foresees(Tail(log), toServer', HeldNow')
       /\ After(Tail(log), HeldNow', Len(Tail(log))) = {Received(typed')}
  <2>1. /\ log # <<>> /\ log[1] \in Entries /\ log[1].msg = req
        /\ log[1].held = IF Updating(req) THEN {Received(req.text)} ELSE HeldNow
        /\ Foresees(Tail(log), Tail(toServer), log[1].held)
        /\ After(Tail(log), log[1].held, Len(Tail(log))) = After(log, HeldNow, Len(log))
    BY <1>2, <1>11, ForeseesLess, Zenon DEF req
  <2>2. log[1].held = HeldNow'
    BY <1>6, <2>1
  <2> QED
    BY <1>2, <1>11, <2>1, <2>2, Zenon
<1>13. Frames((buffer \o toClient)', Append(msgs, m))
  <2> DEFINE old == buffer \o toClient
  <2>1. old \in Seq(Pieces) /\ Frames(old, msgs)
    BY <1>7, <1>11, ConcatProperties
  <2>2. (buffer \o toClient)' = old \o pair
    <3>1. pair \in Seq(Pieces)
      <4> HIDE DEF header, body
      <4> QED
        BY <1>8
    <3> HIDE DEF pair
    <3>2. buffer \o (toClient \o pair) = old \o pair
      BY <1>7, <3>1, ConcatAssociative, SMTT(30)
    <3> QED
      BY <1>2, <1>8, <3>2
  <2> HIDE DEF old
  <2>3. Frames(old \o pair, Append(msgs, m))
    BY <1>11, <2>1, FramesMore, Zenon
  <2> QED
    BY <2>2, <2>3, Zenon
<1>14. PICK later : Displays(later, Append(msgs, m), view.verdict, ShownBy(m, shown[Doc]))
  BY <1>11, DisplaysMore, Zenon
<1> HIDE DEF header, body, pair
<1> DEFINE answers == Only(msgs, Responses)  rest == Only(Tail(log), Askings)  e == log[1]
<1>15. answers \in Seq(ServerMessages) /\ Len(answers) \in Nat
  BY <1>11, OnlyKeeps
<1>16. rest \in Seq(Entries) /\ Tail(log) \in Seq(Entries) /\ Head(log) = e /\ e \in Entries
  <2>1. Tail(log) \in Seq(Entries) /\ Head(log) = e
    BY <1>11, <1>12
  <2> QED
    BY <1>12, <2>1, OnlyKeeps
<1>17. Append(msgs, m) \in Seq(ServerMessages)
  BY <1>11
<1>18. CASE Asking(req)
  <2>1. Only(Append(msgs, m), Responses) = Append(answers, m)
    <3>1. m \in Responses
      BY <1>6, <1>18 DEF Responses
    <3> QED
      BY <1>11, <3>1, OnlyAppend
  <2>2. Only(log, Askings) = <<e>> \o rest
    <3>1. e \in Askings
      BY <1>12, <1>16, <1>18 DEF Askings
    <3> QED
      BY <1>11, <1>12, <1>16, <3>1, OnlyHeadTail
  <2> HIDE DEF answers, rest, e
  <2>3. /\ Len(answers) + 1 <= Len(asked) /\ Waits(asked[Len(answers) + 1], e)
        /\ Awaits(asked, Len(answers) + 1, rest)
    <3>1. Awaits(asked, Len(answers), <<e>> \o rest)
      BY <1>11, <2>2 DEF answers
    <3> QED
      BY <1>7, <1>15, <1>16, <3>1, AwaitsLess
  <2>4. Meets(asked[Len(answers) + 1], m.result)
    <3>1. asked[Len(answers) + 1] \in OpenRequests
      BY <1>7, <1>15, <2>3
    <3>2. e.msg = req /\ e.held = HeldNow /\ HeldNow \in SUBSET ServerTexts
      <4>1. ~Updating(req)
        BY <1>18 DEF Asking, Updating
      <4> QED
        BY <1>2, <1>6, <1>12, <4>1, HeldIsText DEF e
    <3>3. Waits(asked[Len(answers) + 1], [msg |-> req, held |-> HeldNow])
      BY <2>3, <3>2 DEF Waits
    <3> QED
      BY <1>6, <1>18, <3>1, <3>2, <3>3, Zenon
  <2>5. Answered(asked, Append(answers, m))
    BY <1>11, <1>15, <2>3, <2>4, AnsweredMore DEF answers
  <2>6. Len(Append(answers, m)) = Len(answers) + 1
    BY <1>15
  <2>7. Answered(asked, Only(Append(msgs, m), Responses))
    BY <2>1, <2>5, Zenon
  <2>8. Awaits(asked, Len(Only(Append(msgs, m), Responses)), Only(Tail(log), Askings))
    BY <2>1, <2>3, <2>6, Zenon DEF rest
  <2>9. Underway(Tail(log), Append(msgs, m), later)'
    BY <1>2, <1>6, <1>12, <1>13, <1>14, <1>17, <2>7, <2>8, Zenon DEF Underway
  <2> QED
    BY <1>4, <1>9, <1>10, <2>9, Zenon DEF StudioInv
<1>19. CASE ~Asking(req)
  <2>1. Only(Append(msgs, m), Responses) = answers
    <3>1. m \notin Responses
      BY <1>6, <1>19 DEF Responses
    <3> QED
      BY <1>11, <3>1, OnlyAppend
  <2>2. Only(log, Askings) = rest
    <3>1. e \notin Askings
      BY <1>12, <1>16, <1>19 DEF Askings
    <3> QED
      BY <1>11, <1>12, <1>16, <3>1, OnlyHeadTail
  <2>3. Underway(Tail(log), Append(msgs, m), later)'
    BY <1>2, <1>6, <1>11, <1>12, <1>13, <1>14, <1>17, <2>1, <2>2, Zenon DEF Underway, answers, rest
  <2> QED
    BY <1>4, <1>9, <1>10, <2>3, Zenon DEF StudioInv
<1> QED
  BY <1>18, <1>19

\* What the window makes of one message, and of several.
LEMMA ShownType ==
  ASSUME NEW v \in Views, NEW m \in ServerMessages
  PROVE  Shown(v, m) \in Views /\ Shown(v, m).verdict = ShownBy(m, v.verdict)
<1>1. CASE m.type = "publish"
  <2>1. m.uri = Doc /\ m.error \in BOOLEAN
    BY <1>1 DEF ServerMessages
  <2> QED
    BY <1>1, <2>1 DEF Shown, ShownBy, Views, Verdicts
<1>2. CASE m.type # "publish"
  <2>1. m.result \in Results
    BY <1>2 DEF ServerMessages
  <2>2. \/ m.result = Info \/ m.result = Null \/ m.result = Location(Doc, 1)
        \/ \E names \in SUBSET (Names \cup {NoName}) : m.result = Labels(names)
    BY <2>1 DEF Results
  <2>3. CASE m.result = Info \/ m.result = Null
    BY <1>2, <2>3 DEF Shown, ShownBy, Info, Null
  <2>4. CASE m.result = Location(Doc, 1)
    BY <1>2, <2>4 DEF Shown, ShownBy, Location, Views
  <2>5. ASSUME NEW names \in SUBSET (Names \cup {NoName}), m.result = Labels(names)
        PROVE  Shown(v, m) \in Views /\ Shown(v, m).verdict = ShownBy(m, v.verdict)
    <3>1. Shown(v, m) = [v EXCEPT !.completions = names, !.panel = (names # {})]
      BY <1>2, <2>5 DEF Shown, Labels
    <3>2. (names # {}) \in BOOLEAN
      OBVIOUS
    <3> QED
      BY <1>2, <3>1, <3>2 DEF ShownBy, Views
  <2> QED
    BY <2>2, <2>3, <2>4, <2>5
<1> QED
  BY <1>1, <1>2

LEMMA ShownRuns ==
  ASSUME NEW list \in Seq(ServerMessages), NEW v \in Views, NEW verdicts, NEW last,
         Displays(verdicts, list, v.verdict, last)
  PROVE  FoldLeft(Shown, v, list) \in Views /\ FoldLeft(Shown, v, list).verdict = last
<1> DEFINE F == [i \in 1 .. Len(list) |-> [w \in Views |-> Shown(w, list[i])]]
           Is(it) == it = [s \in SUBSET (DOMAIN list) |->
                            IF s = {} THEN v
                            ELSE Shown(it[s \ {Max(s)}], list[Max(s)])]
           it == CHOOSE h : Is(h)
<1>1. /\ Len(list) \in Nat /\ DOMAIN list = 1 .. Len(list)
      /\ \A i \in 1 .. Len(list) : list[i] \in ServerMessages
  OBVIOUS
<1>2. FoldLeft(Shown, v, list) = it[DOMAIN list]
  BY DEF FoldLeft, MapThenFoldSet
<1>3. F \in [1 .. Len(list) -> [Views -> Views]]
  BY <1>1, ShownType
<1>4. PICK h : Descends(h, Len(list), Views, v, F)
  <2> HIDE DEF F
  <2> QED
    BY <1>1, <1>3, Descent
<1>5. Is(h)
  <2>1. h \in [SUBSET (1 .. Len(list)) -> Views] /\ h[{}] = v
    BY <1>4 DEF Descends
  <2>2. ASSUME NEW s \in SUBSET (1 .. Len(list)), s # {}
        PROVE  h[s] = Shown(h[s \ {Max(s)}], list[Max(s)])
    <3>1. h[s] = F[Max(s)][h[s \ {Max(s)}]]
      BY <1>4, <2>2, Zenon DEF Descends
    <3>2. Max(s) \in 1 .. Len(list)
      BY <1>1, <2>2, LastOne
    <3>3. h[s \ {Max(s)}] \in Views
      <4>1. s \ {Max(s)} \in SUBSET (1 .. Len(list))
        OBVIOUS
      <4> QED
        BY <2>1, <4>1
    <3> QED
      BY <3>1, <3>2, <3>3
  <2> QED
    BY <1>1, <2>1, <2>2
<1>6. Is(it)
  <2> HIDE DEF Is
  <2> QED
    BY <1>5, Zenon
<1> HIDE DEF it
<1>7. it[{}] = v
  BY <1>1, <1>6
<1>8. ASSUME NEW i \in 1 .. Len(list)
      PROVE  it[1 .. i] = Shown(it[1 .. i - 1], list[i])
  <2>1. i \in 1 .. i /\ 1 .. i \in SUBSET (DOMAIN list) /\ i \in Nat
    BY <1>1
  <2>2. 1 .. i # {}
    BY <2>1
  <2>3. Max(1 .. i) = i /\ (1 .. i) \ {i} = 1 .. i - 1
    BY <2>1, LastPlace
  <2>4. it[1 .. i] = Shown(it[(1 .. i) \ {Max(1 .. i)}], list[Max(1 .. i)])
    BY <1>6, <2>1, <2>2, Zenon
  <2> QED
    BY <2>3, <2>4
<1> HIDE DEF Is
<1> DEFINE P == {i \in 0 .. Len(list) : it[1 .. i] \in Views /\ it[1 .. i].verdict = verdicts[i]}
<1>9. 0 \in P
  <2>1. 1 .. 0 = {} /\ verdicts[0] = v.verdict
    BY DEF Displays
  <2> QED
    BY <1>1, <1>7, <2>1
<1>10. ASSUME NEW i \in 1 .. Len(list), i - 1 \in P
       PROVE  i \in P
  <2>1. it[1 .. i - 1] \in Views /\ it[1 .. i - 1].verdict = verdicts[i - 1]
    BY <1>10
  <2>2. verdicts[i] = ShownBy(list[i], verdicts[i - 1])
    BY DEF Displays
  <2>3. /\ Shown(it[1 .. i - 1], list[i]) \in Views
        /\ Shown(it[1 .. i - 1], list[i]).verdict = ShownBy(list[i], verdicts[i - 1])
    BY <1>1, <2>1, ShownType
  <2>4. it[1 .. i] \in Views /\ it[1 .. i].verdict = verdicts[i]
    BY <1>8, <2>2, <2>3
  <2> QED
    BY <2>4
<1>11. 0 .. Len(list) \subseteq P
  <2> HIDE DEF P
  <2> QED
    BY <1>1, <1>9, <1>10, UpTo
<1>12. Len(list) \in P /\ verdicts[Len(list)] = last
  BY <1>1, <1>11 DEF Displays
<1> QED
  BY <1>1, <1>2, <1>12

\* The verdicts of the first messages.
LEMMA DisplaysFirst ==
  ASSUME NEW msgs \in Seq(ServerMessages), NEW verdicts, NEW first, NEW last,
         Displays(verdicts, msgs, first, last), NEW c \in 0 .. Len(msgs)
  PROVE  \E earlier : Displays(earlier, SubSeq(msgs, 1, c), first, verdicts[c])
<1> DEFINE earlier == [i \in 0 .. c |-> verdicts[i]]
           taken == SubSeq(msgs, 1, c)
<1>1. Len(taken) = c /\ \A i \in 1 .. c : taken[i] = msgs[i]
  BY CutInTwo
<1>2. /\ c \in Nat /\ 0 .. c \subseteq 0 .. Len(msgs) /\ 1 .. c \subseteq 1 .. Len(msgs)
      /\ \A i \in 1 .. c : i \in 0 .. c /\ i - 1 \in 0 .. c
      /\ 0 \in 0 .. c /\ c \in 0 .. c
  OBVIOUS
<1> HIDE DEF taken
<1>3. Displays(earlier, taken, first, verdicts[c])
  BY <1>1, <1>2 DEF Displays
<1> QED
  BY <1>3 DEF taken

\* All whole messages are taken from what was read.
LEMMA WholeFrames ==
  ASSUME NEW pieces \in Seq(Pieces), NEW msgs \in Seq(ServerMessages), Frames(pieces, msgs),
         NEW got \in Seq(Pieces), Len(got) <= Len(pieces),
         \A i \in 1 .. Len(got) : got[i] = pieces[i]
  PROVE  /\ Complete(got) \in 0 .. Len(msgs) /\ 2 * Complete(got) <= Len(got)
         /\ TextMode \/ Len(got) <= 2 * Complete(got) + 1
         /\ [j \in 1 .. Complete(got) |-> got[2 * j].message] = SubSeq(msgs, 1, Complete(got))
<1> DEFINE half == Len(got) \div 2
           whole == {k \in 0 .. half : \A j \in 1 .. k : /\ got[2 * j - 1].part = "header"
                                                         /\ got[2 * j].part = "body"}
<1>1. /\ Len(got) \in Nat /\ Len(msgs) \in Nat /\ Len(pieces) = 2 * Len(msgs)
      /\ \A i \in 1 .. Len(msgs) : /\ pieces[2 * i - 1] = [part |-> HeaderPart, message |-> msgs[i]]
                                   /\ pieces[2 * i] = [part |-> "body", message |-> msgs[i]]
  BY DEF Frames
<1>2. half \in Nat /\ Len(got) \in {2 * half, 2 * half + 1}
  BY <1>1
<1> HIDE DEF half
<1>3. half \in 0 .. Len(msgs)
  BY <1>1, <1>2
<1>4. ASSUME NEW j \in 1 .. half
      PROVE  /\ got[2 * j - 1].part = HeaderPart
             /\ got[2 * j].part = "body" /\ got[2 * j].message = msgs[j]
  <2>1. 2 * j - 1 \in 1 .. Len(got) /\ 2 * j \in 1 .. Len(got) /\ j \in 1 .. Len(msgs)
    BY <1>1, <1>2, <1>3
  <2>2. /\ got[2 * j - 1] = [part |-> HeaderPart, message |-> msgs[j]]
        /\ got[2 * j] = [part |-> "body", message |-> msgs[j]]
    BY <1>1, <2>1
  <2> QED
    BY <2>2
<1> DEFINE count == IF TextMode THEN 0 ELSE half
<1>5. whole = 0 .. count
  <2>1. CASE TextMode
    <3>1. \A j \in 1 .. half : got[2 * j - 1].part # "header"
      BY <1>4, <2>1 DEF HeaderPart
    <3>2. \A k \in 1 .. half : 1 \in 1 .. k /\ 1 \in 1 .. half
      BY <1>2
    <3>3. \A k \in 1 .. half : k \notin whole
      BY <3>1, <3>2
    <3>4. 0 \in whole /\ whole \subseteq 0 .. half
      BY <1>2
    <3> HIDE DEF whole
    <3>5. \A k \in 0 .. half : k \in whole <=> k = 0
      BY <1>2, <3>3, <3>4
    <3>6. count = 0 /\ 0 .. 0 = {0}
      BY <2>1
    <3> QED
      BY <3>4, <3>5, <3>6
  <2>2. CASE ~TextMode
    <3>1. \A j \in 1 .. half : got[2 * j - 1].part = "header" /\ got[2 * j].part = "body"
      BY <1>4, <2>2 DEF HeaderPart
    <3> QED
      BY <1>2, <2>2, <3>1
  <2> QED
    BY <2>1, <2>2
<1>6. Complete(got) = Max(whole)
  BY DEF Complete, half
<1> HIDE DEF whole
<1>7. count \in 0 .. half /\ (TextMode \/ count = half)
  BY <1>2
<1> HIDE DEF count
<1>8. Max(0 .. count) = count
  <2>1. count \in 0 .. count /\ \A k \in 0 .. count : count >= k
    BY <1>2, <1>7
  <2>2. \A k \in 0 .. count : (\A l \in 0 .. count : k >= l) => k = count
    BY <1>2, <1>7
  <2> QED
    BY <2>1, <2>2 DEF Max
<1>9. Complete(got) = count
  BY <1>5, <1>6, <1>8
<1>10. [j \in 1 .. count |-> got[2 * j].message] = SubSeq(msgs, 1, count)
  <2> DEFINE taken == SubSeq(msgs, 1, count)
  <2>1. /\ taken \in Seq(ServerMessages) /\ Len(taken) = count
        /\ \A j \in 1 .. count : taken[j] = msgs[j]
    BY <1>1, <1>3, <1>7, CutInTwo
  <2> HIDE DEF taken
  <2>2. taken = [j \in 1 .. count |-> taken[j]]
    BY <2>1
  <2>3. taken = [j \in 1 .. count |-> got[2 * j].message]
    BY <1>3, <1>4, <1>7, <2>1, <2>2
  <2> QED
    BY <2>3 DEF taken
<1> QED
  BY <1>1, <1>2, <1>3, <1>7, <1>9, <1>10

\* The oldest requests got their replies; the others still wait for theirs.
LEMMA AnsweredLess ==
  ASSUME NEW list \in Seq(OpenRequests), NEW answers \in Seq(ServerMessages),
         Answered(list, answers), NEW met \in 0 .. Len(answers)
  PROVE  /\ SubSeq(list, met + 1, Len(list)) \in Seq(OpenRequests)
         /\ Answered(SubSeq(list, met + 1, Len(list)), SubSeq(answers, met + 1, Len(answers)))
<1> DEFINE left == SubSeq(list, met + 1, Len(list))
           later == SubSeq(answers, met + 1, Len(answers))
<1>1. /\ Len(list) \in Nat /\ Len(answers) \in Nat /\ Len(answers) <= Len(list)
      /\ met \in 0 .. Len(list)
  BY DEF Answered
<1>2. /\ left \in Seq(OpenRequests) /\ Len(left) = Len(list) - met
      /\ \A i \in 1 .. Len(list) - met : left[i] = list[met + i]
  BY <1>1, CutInTwo
<1>3. /\ Len(later) = Len(answers) - met
      /\ \A i \in 1 .. Len(answers) - met : later[i] = answers[met + i]
  BY CutInTwo
<1> HIDE DEF left, later
<1>4. ASSUME NEW k \in 1 .. Len(later)
      PROVE  Meets(left[k], later[k].result)
  <2>1. k \in 1 .. Len(list) - met /\ met + k \in 1 .. Len(answers) /\ k \in 1 .. Len(answers) - met
    BY <1>1, <1>3
  <2> QED
    BY <1>2, <1>3, <2>1 DEF Answered
<1>5. Len(later) <= Len(left)
  BY <1>1, <1>2, <1>3
<1> QED
  BY <1>2, <1>4, <1>5 DEF Answered, left, later

LEMMA AwaitsFewer ==
  ASSUME NEW list \in Seq(OpenRequests), NEW n \in Nat, NEW askings \in Seq(Entries),
         Awaits(list, n, askings), NEW met \in 0 .. n
  PROVE  Awaits(SubSeq(list, met + 1, Len(list)), n - met, askings)
<1> DEFINE left == SubSeq(list, met + 1, Len(list))
<1>1. Len(list) \in Nat /\ Len(askings) \in Nat /\ Len(list) = n + Len(askings)
  BY DEF Awaits
<1>2. met \in 0 .. Len(list)
  BY <1>1
<1>3. /\ Len(left) = Len(list) - met
      /\ \A i \in 1 .. Len(list) - met : left[i] = list[met + i]
  BY <1>2, CutInTwo
<1> HIDE DEF left
<1>4. ASSUME NEW j \in 1 .. Len(askings)
      PROVE  Waits(left[(n - met) + j], askings[j])
  <2>1. (n - met) + j \in 1 .. Len(list) - met /\ met + ((n - met) + j) = n + j
    BY <1>1
  <2> QED
    BY <1>3, <2>1 DEF Awaits
<1> QED
  BY <1>1, <1>3, <1>4 DEF Awaits, left

\* The window reads a part of what is in the pipe and handles what is whole.
LEMMA ReadsKeep ==
  ASSUME StudioInv, StdoutReady
  PROVE  StudioInv'
<1>1. PICK log, msgs, verdicts : Underway(log, msgs, verdicts)
  BY DEF StudioInv
<1>2. PICK n \in 1 .. Len(toClient) :
        LET got      == buffer \o SubSeq(toClient, 1, n)
            count    == Complete(got)
            messages == [j \in 1 .. count |-> got[2 * j].message]
            replies  == Only(messages, {m \in Range(messages) : m.type = "response"})
            met      == Len(replies)
        IN /\ toClient' = SubSeq(toClient, n + 1, Len(toClient))
           /\ buffer' = Leftover(got, count)
           /\ view' = FoldLeft(Shown, view, messages)
           /\ asked' = SubSeq(asked, met + 1, Len(asked))
           /\ replied' = IF met = 0 \/ met > Len(asked) THEN replied
                         ELSE [request |-> asked[met], result |-> replies[met].result]
           /\ UNCHANGED <<vars, client, typed, toServer, requestId, edits, asks>>
  BY DEF StdoutReady
<1> DEFINE all == buffer \o toClient
           got == buffer \o SubSeq(toClient, 1, n)
           c == Complete(got)
           messages == [j \in 1 .. c |-> got[2 * j].message]
           replies == Only(messages, {m \in Range(messages) : m.type = "response"})
           met == Len(replies)
           answers == Only(msgs, Responses)
<1>3. /\ toClient' = SubSeq(toClient, n + 1, Len(toClient))
      /\ buffer' = SubSeq(got, 2 * c + 1, Len(got))
      /\ view' = FoldLeft(Shown, view, messages)
      /\ asked' = SubSeq(asked, met + 1, Len(asked))
      /\ replied' = IF met = 0 \/ met > Len(asked) THEN replied
                    ELSE [request |-> asked[met], result |-> replies[met].result]
      /\ UNCHANGED <<vars, client, typed, toServer, requestId, edits, asks>>
  BY <1>2 DEF Leftover
<1>4. /\ IInv /\ StudioTypes /\ RepliesMeetTheirRequests
      /\ buffer \in Seq(Pieces) /\ toClient \in Seq(Pieces) /\ asked \in Seq(OpenRequests)
      /\ view \in Views /\ toClient # <<>> /\ client = "connected"
  <2>1. toClient # <<>>
    BY n \in 1 .. Len(toClient)
  <2> QED
    BY <2>1 DEF StudioInv, StudioTypes
<1>5. IInv' /\ HeldNow' = HeldNow /\ running' = running /\ docs' = docs /\ shown' = shown
  BY <1>3, <1>4, ServerStands
<1>6. /\ msgs \in Seq(ServerMessages) /\ Frames(all, msgs)
      /\ Displays(verdicts, msgs, view.verdict, shown[Doc])
      /\ Answered(asked, answers)
      /\ running => Awaits(asked, Len(answers), Only(log, Askings))
      /\ Foresees(log, toServer, HeldNow)
      /\ running => After(log, HeldNow, Len(log)) = {Received(typed)}
  BY <1>1, <1>4 DEF Underway
<1>7. /\ all \in Seq(Pieces) /\ got \in Seq(Pieces) /\ Len(got) <= Len(all)
      /\ \A i \in 1 .. Len(got) : got[i] = all[i]
      /\ \A k \in 0 .. Len(got) :
           /\ SubSeq(got, k + 1, Len(got)) \in Seq(Pieces)
           /\ Len(SubSeq(got, k + 1, Len(got))) = Len(got) - k
           /\ SubSeq(got, k + 1, Len(got)) \o SubSeq(toClient, n + 1, Len(toClient))
                = SubSeq(all, k + 1, Len(all))
  <2>1. all \in Seq(Pieces)
    BY <1>4, ConcatProperties
  <2>2. ReadBehind(got, all, toClient, n, Pieces)
    BY <1>4, n \in 1 .. Len(toClient), ReadAndTaken, Zenon
  <2> HIDE DEF all, got
  <2> QED
    BY <2>1, <2>2, Zenon DEF ReadBehind
<1> HIDE DEF all, got
<1>8. /\ c \in 0 .. Len(msgs) /\ 2 * c <= Len(got) /\ (TextMode \/ Len(got) <= 2 * c + 1)
      /\ messages = SubSeq(msgs, 1, c)
  BY <1>6, <1>7, WholeFrames, Zenon
<1> HIDE DEF c
<1>9. Len(msgs) \in Nat /\ c \in Nat /\ 2 * c \in 0 .. Len(got) /\ Len(got) \in Nat
  BY <1>6, <1>7, <1>8
<1>10. PICK left : left = SubSeq(msgs, c + 1, Len(msgs))
  OBVIOUS
<1>11. /\ Frames((buffer \o toClient)', left) /\ left \in Seq(ServerMessages)
       /\ buffer' \in Seq(Pieces) /\ (TextMode \/ Len(buffer') <= 1)
       /\ toClient' \in Seq(Pieces)
  <2>1. /\ buffer' \in Seq(Pieces) /\ Len(buffer') = Len(got) - 2 * c
        /\ (buffer \o toClient)' = SubSeq(all, 2 * c + 1, Len(all))
    BY <1>3, <1>7, <1>9, Zenon
  <2>2. TextMode \/ Len(buffer') <= 1
    BY <1>8, <1>9, <2>1
  <2>3. Frames(SubSeq(all, 2 * c + 1, Len(all)), left) /\ left \in Seq(ServerMessages)
    BY <1>6, <1>7, <1>8, <1>10, PipeLess
  <2>4. toClient' \in Seq(Pieces)
    BY <1>3, <1>4, CutInTwo
  <2> QED
    BY <2>1, <2>2, <2>3, <2>4
<1>12. PICK later : Displays(later, left, verdicts[c], shown[Doc])
  BY <1>6, <1>7, <1>8, <1>10, PipeLess
<1>13. messages \in Seq(ServerMessages) /\ msgs = messages \o left
  <2>1. /\ SubSeq(msgs, 1, c) \in Seq(ServerMessages)
        /\ msgs = SubSeq(msgs, 1, c) \o SubSeq(msgs, c + 1, Len(msgs))
    BY <1>6, <1>8, CutInTwo, Zenon
  <2> HIDE DEF messages
  <2> QED
    BY <1>8, <1>10, <2>1
<1>14. view' \in Views /\ view'.verdict = verdicts[c]
  <2>1. PICK earlier : Displays(earlier, SubSeq(msgs, 1, c), view.verdict, verdicts[c])
    BY <1>6, <1>8, DisplaysFirst
  <2>2. Displays(earlier, messages, view.verdict, verdicts[c])
    BY <1>8, <2>1
  <2> HIDE DEF messages
  <2> QED
    BY <1>3, <1>4, <1>13, <2>2, ShownRuns
<1>15. replies = Only(messages, Responses)
  <2>1. ASSUME NEW i \in 1 .. Len(messages)
        PROVE  messages[i] \in {m \in Range(messages) : m.type = "response"}
                 <=> messages[i] \in Responses
    <3> HIDE DEF messages
    <3>1. messages[i] \in Range(messages) /\ messages[i] \in ServerMessages
      BY <1>13 DEF Range
    <3> QED
      BY <3>1 DEF Responses
  <2> HIDE DEF messages
  <2> QED
    BY <1>13, <2>1, OnlyAlike
<1> HIDE DEF messages, replies, answers
<1>16. /\ answers = replies \o Only(left, Responses)
       /\ replies \in Seq(ServerMessages) /\ Only(left, Responses) \in Seq(ServerMessages)
       /\ answers \in Seq(ServerMessages)
  <2>1. answers = Only(messages, Responses) \o Only(left, Responses)
    <3>1. Only(messages \o left, Responses) = Only(messages, Responses) \o Only(left, Responses)
      BY <1>11, <1>13, OnlyConcat
    <3> QED
      BY <1>13, <3>1, Zenon DEF answers
  <2>2. Only(messages, Responses) \in Seq(ServerMessages)
    BY <1>13, OnlyKeeps, Zenon
  <2>3. Only(left, Responses) \in Seq(ServerMessages)
    BY <1>11, OnlyKeeps, Zenon
  <2>4. answers \in Seq(ServerMessages)
    BY <1>6, OnlyKeeps, Zenon DEF answers
  <2> QED
    BY <1>15, <2>1, <2>2, <2>3, <2>4, Zenon
<1>17. /\ met \in 0 .. Len(answers) /\ Len(answers) \in Nat
       /\ \A i \in 1 .. met : answers[i] = replies[i]
       /\ SubSeq(answers, met + 1, Len(answers)) = Only(left, Responses)
       /\ Len(Only(left, Responses)) = Len(answers) - met
  <2>1. /\ met \in 0 .. Len(answers) /\ \A i \in 1 .. met : answers[i] = replies[i]
        /\ SubSeq(answers, met + 1, Len(answers)) = Only(left, Responses)
    BY <1>16, SecondPart, Zenon
  <2>2. Len(SubSeq(answers, met + 1, Len(answers))) = Len(answers) - met
    BY <1>16, <2>1, CutInTwo
  <2> QED
    BY <1>16, <2>1, <2>2
<1>18. asked' \in Seq(OpenRequests) /\ Answered(asked', Only(left, Responses))
  BY <1>3, <1>4, <1>6, <1>16, <1>17, AnsweredLess, Zenon
<1>19. running => Awaits(asked', Len(Only(left, Responses)), Only(log, Askings))
  <2>1. Only(log, Askings) \in Seq(Entries)
    BY <1>6, OnlyKeeps DEF Foresees
  <2> QED
    BY <1>3, <1>4, <1>6, <1>17, <2>1, AwaitsFewer
<1>20. RepliesMeetTheirRequests'
  <2>1. CASE met = 0 \/ met > Len(asked)
    <3>1. replied' = replied
      BY <1>3, <2>1
    <3> QED
      BY <1>4, <3>1 DEF RepliesMeetTheirRequests
  <2>2. CASE ~(met = 0 \/ met > Len(asked))
    <3>1. met \in 1 .. Len(answers) /\ met \in 1 .. met
      BY <1>17, <2>2
    <3>2. Meets(asked[met], replies[met].result)
      BY <1>6, <1>17, <3>1 DEF Answered
    <3>3. replied'.request = asked[met] /\ replied'.result = replies[met].result
      BY <1>3, <2>2
    <3> QED
      BY <3>2, <3>3 DEF RepliesMeetTheirRequests
  <2> QED
    BY <2>1, <2>2
<1>21. StudioTypes'
  BY <1>3, <1>4, <1>5, <1>11, <1>14, <1>18 DEF StudioTypes
<1>22. Underway(log, left, later)'
  <2>1. Foresees(log, toServer', HeldNow')
    BY <1>3, <1>5, <1>6, Zenon
  <2>2. running' => After(log, HeldNow', Len(log)) = {Received(typed')}
    BY <1>3, <1>5, <1>6, Zenon
  <2>3. Displays(later, left, view'.verdict, shown'[Doc])
    BY <1>5, <1>12, <1>14, Zenon
  <2>4. running' => Awaits(asked', Len(Only(left, Responses)), Only(log, Askings))
    BY <1>5, <1>19, Zenon
  <2> QED
    BY <1>11, <1>18, <2>1, <2>2, <2>3, <2>4, Zenon DEF Underway
<1> QED
  BY <1>5, <1>20, <1>21, <1>22, Zenon DEF StudioInv

LEMMA StudioNextInvariant == StudioInv /\ [StudioNext]_allVars => StudioInv'
<1> SUFFICES ASSUME StudioInv, [StudioNext]_allVars PROVE StudioInv'
  OBVIOUS
<1>1. CASE Start
  BY <1>1, StartKeeps
<1>2. CASE StartFails \/ Crash
  BY <1>2, LeavingKeeps
<1>3. CASE Edit \/ AcceptCompletion
  BY <1>3, EditKeeps
<1>4. CASE Ask
  BY <1>4, AskKeeps
<1>5. CASE ServerTurn
  BY <1>5, TurnKeeps
<1>6. CASE StdoutReady
  BY <1>6, ReadsKeep
<1>7. CASE UNCHANGED allVars
  <2>1. UNCHANGED vars /\ UNCHANGED studioVars
    BY <1>7 DEF allVars
  <2>2. /\ client' = client /\ typed' = typed /\ toServer' = toServer /\ toClient' = toClient
        /\ buffer' = buffer /\ view' = view /\ requestId' = requestId /\ asks' = asks
        /\ asked' = asked /\ replied' = replied
    BY <2>1 DEF studioVars
  <2>3. IInv' /\ HeldNow' = HeldNow /\ running' = running /\ docs' = docs /\ shown' = shown
    BY <2>1, ServerStands DEF StudioInv
  <2>4. PICK log, msgs, verdicts : Underway(log, msgs, verdicts)
    BY DEF StudioInv
  <2>5. StudioTypes'
    BY <2>2, <2>3 DEF StudioInv, StudioTypes
  <2>6. RepliesMeetTheirRequests'
    BY <2>2 DEF StudioInv, RepliesMeetTheirRequests
  <2>7. Underway(log, msgs, verdicts)'
    BY <2>2, <2>3, <2>4 DEF Underway
  <2> QED
    BY <2>3, <2>5, <2>6, <2>7, Zenon DEF StudioInv
<1> QED
  BY <1>1, <1>2, <1>3, <1>4, <1>5, <1>6, <1>7 DEF StudioNext

\* The invariant the three theorems below rest on: whatever the two processes
\* have in the pipes between them, what it foresees is what they do.
THEOREM StudioInvariant == StudioSpec => []StudioInv
<1>1. StudioInit => StudioInv
  BY StudioInitInvariant
<1> QED
  BY <1>1, StudioNextInvariant, PTL DEF StudioSpec

\* A reply goes with the oldest request without one, and answers that one.
THEOREM RepliesAlwaysMeet == StudioSpec => []RepliesMeetTheirRequests
<1>1. StudioInv => RepliesMeetTheirRequests
  BY DEF StudioInv
<1> QED
  BY <1>1, StudioInvariant, PTL

\* The requests in the pipe to the server are those of the log, the replies in
\* the pipe from it those of its messages.
LEMMA AskingsInPipe ==
  ASSUME NEW log, NEW first, toServer \in Seq(StudioMessages), Foresees(log, toServer, first)
  PROVE  Len(Only(toServer, {m \in Range(toServer) : Asking(m)})) = Len(Only(log, Askings))
<1> DEFINE S == {m \in Range(toServer) : Asking(m)}
<1>1. /\ log \in Seq(Entries) /\ Len(log) = Len(toServer)
      /\ \A i \in 1 .. Len(log) : log[i].msg = toServer[i]
  BY DEF Foresees
<1>2. ASSUME NEW i \in 1 .. Len(toServer)
      PROVE  toServer[i] \in S <=> log[i] \in Askings
  <2>1. toServer[i] \in Range(toServer) /\ log[i] \in Entries /\ log[i].msg = toServer[i]
    BY <1>1 DEF Range
  <2> QED
    BY <2>1 DEF Askings
<1> HIDE DEF S
<1>3. Len(Only(toServer, S)) = Len(Only(log, Askings))
  BY <1>1, <1>2, OnlyAlong
<1> QED
  BY <1>3 DEF S

LEMMA AnswersInPipe ==
  ASSUME NEW pieces \in Seq(Pieces), NEW msgs \in Seq(ServerMessages), Frames(pieces, msgs)
  PROVE  Len(Only(pieces, {p \in Range(pieces) : Answering(p)})) = Len(Only(msgs, Responses))
<1> DEFINE S == {p \in Range(pieces) : Answering(p)}
<1>1. Len(pieces) = 2 * Len(msgs) /\ Len(msgs) \in Nat
  BY DEF Frames
<1>2. ASSUME NEW i \in 1 .. Len(msgs)
      PROVE  /\ pieces[2 * i - 1] \notin S
             /\ pieces[2 * i] \in S <=> msgs[i] \in Responses
  <2>1. /\ pieces[2 * i - 1] = [part |-> HeaderPart, message |-> msgs[i]]
        /\ pieces[2 * i] = [part |-> "body", message |-> msgs[i]]
    BY DEF Frames
  <2>2. pieces[2 * i] \in Range(pieces) /\ msgs[i] \in ServerMessages
    <3>1. 2 * i \in 1 .. Len(pieces)
      BY <1>1
    <3> QED
      BY <3>1 DEF Range
  <2>3. ~Answering(pieces[2 * i - 1])
    BY <2>1 DEF Answering, HeaderPart
  <2>4. Answering(pieces[2 * i]) <=> msgs[i].type = "response"
    BY <2>1 DEF Answering
  <2> QED
    BY <2>2, <2>3, <2>4 DEF Responses
<1> HIDE DEF S
<1>3. Len(Only(pieces, S)) = Len(Only(msgs, Responses))
  <2>1. \A i \in 1 .. Len(msgs) : /\ pieces[2 * i - 1] \notin S
                                  /\ (pieces[2 * i] \in S <=> msgs[i] \in Responses)
    BY <1>2, Zenon
  <2>2. pieces \in Seq(Pieces) /\ msgs \in Seq(ServerMessages) /\ Len(pieces) = 2 * Len(msgs)
    BY <1>1
  <2> QED
    BY ONLY <2>1, <2>2, OnlyPaired, SMTT(30)
<1> QED
  BY <1>3 DEF S

\* A request without a reply is in the one pipe, or its reply in the other.
THEOREM RequestsAlwaysOnTheirWay == StudioSpec => []RequestsAreOnTheirWay
<1>1. StudioInv => RequestsAreOnTheirWay
  <2> SUFFICES ASSUME StudioInv, running
               PROVE  Len(asked) =
                        Len(Only(toServer, {m \in Range(toServer) : Asking(m)}))
                        + Len(Only(buffer \o toClient,
                                   {p \in Range(buffer \o toClient) : Answering(p)}))
    BY DEF RequestsAreOnTheirWay
  <2>1. PICK log, msgs, verdicts : Underway(log, msgs, verdicts)
    BY DEF StudioInv
  <2>2. /\ toServer \in Seq(StudioMessages) /\ buffer \in Seq(Pieces) /\ toClient \in Seq(Pieces)
    BY DEF StudioInv, StudioTypes
  <2>3. /\ Foresees(log, toServer, HeldNow) /\ log \in Seq(Entries)
        /\ msgs \in Seq(ServerMessages) /\ Frames(buffer \o toClient, msgs)
        /\ Len(asked) = Len(Only(msgs, Responses)) + Len(Only(log, Askings))
    BY <2>1 DEF Underway, Awaits, Foresees
  <2>4. Len(Only(toServer, {m \in Range(toServer) : Asking(m)})) = Len(Only(log, Askings))
    BY <2>2, <2>3, AskingsInPipe
  <2>5. buffer \o toClient \in Seq(Pieces)
    BY <2>2, ConcatProperties
  <2>6. Len(Only(buffer \o toClient, {p \in Range(buffer \o toClient) : Answering(p)}))
          = Len(Only(msgs, Responses))
    BY <2>3, <2>5, AnswersInPipe
  <2>7. Len(Only(msgs, Responses)) \in Nat /\ Len(Only(log, Askings)) \in Nat
    BY <2>3, OnlyKeeps
  <2> HIDE DEF Range
  <2> QED
    BY <2>3, <2>4, <2>6, <2>7
<1> QED
  BY <1>1, StudioInvariant, PTL

\* Once the pipes are empty the server holds what is in the editor and, where the
\* server's stdout leaves line ends alone, the window shows the verdict on it.
THEOREM DrainedAlwaysSynced == StudioSpec => []DrainedMeansSynced
<1>1. StudioInv => DrainedMeansSynced
  <2> SUFFICES ASSUME StudioInv, Drained
               PROVE  /\ Known(Doc) /\ Text(Doc) = Received(typed)
                      /\ ~TextMode => /\ asked = <<>> /\ buffer = <<>>
                                      /\ view.verdict = Verdict(Received(typed))
    BY DEF DrainedMeansSynced
  <2>1. PICK log, msgs, verdicts : Underway(log, msgs, verdicts)
    BY DEF StudioInv
  <2>2. /\ IInv /\ client = "connected" /\ running /\ toServer = <<>> /\ toClient = <<>>
        /\ buffer \in Seq(Pieces) /\ asked \in Seq(OpenRequests)
    BY DEF StudioInv, StudioTypes, Drained
  <2>3. log = <<>> /\ HeldNow = {Received(typed)}
    <3>1. log \in Seq(Entries) /\ Len(log) = 0
      BY <2>1, <2>2 DEF Underway, Foresees
    <3> QED
      BY <2>1, <2>2, <3>1 DEF Underway, After
  <2>4. Known(Doc) /\ Text(Doc) = Received(typed)
    BY <2>3 DEF HeldNow
  <2>5. ASSUME ~TextMode
        PROVE  /\ asked = <<>> /\ buffer = <<>>
               /\ view.verdict = Verdict(Received(typed))
    <3>1. buffer = <<>> /\ msgs = <<>>
      <4>1. buffer \o toClient = buffer /\ Len(buffer) <= 1
        BY <2>2, <2>5 DEF StudioInv, StudioTypes
      <4>2. msgs \in Seq(ServerMessages) /\ Len(buffer) = 2 * Len(msgs)
        BY <2>1, <4>1 DEF Underway, Frames
      <4>3. Len(msgs) = 0 /\ Len(buffer) = 0
        BY <2>2, <4>1, <4>2
      <4> QED
        BY <2>2, <4>2, <4>3
    <3>2. asked = <<>>
      <4>1. Only(<<>>, Responses) = <<>> /\ Only(<<>>, Askings) = <<>>
        <5>1. <<>> \in Seq(ServerMessages) /\ <<>> \in Seq(Entries) /\ Range(<<>>) = {}
          BY DEF Range
        <5> QED
          BY <5>1, OnlyAllOrNone
      <4>2. Len(asked) = Len(<<>>) + Len(<<>>)
        BY <2>1, <2>2, <2>3, <3>1, <4>1 DEF Underway, Awaits
      <4> QED
        BY <2>2, <4>2
    <3>3. view.verdict = shown[Doc]
      BY <2>1, <3>1 DEF Underway, Displays
    <3>4. shown[Doc] = Verdict(Text(Doc))
      <4>1. PICK i \in DOMAIN docs : docs[i].uri = Doc /\ docs[i].text = Text(Doc)
        BY <2>2, <2>4, KnownPlace
      <4> QED
        BY <2>2, <4>1 DEF IInv, DiagnosticsFollowText
    <3> QED
      BY <2>4, <3>1, <3>2, <3>3, <3>4
  <2> QED
    BY <2>4, <2>5
<1> QED
  BY <1>1, StudioInvariant, PTL
=============================================================================
