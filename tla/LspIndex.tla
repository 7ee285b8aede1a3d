------------------------------ MODULE LspIndex ------------------------------
(***************************************************************************)
(* The workspace index of nprt-lsp (src/src/lsp/nprt-lsp/index.c): its own *)
(* copy of every document and the symbols extracted from the copies, with  *)
(* the queries the request handlers ask.                                   *)
(***************************************************************************)
EXTENDS LspMessages

CONSTANTS IndexDocCap,   \* slots of the index's document table (128)
          SymbolCap,     \* slots of the symbol table (4096)
          LocationCap,   \* locations one references reply can hold (64)
          RenameCap      \* references to all documents one rename looks at (512)

ASSUME IndexCapsAssumption ==
  /\ IndexDocCap \in Nat \ {0} /\ SymbolCap \in Nat \ {0}
  /\ LocationCap \in Nat \ {0} /\ RenameCap \in Nat \ {0}

VARIABLES indexDocs,   \* g_docs of index.c
          symbols      \* g_symbols

indexVars == <<indexDocs, symbols>>

-----------------------------------------------------------------------------
(* A document table, as index.c and main.c each keep one: entries stay     *)
(* where they were first added.                                            *)

Entry == [uri : Sources, text : ServerTexts]

Holds(table, uri) == \E i \in DOMAIN table : table[i].uri = uri

TextOf(table, uri) == table[CHOOSE i \in DOMAIN table : table[i].uri = uri].text

\* Mutants: one slot too few; a full table no longer finds its documents.
HasRoomForOneLess(table, cap, uri) == Holds(table, uri) \/ Len(table) + 1 < cap
HasRoomOnlyIfFree(table, cap, uri) == Len(table) < cap

\* get_or_add_doc finds the entry or takes a free slot.
HasRoom(table, cap, uri) == Holds(table, uri) \/ Len(table) < cap

Stored(table, uri, text) ==
  IF Holds(table, uri)
  THEN [i \in DOMAIN table |-> IF table[i].uri = uri
                               THEN [uri |-> uri, text |-> text] ELSE table[i]]
  ELSE Append(table, [uri |-> uri, text |-> text])

-----------------------------------------------------------------------------
IndexInit == indexDocs = <<>> /\ symbols = <<>>

\* The symbols of all documents in table order, cut at the table's capacity.
SymbolsOf(table) ==
  LET all == FlattenSeq([i \in DOMAIN table |->
                           SymbolsIn(table[i].uri, table[i].text)])
  IN SubSeq(all, 1, Min({Len(all), SymbolCap}))

\* Mutant: the symbol table is not reset before the documents are indexed.
UpsertWithoutReset(uri, text) ==
  /\ HasRoom(indexDocs, IndexDocCap, uri)
  /\ indexDocs' = Stored(indexDocs, uri, text)
  /\ symbols' = symbols \o SymbolsIn(uri, text)

\* Mutant: a document the index knows is not stored again.
UpsertKeepingText(uri, text) ==
  IF Holds(indexDocs, uri) THEN UNCHANGED indexVars
  ELSE /\ indexDocs' = Stored(indexDocs, uri, text)
       /\ symbols' = SymbolsOf(indexDocs')

\* nls_index_upsert_doc
UpsertDoc(uri, text) ==
  \/ /\ HasRoom(indexDocs, IndexDocCap, uri)
     /\ indexDocs' = Stored(indexDocs, uri, text)
     /\ symbols' = SymbolsOf(indexDocs')
  \/ /\ ~HasRoom(indexDocs, IndexDocCap, uri)
     /\ UNCHANGED indexVars

-----------------------------------------------------------------------------
(* Queries.                                                                *)

Named(name) == {i \in DOMAIN symbols : symbols[i].name = name}

\* Mutant: the asking document's own declaration is not preferred.
FindFirstDefinition(name, prefer) ==
  IF Named(name) = {} THEN Null
  ELSE LET first == symbols[Min(Named(name))] IN Location(first.uri, first.line)

\* nls_find_definition: the asking document's own first, then table order.
\* The macro lookup that follows in handle_definition searches the same table.
FindDefinition(name, prefer) ==
  LET own == {i \in Named(name) : symbols[i].uri = prefer}
      best == symbols[Min(IF own # {} THEN own ELSE Named(name))]
  IN IF Named(name) = {} THEN Null ELSE Location(best.uri, best.line)

\* nls_find_references: every occurrence of the name in every document, one
\* after the other; those on a line that starts as a comment count only when
\* comments are asked for.
FindReferences(name, comments) ==
  LET text(i) == indexDocs[i].text
      on(i, k) == [c \in DOMAIN Columns(text(i)[k], name) |->
                     [uri |-> indexDocs[i].uri, line |-> k,
                      column |-> Columns(text(i)[k], name)[c]]]
      within(i) ==
        FlattenSeq([k \in DOMAIN text(i) |->
                      IF comments \/ ~IsComment(text(i)[k]) THEN on(i, k) ELSE <<>>])
  IN FlattenSeq([i \in DOMAIN indexDocs |-> within(i)])

Prefix(seq, n) == SubSeq(seq, 1, Min({Len(seq), n}))

\* nls_collect_document_symbols, with the defaults of handle_document_symbol.
DocumentSymbols(uri) == Only(symbols, {s \in Range(symbols) : s.uri = uri})

\* nls_collect_completions: the identifier typed so far filters, if there is one.
Completions(prefix) ==
  {symbols[i].name : i \in {j \in DOMAIN symbols :
                              prefix = NoName \/ symbols[j].name = prefix}}

\* nls_symbol_type_expr and nls_symbol_doc: the first symbol, and whether any
\* symbol of that name carries a documentation line.
TypeExpr(name) ==
  IF Named(name) = {} THEN "unknown"
  ELSE IF symbols[Min(Named(name))].type = "let" THEN "inferred" ELSE "function"
SymbolDoc(name) == \E i \in Named(name) : symbols[i].documented
=============================================================================
