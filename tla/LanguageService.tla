--------------------------- MODULE LanguageService ---------------------------
(***************************************************************************)
(* What nprt-lsp promises an editor, with no tables, caches or slots: the  *)
(* documents it serves, and an answer to every request that depends on     *)
(* nothing but their present texts.                                        *)
(***************************************************************************)
EXTENDS LspMessages

CONSTANTS Capacity,    \* how many documents are served for certain
          ListLimit,   \* how many references are listed for certain
          EditLimit    \* how many occurrences are renamed for certain

VARIABLES served,   \* served[uri]: the present text of a served document
          asked,    \* the message just handled
          answer    \* what was written for it

serviceVars == <<served, asked, answer>>

ServiceInit == served = <<>> /\ asked = NoMessage /\ answer = Silence

With(uri, text) ==
  [u \in DOMAIN served \cup {uri} |-> IF u = uri THEN text ELSE served[u]]

\* A source text is served and its verdict published.  A document that is
\* not yet served may be refused once Capacity documents are.
Update(req) ==
  /\ req \in DocumentUpdates
  /\ LET text == Received(req.text) IN
     \/ /\ req.uri \in Others
        /\ served' = served
        /\ answer' = Publish(req.uri, FALSE)
     \/ /\ req.uri \in Sources
        /\ served' = With(req.uri, text)
        /\ answer' = Publish(req.uri, ~Parses(text))
     \/ /\ req.uri \in Sources \ DOMAIN served
        /\ Cardinality(DOMAIN served) >= Capacity
        /\ served' = served
        /\ answer' = Silence

-----------------------------------------------------------------------------
\* The identifier the request names is where the request says.
Pointed(req) ==
  req.uri \in DOMAIN served /\ OccursAt(served[req.uri], req.line, req.name)

\* Every place a name is declared in, and every place it occurs in.
Declarations(name) ==
  {p \in [uri : DOMAIN served, line : Lines] :
     /\ p.line \in DOMAIN served[p.uri]
     /\ Declares(served[p.uri][p.line])
     /\ served[p.uri][p.line].name = name}

Occurrences(name, comments) ==
  {p \in [uri : DOMAIN served, line : Lines, column : WordColumns] :
     /\ Stands(served[p.uri], p.line, p.column, name)
     /\ comments \/ ~IsComment(served[p.uri][p.line])}

\* A declaration, in the asking document if it has one; nothing only if there
\* is none.
GoodDefinition(req, result) ==
  LET all == IF Pointed(req) THEN Declarations(req.name) ELSE {}
      own == {p \in all : p.uri = req.uri}
  IN IF all = {} THEN result = Null
     ELSE \E p \in (IF own # {} THEN own ELSE all) :
            result = Location(p.uri, p.line)

\* References and edits are occurrences in the served texts, none listed twice,
\* and all of them unless they are more than the reply has room for; a rename
\* of more may also fail.
GoodPlaces(req, result) ==
  LET all   == IF Pointed(req) THEN Occurrences(req.name, req.comments) ELSE {}
      limit == IF req.method = "rename" THEN EditLimit ELSE ListLimit
  IN \/ req.method = "rename" /\ ~Pointed(req) /\ result = Null
     \/ req.method = "rename" /\ Cardinality(all) > limit /\ result = Overrun
     \/ /\ result = (IF req.method = "rename" THEN Edits(result.places)
                                              ELSE Locations(result.places))
        /\ req.method = "rename" => Pointed(req)
        /\ IsInjective(result.places)
        /\ ToSet(result.places) \subseteq all
        /\ Cardinality(all) <= limit => ToSet(result.places) = all

GoodTokens(req, result) ==
  result = TokenData(IF req.uri \in DOMAIN served THEN Tokens(served[req.uri])
                                                  ELSE <<>>)

\* A pulled diagnostic is never wrong, though it may be missing.
GoodItems(req, result) ==
  result.error => req.uri \in DOMAIN served /\ ~Parses(served[req.uri])

GoodSymbols(req, result) ==
  result = Symbols(IF req.uri \in DOMAIN served
                   THEN SymbolsIn(req.uri, served[req.uri]) ELSE <<>>)

Good(req, result) ==
  /\ req.method = "definition"            => GoodDefinition(req, result)
  /\ req.method \in WorkspaceEditMethods  => GoodPlaces(req, result)
  /\ req.method = "semanticTokens"        => GoodTokens(req, result)
  /\ req.method = "diagnostic"            => GoodItems(req, result)
  /\ req.method = "documentSymbol"        => GoodSymbols(req, result)

\* A request changes no document and is answered once, under its own id.
Ask(req) ==
  /\ req \in Requests
  /\ req.method # "unknown"
  /\ served' = served
  /\ answer'.type = "response"
  /\ answer'.id = req.id
  /\ Good(req, answer'.result)

\* Closings, ends and requests outside the protocol get no answer.
Pass(req) ==
  /\ req.method \in {"didClose", "exit", "unknown"}
  /\ served' = served
  /\ answer' = Silence

ServiceNext ==
  \E req \in Messages : /\ asked' = req
                        /\ Update(req) \/ Ask(req) \/ Pass(req)

ServiceSpec == ServiceInit /\ [][ServiceNext]_serviceVars
=============================================================================
