------------------------------ MODULE LspText ------------------------------
(***************************************************************************)
(* Source texts as nprt-lsp (src/src/lsp/nprt-lsp) sees them.              *)
(*                                                                         *)
(* A text is a sequence of lines; a line keeps what the server's scanners  *)
(* look at: how it starts (kind), the identifier declared there (name),    *)
(* the identifiers that follow `fn ' (fns) or `let ' (lets) anywhere on    *)
(* it, all the identifiers on it one after the other (words), whether it   *)
(* has runs of blanks (spaced) and whether a string literal opens on it    *)
(* (quoted).  The words of a quoted line stand before its quote; none is   *)
(* in the first column.                                                    *)
(***************************************************************************)
EXTENDS Integers, SequencesExt, FiniteSetsExt, Selection

CONSTANTS Names,   \* the identifiers that occur in the texts
          NoName   \* the name of a line that declares nothing

\* fn      a complete one-line function, `fn f() -> i32 { return g(); }'
\* open    the head of a function whose body follows, `fn f() -> i32 {'
\* body    an indented statement;     close   `}'
\* let     `let x = ...';             macro   `macro_rules! m { ... }'
\* comment `// ...';                  doc     `/// ...'
\* iffalse `#if false';               endif   `#endif'
Kinds == {"fn", "open", "body", "close", "let", "macro",
          "comment", "doc", "iffalse", "endif"}

Line == [kind : Kinds, name : Names \cup {NoName}, fns : SUBSET Names,
         lets : SUBSET Names, words : Seq(Names), spaced : BOOLEAN, quoted : BOOLEAN]

Declares(line)  == line.kind \in {"fn", "open", "let", "macro"}
IsComment(line) == line.kind \in {"comment", "doc"}

-----------------------------------------------------------------------------
(* The verdict of the bootstrap parser of src/src/seed/aegc0/parser.c.     *)

\* How many function bodies are open before line i.
Depth(text, i) ==
  Quantify(1 .. i - 1, LAMBDA j : text[j].kind = "open")
    - Quantify(1 .. i - 1, LAMBDA j : text[j].kind = "close")

\* parse_program accepts functions at top level, parse_block statements up
\* to the closing brace; anything else sets had_error.
Parses(text) ==
  /\ \A i \in DOMAIN text :
       \/ IsComment(text[i])
       \/ Depth(text, i) = 0 /\ text[i].kind \in {"fn", "open"}
       \/ Depth(text, i) = 1 /\ text[i].kind \in {"body", "let", "close"}
  /\ Depth(text, Len(text) + 1) = 0

-----------------------------------------------------------------------------
(* Decoding of the JSON string that carries a text.                        *)

\* json_find_string_value ends the value at the first quotation mark, even an
\* escaped one, and leaves escapes as they are: the line breaks of the text
\* are the two characters \n, so all the lines up to the first string literal
\* become one physical line that starts as the first one does.
Received(text) ==
  IF text = <<>> THEN <<>> ELSE
  LET quotes == {i \in DOMAIN text : text[i].quoted}
      last   == IF quotes = {} THEN Len(text) ELSE Min(quotes)
      first  == text[1]
      kept   == 1 .. last
  IN << [kind   |-> IF first.kind = "fn" /\ first.quoted THEN "open"
                                                         ELSE first.kind,
         name   |-> first.name,
         fns    |-> UNION {text[i].fns : i \in kept},
         lets   |-> UNION {text[i].lets : i \in kept},
         words  |-> FlattenSeq([i \in kept |-> text[i].words]),
         spaced |-> \E i \in kept : text[i].spaced,
         quoted |-> FALSE] >>

-----------------------------------------------------------------------------
(* What the index and the token handler extract from a text.               *)

\* A declaration under `#if false' with no `#endif' in between is excluded.
Excluded(text, i) ==
  \E j \in 1 .. i - 1 : /\ text[j].kind = "iffalse"
                        /\ \A k \in j .. i : text[k].kind # "endif"

\* A `///' line documents the next declaration.
Documented(text, i) ==
  \E j \in 1 .. i - 1 : /\ text[j].kind = "doc"
                        /\ \A k \in j .. i - 1 : ~Declares(text[k])

\* The places of a text.
Places(text) == [i \in DOMAIN text |-> i]

DeclLines(text) == Only(Places(text), {i \in DOMAIN text : Declares(text[i])})

\* index_doc_symbols: the declarations that start a line, in order.
SymbolsIn(uri, text) ==
  LET decls == DeclLines(text)
      Symbol(i) == [uri |-> uri, name |-> text[i].name, line |-> i,
                    type |-> IF text[i].kind = "open" THEN "fn" ELSE text[i].kind,
                    excluded |-> Excluded(text, i),
                    documented |-> Documented(text, i)]
  IN [k \in DOMAIN decls |-> Symbol(decls[k])]

\* handle_semantic_tokens_full: one token per fn or let declaration.
Tokens(text) ==
  LET decls == Only(DeclLines(text), {i \in DOMAIN text : text[i].kind # "macro"})
  IN [k \in DOMAIN decls |-> [line |-> decls[k], name |-> text[decls[k]].name]]

\* extract_symbol_at: the identifier under the cursor, if the line exists.
OccursAt(text, line, name) ==
  line \in DOMAIN text /\ name \in Range(text[line].words)

\* The word in a column of a line is the name.
Stands(text, line, column, name) ==
  /\ line \in DOMAIN text /\ column \in DOMAIN text[line].words
  /\ text[line].words[column] = name

\* The columns the name stands in, in order.
Columns(line, name) ==
  Only(Places(line.words), {c \in DOMAIN line.words : line.words[c] = name})

\* find_decl_offset: where `fn f' or `let f' first occurs; 0 if nowhere.
DeclLine(text, name) ==
  LET at == {i \in DOMAIN text : name \in text[i].fns \cup text[i].lets}
  IN IF at = {} THEN 0 ELSE Min(at)

\* handle_implementation: where `fn f' occurs.
FnLines(text, name) == {i \in DOMAIN text : name \in text[i].fns}

\* handle_folding_range: a function head and a later line that closes it.
Folds(text) ==
  {fold \in [head : DOMAIN text, end : DOMAIN text] :
     /\ fold.head < fold.end
     /\ text[fold.head].kind = "open" /\ text[fold.end].kind = "close"
     /\ \A k \in fold.head .. fold.end - 1 : text[k].kind # "close"}

\* normalize_spaces_copy: runs of blanks and tabs become one blank.
NormalizeSpaces(text) ==
  [i \in DOMAIN text |-> [text[i] EXCEPT !.spaced = FALSE]]

\* handle_range_formatting: the lines before the last one asked for; a first
\* line beyond the text stands for its start, a last one for its end.
InRange(text, first, last) ==
  LET end == Max({first, last})
  IN SubSeq(text, IF first <= Len(text) THEN first ELSE 1,
                  IF end <= Len(text) THEN end - 1 ELSE Len(text))

\* handle_inlay_hint: one hint per `let' that starts a line.
Hints(text) == {i \in DOMAIN text : text[i].kind = "let"}
=============================================================================
