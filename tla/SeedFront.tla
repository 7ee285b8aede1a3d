------------------------------ MODULE SeedFront ------------------------------
(***************************************************************************)
(* SeedCompiler with the parser of SeedParser, and what the parser must    *)
(* make of a text.  A text is the sequence of its tokens.                   *)
(***************************************************************************)
EXTENDS SeedCompiler, SeedParser

CONSTANT WellFormed   \* the texts that follow the grammar of minimal-subset.md

ParsedFns(text) == Parsed(text).value

\* What the driver is told by its parts.
AcceptedText(text) == ~Parsed(text).p.error
ParserRequests(text) == Parsed(text).p.allocs
CheckedText(text) == AcceptedText(text) /\ Checks(Fns(text))
CheckRequests(text) == IF AcceptedText(text) THEN CheckAllocs(Fns(text)) ELSE <<>>
CompiledText(text) == AcceptedText(text) /\ CCompiles(COf(text))

-----------------------------------------------------------------------------
(* The text a program is written as, for comparison with the text it was   *)
(* read from: all tokens but the parentheses around expressions.           *)

RECURSIVE ExprText(_), BlockText(_)

\* Texts with a comma between them.
Listed(texts) ==
  FlattenSeq([i \in DOMAIN texts |-> IF i = 1 THEN texts[i] ELSE <<",">> \o texts[i]])

ExprText(e) ==
  CASE e.kind = "int"    -> <<e.value>>
    [] e.kind = "var"    -> <<e.name>>
    [] e.kind = "call"   -> <<e.name>> \o Listed([i \in DOMAIN e.args |-> ExprText(e.args[i])])
    [] e.kind = "unary"  -> <<e.op>> \o ExprText(e.rhs)
    [] e.kind = "binary" -> ExprText(e.lhs) \o <<e.op>> \o ExprText(e.rhs)

StatementText(s) ==
  CASE s.kind = "let"    -> <<"let", s.name, ":", s.type, "=">> \o ExprText(s.init) \o <<";">>
    [] s.kind = "assign" -> <<s.name, "=">> \o ExprText(s.value) \o <<";">>
    [] s.kind = "return" -> <<"return">> \o ExprText(s.value) \o <<";">>
    [] s.kind = "expr"   -> ExprText(s.value) \o <<";">>
    [] s.kind = "while"  -> <<"while">> \o ExprText(s.cond) \o BlockText(s.body)
    [] s.kind = "if"     -> <<"if">> \o ExprText(s.cond) \o BlockText(s.body)
                              \o (IF s.hasElse THEN <<"else">> \o BlockText(s.else) ELSE <<>>)

BlockText(list) ==
  <<"{">> \o FlattenSeq([i \in DOMAIN list |-> StatementText(list[i])]) \o <<"}">>

FnText(fn) ==
  (IF fn.extern THEN <<"extern", "'C'">> ELSE <<>>) \o <<"fn", fn.name>>
    \o Listed([i \in DOMAIN fn.params |-> <<fn.params[i].name, ":", fn.params[i].type>>])
    \o <<"->", fn.ret>> \o (IF fn.extern THEN <<";">> ELSE BlockText(fn.body))

ProgramText(fns) == FlattenSeq([i \in DOMAIN fns |-> FnText(fns[i])])

\* The tokens up to the first character the lexer does not know.
UpToUnknown(tokens) ==
  IF Contains(tokens, "@") THEN SubSeq(tokens, 1, SelectInSeq(tokens, LAMBDA t : t = "@") - 1)
  ELSE tokens

WithoutParens(tokens) == SelectSeq(tokens, LAMBDA t : t \notin {"(", ")"})

-----------------------------------------------------------------------------
(* Properties.                                                             *)

\* The trees of what is returned, assigned and initialized with: by the
\* grammar of the text, and in the tree.
TreesInText(tokens) ==
  {LET end == CHOOSE j \in i .. Len(tokens) :
                tokens[j] = ";" /\ \A k \in i .. j - 1 : tokens[k] # ";"
   IN TreeOf(SubSeq(tokens, i + 1, end - 1)) : i \in {i \in DOMAIN tokens : tokens[i] \in {"return", "="}}}

TreesInProgram(fns) ==
  UNION {{Expression(x.s) : x \in {x \in Statements(fns[i]) :
                                     x.s.kind \in {"let", "assign", "return"}}} : i \in DOMAIN fns}

\* The functions say what the tokens say.
SaysAsWritten(fns, tokens) ==
  /\ WithoutParens(ProgramText(fns)) = WithoutParens(tokens)
  /\ TreesInProgram(fns) = TreesInText(tokens)

\* A text that follows the grammar is accepted; and what is accepted says what
\* the text said, operators bound as the grammar binds them, up to the first
\* character the lexer does not know: no token is lost or moved on the way.
ParseIsFaithful ==
  \A p \in Procs : stage[p] = "parse" /\ Calm =>
    IF AcceptedText(TextOf(p)) THEN SaysAsWritten(Fns(TextOf(p)), UpToUnknown(TextOf(p)))
    ELSE TextOf(p) \notin WellFormed
=============================================================================
