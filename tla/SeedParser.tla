------------------------------ MODULE SeedParser ------------------------------
(***************************************************************************)
(* Lexer and parser of aegc0, the bootstrap compiler (lexer.c, parser.c):  *)
(* recursive descent over a stream of tokens, with precedence climbing for *)
(* expressions.  An error is noted and the parser goes on; what it notes   *)
(* is had_error, and what it asks of the arena.                            *)
(*                                                                         *)
(* A token stands for its own text.  Positions, messages and the value of  *)
(* a number are left out.                                                  *)
(***************************************************************************)
EXTENDS SeedTrees

\* A parser: the tokens, how many were taken, had_error, the allocations made.
Parser(tokens) == [tokens |-> tokens, taken |-> 0, error |-> FALSE, allocs |-> <<>>]

\* p->cur: a character the lexer does not know ("@") is the end of the file.
Cur(p) ==
  IF p.taken < Len(p.tokens) /\ p.tokens[p.taken + 1] # "@"
  THEN p.tokens[p.taken + 1] ELSE "EOF"

\* next, which steps over an unknown character like over any other.
Next(p) == IF p.taken < Len(p.tokens) THEN [p EXCEPT !.taken = @ + 1] ELSE p

\* perr
Error(p) == [p EXCEPT !.error = TRUE]

Expect(p, token) == IF Cur(p) = token THEN Next(p) ELSE Error(p)
ExpectIdent(p)   == IF Cur(p) \in Idents THEN Next(p) ELSE Error(p)

\* arena_alloc for n objects of one kind.
Alloc(p, kind, n) == [p EXCEPT !.allocs = Append(@, [kind |-> kind, n |-> n])]

\* What a function of the parser returns, and the parser it leaves.
Got(p, value) == [p |-> p, value |-> value]

ParseType(p) ==
  IF Cur(p) \in Types THEN Got(Next(p), Cur(p)) ELSE Got(Next(Error(p)), "void")

-----------------------------------------------------------------------------
(* Expressions.                                                            *)

RECURSIVE ParseUnary(_), ParseBinRhs(_, _), MoreArgs(_, _)

\* parse_expr
ParseExpr(p) == ParseBinRhs(ParseUnary(p), 1)

\* What was read, and the token that must come behind it.
Followed(got, token) == [got EXCEPT !.p = Expect(@, token)]

\* An argument joins the list, which is copied into a new one.
WithArg(arg, args) ==
  LET all  == Append(args, arg.value)
      then == Alloc(arg.p, "pointer", Len(all))
  IN IF Cur(then) = "," THEN MoreArgs(Next(then), all) ELSE Followed(Got(then, all), ")")

MoreArgs(p, args) == WithArg(ParseExpr(p), args)

\* The arguments behind an opening parenthesis.
ParseArgs(p) == IF Cur(p) = ")" THEN Got(Next(p), <<>>) ELSE MoreArgs(p, <<>>)

ParsePrimary(p) ==
  LET node   == Alloc(p, "Expr", 1)
      behind == Next(p)
  IN CASE Cur(p) \in Numbers -> Got(Next(node), Literal(Cur(p)))
       [] Cur(p) \in Idents /\ Cur(behind) = "(" ->
            [ParseArgs(Alloc(Next(behind), "Expr", 1)) EXCEPT !.value = Call(Cur(p), @)]
       [] Cur(p) \in Idents /\ Cur(behind) # "(" -> Got(Next(node), Var(Cur(p)))
       [] Cur(p) = "(" -> Followed(ParseExpr(behind), ")")
       [] OTHER -> Got(Next(Error(node)), Literal("0"))

ParseUnary(p) ==
  IF Cur(p) \in {"-", "!"}
  THEN [ParseUnary(Alloc(Next(p), "Expr", 1)) EXCEPT !.value = Unary(Cur(p), @)]
  ELSE ParsePrimary(p)

\* Mutant: an operator of the same precedence binds to the right.
OperandRight(op, first) ==
  IF Precedence(op) <= Precedence(Cur(first.p)) THEN ParseBinRhs(first, Precedence(op)) ELSE first

\* The right operand of op, which begins with first: what binds more strongly
\* than op belongs to it.
Operand(op, first) ==
  IF Precedence(op) < Precedence(Cur(first.p)) THEN ParseBinRhs(first, Precedence(op) + 1) ELSE first

BinaryOf(op, lhs, rhs) == Got(Alloc(rhs.p, "Expr", 1), Binary(op, lhs.value, rhs.value))

\* parse_bin_rhs: what follows the operand lhs, as long as its operators bind
\* at least as strongly as min.
ParseBinRhs(lhs, min) ==
  LET op == Cur(lhs.p) IN
  IF Precedence(op) < min THEN lhs
  ELSE ParseBinRhs(BinaryOf(op, lhs, Operand(op, ParseUnary(Next(lhs.p)))), min)

-----------------------------------------------------------------------------
(* Statements.                                                             *)

\* An expression in parentheses, of if and while.
ParseCond(p) == Followed(ParseExpr(Expect(p, "(")), ")")

\* let, behind the word.
ParseLet(p) ==
  LET name == Alloc(p, "Stmt", 1)
      type == ParseType(Expect(ExpectIdent(name), ":"))
  IN [Followed(ParseExpr(Expect(type.p, "=")), ";") EXCEPT !.value = Let(Cur(name), type.value, @)]

ParseReturn(p) ==
  [Followed(ParseExpr(Alloc(p, "Stmt", 1)), ";") EXCEPT !.value = Return(@)]

\* An identifier and what makes it a statement.
ParseAssign(p, name) ==
  [Followed(ParseExpr(Alloc(p, "Stmt", 1)), ";") EXCEPT !.value = Assign(name, @)]

ParseCallStmt(p, name) ==
  [ParseArgs(Alloc(p, "Expr", 1)) EXCEPT !.p = Expect(Alloc(@, "Stmt", 1), ";"),
                                         !.value = CallStmt(Call(name, @))]

\* Neither: what follows is skipped up to the next semicolon.
RECURSIVE SkipStatement(_)
SkipStatement(p) ==
  CASE Cur(p) \in {"}", "EOF"} -> p
    [] Cur(p) = ";"            -> Next(p)
    [] OTHER                   -> SkipStatement(Next(p))

RECURSIVE ParseBlock(_), MoreStatements(_, _)

\* What stands behind the body of an if, and behind the conditions.
AfterThen(cond, body) ==
  IF Cur(body.p) = "else"
  THEN [ParseBlock(Next(body.p)) EXCEPT !.value = If(cond, body.value, TRUE, @)]
  ELSE [body EXCEPT !.value = If(cond, @, FALSE, <<>>)]

AfterIf(cond)    == AfterThen(cond.value, ParseBlock(cond.p))
AfterWhile(cond) == [ParseBlock(cond.p) EXCEPT !.value = While(cond.value, @)]

ParseIf(p)    == AfterIf(ParseCond(Alloc(p, "Stmt", 1)))
ParseWhile(p) == AfterWhile(ParseCond(Alloc(p, "Stmt", 1)))

\* A statement joins the list, which is copied into a new one.
Joined(statement, list) ==
  LET all == Append(list, statement.value)
  IN MoreStatements(Alloc(statement.p, "pointer", Len(all)), all)

MoreStatements(p, list) ==
  LET behind == Next(p) IN
  CASE Cur(p) \in {"}", "EOF"} -> Got(Expect(p, "}"), list)
    [] Cur(p) = "let"    -> Joined(ParseLet(behind), list)
    [] Cur(p) = "return" -> Joined(ParseReturn(behind), list)
    [] Cur(p) = "if"     -> Joined(ParseIf(behind), list)
    [] Cur(p) = "while"  -> Joined(ParseWhile(behind), list)
    [] Cur(p) \in Idents /\ Cur(behind) = "=" -> Joined(ParseAssign(Next(behind), Cur(p)), list)
    [] Cur(p) \in Idents /\ Cur(behind) = "(" -> Joined(ParseCallStmt(Next(behind), Cur(p)), list)
    [] Cur(p) \in Idents /\ Cur(behind) \notin {"=", "("} ->
         MoreStatements(SkipStatement(Error(behind)), list)
    [] OTHER             -> MoreStatements(Next(Error(p)), list)

ParseBlock(p) == MoreStatements(Expect(p, "{"), <<>>)

-----------------------------------------------------------------------------
(* Functions.                                                              *)

RECURSIVE MoreParams(_, _)

\* A parameter joins the list, which is copied into a new one.
WithParam(name, type, params) ==
  LET all  == Append(params, Param(name, type.value))
      then == Alloc(type.p, "Param", Len(all))
  IN IF Cur(then) = "," THEN MoreParams(Next(then), all) ELSE Followed(Got(then, all), ")")

MoreParams(p, params) == WithParam(Cur(p), ParseType(Expect(ExpectIdent(p), ":")), params)

ParseParams(p) ==
  LET open == Expect(p, "(")
  IN IF Cur(open) = ")" THEN Got(Next(open), <<>>) ELSE MoreParams(open, <<>>)

\* A function of C ends with a semicolon and has no body.
Body(p, extern) == IF extern THEN Got(Expect(p, ";"), <<>>) ELSE ParseBlock(p)

AfterReturnType(name, params, ret, extern) ==
  [Body(ret.p, extern) EXCEPT
     !.value = [name |-> name, params |-> params, ret |-> ret.value, extern |-> extern, body |-> @]]

AfterParams(name, params, extern) ==
  AfterReturnType(name, params.value, ParseType(Expect(params.p, "->")), extern)

\* parse_fn
ParseFn(p, extern) == AfterParams(Cur(p), ParseParams(ExpectIdent(p)), extern)

RECURSIVE MoreFunctions(_, _)

\* extern, which wants a string behind it.
ParseExtern(p) ==
  ParseFn(Expect(IF Cur(p) = "'C'" THEN Next(p) ELSE Error(p), "fn"), TRUE)

Declared(fn, fns) ==
  LET all == Append(fns, fn.value)
  IN MoreFunctions(Alloc(fn.p, "FnDecl", Len(all)), all)

MoreFunctions(p, fns) ==
  CASE Cur(p) = "EOF"    -> Got(p, fns)
    [] Cur(p) = "extern" -> Declared(ParseExtern(Next(p)), fns)
    [] Cur(p) = "fn"     -> Declared(ParseFn(Next(p), FALSE), fns)
    [] OTHER             -> MoreFunctions(Next(Error(p)), fns)

\* parser_init and parse_program.
Parsed(tokens) == MoreFunctions(Alloc(Parser(tokens), "Program", 1), <<>>)

=============================================================================
