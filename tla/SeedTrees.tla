------------------------------ MODULE SeedTrees ------------------------------
(***************************************************************************)
(* The trees of aegc0 (ast.h): expressions, statements, functions.         *)
(*                                                                         *)
(* Names, numbers and operators stand for themselves; positions and the    *)
(* value of a number are left out.                                         *)
(***************************************************************************)
EXTENDS Integers, SequencesExt

CONSTANTS Names,     \* identifiers that are no types
          Numbers,   \* integer literals
          Height     \* bound: how deep a tree is

Types  == {"i32", "u64"}
Idents == Names \cup Types

\* The operators of one operand; C has the last of them.
Signs == {"-", "!", "--"}

Comparing   == {"==", "!=", "<", "<=", ">", ">=", "&&", "||"}
Calculating == {"+", "-", "*", "/", "%"}
Operators   == Comparing \cup Calculating

\* bin_prec, and bin_op with it: each operator stands for itself.
Precedence(token) ==
  CASE token = "||"                       -> 1
    [] token = "&&"                       -> 2
    [] token \in {"==", "!="}             -> 3
    [] token \in {"<", "<=", ">", ">="}   -> 4
    [] token \in {"+", "-"}               -> 5
    [] token \in {"*", "/", "%"}          -> 6
    [] OTHER                              -> 0

\* What expressions are written with.
Tokens == Idents \cup Numbers \cup Signs \cup Operators \cup {"(", ")", ","}

ASSUME TreesAssumption ==
  /\ Height \in Nat
  /\ Idents \cap Numbers = {}
  /\ (Idents \cup Numbers) \cap (Signs \cup Operators \cup {"(", ")", ",", " "}) = {}

-----------------------------------------------------------------------------
(* Expressions.                                                            *)

Literal(number)      == [kind |-> "int", value |-> number]
Var(name)            == [kind |-> "var", name |-> name]
Call(name, args)     == [kind |-> "call", name |-> name, args |-> args]
Unary(op, rhs)       == [kind |-> "unary", op |-> op, rhs |-> rhs]
Binary(op, lhs, rhs) == [kind |-> "binary", op |-> op, lhs |-> lhs, rhs |-> rhs]

\* Those whose operands and arguments are n deep at most.
Exprs[n \in Nat] ==
  LET below == IF n = 0 THEN {} ELSE Exprs[n - 1]
  IN [kind : {"int"}, value : Numbers] \cup [kind : {"var"}, name : Idents]
       \cup [kind : {"call"}, name : Idents, args : Seq(below)]
       \cup [kind : {"unary"}, op : Signs, rhs : below]
       \cup [kind : {"binary"}, op : Operators, lhs : below, rhs : below]

Expr == Exprs[Height]

\* What an expression is made of.
Parts(e) ==
  CASE e.kind = "call"   -> Range(e.args)
    [] e.kind = "unary"  -> {e.rhs}
    [] e.kind = "binary" -> {e.lhs, e.rhs}
    [] OTHER             -> {}

\* An expression and all that is in it.
Subexpressions(e) ==
  LET In[x \in Expr] == {x} \cup UNION {In[y] : y \in Parts(x)}
  IN In[e]

-----------------------------------------------------------------------------
(* Statements.  Their expressions are trees, or, in the C that is emitted, *)
(* texts.                                                                  *)

Let(name, type, init) == [kind |-> "let", name |-> name, type |-> type, init |-> init]
Assign(name, value)   == [kind |-> "assign", name |-> name, value |-> value]
Return(value)         == [kind |-> "return", value |-> value]
CallStmt(call)        == [kind |-> "expr", value |-> call]
While(cond, body)     == [kind |-> "while", cond |-> cond, body |-> body]
If(cond, body, hasElse, else) ==
  [kind |-> "if", cond |-> cond, body |-> body, hasElse |-> hasElse, else |-> else]

\* Those whose blocks are n deep at most.
Stmts(E) ==
  LET S[n \in Nat] ==
        LET below == IF n = 0 THEN {} ELSE S[n - 1]
        IN [kind : {"let"}, name : Idents, type : Types, init : E]
             \cup [kind : {"assign"}, name : Idents, value : E]
             \cup [kind : {"return", "expr"}, value : E]
             \cup [kind : {"while"}, cond : E, body : Seq(below)]
             \cup [kind : {"if"}, cond : E, body : Seq(below), hasElse : {TRUE}, else : Seq(below)]
             \cup [kind : {"if"}, cond : E, body : Seq(below), hasElse : {FALSE}, else : {<<>>}]
  IN S[Height]

Block(E) == Seq(Stmts(E))

Expression(s) ==
  CASE s.kind = "let" -> s.init [] s.kind \in {"if", "while"} -> s.cond [] OTHER -> s.value

\* A list of statements with f of their expressions for the expressions.
EachBy(f, E, list) ==
  LET Each[block \in Block(E)] ==
        [i \in DOMAIN block |->
           LET s == block[i] IN
           IF s.kind = "while"   THEN [s EXCEPT !.cond = f[@], !.body = Each[@]]
           ELSE IF s.kind = "if" THEN [s EXCEPT !.cond = f[@], !.body = Each[@], !.else = Each[@]]
           ELSE IF s.kind = "let" THEN [s EXCEPT !.init = f[@]]
           ELSE [s EXCEPT !.value = f[@]]]
  IN Each[list]

-----------------------------------------------------------------------------
(* Functions.                                                              *)

Param(name, type) == [name |-> name, type |-> type]
Variable == [name : Idents, type : Types]

Function(E) == [name : Idents, params : Seq(Variable), ret : Types, extern : BOOLEAN,
                body : Block(E)]
=============================================================================
