----------------------------- MODULE SeedBackend -----------------------------
(***************************************************************************)
(* The semantic check and the C emitter of aegc0 (sema.c, emit_c.c), over  *)
(* the trees of SeedTrees.                                                 *)
(***************************************************************************)
EXTENDS SeedTrees, Selection

-----------------------------------------------------------------------------
(* sema.c                                                                  *)

\* vget: the type of the first variable of that name in the table.
Vget(vars, name) ==
  LET found == {i \in DOMAIN vars : vars[i].name = name}
  IN IF found = {} THEN "none" ELSE vars[CHOOSE i \in found : \A j \in found : i <= j].type

\* The type type_of_expr gives an expression: a number, a call, a comparison
\* and an unknown name are i32.
TypeOf(vars, e) ==
  LET T[x \in Expr] ==
        IF x.kind = "var" /\ Vget(vars, x.name) # "none" THEN Vget(vars, x.name)
        ELSE IF x.kind = "unary"                         THEN T[x.rhs]
        ELSE IF x.kind = "binary" /\ x.op \in Calculating THEN T[x.lhs]
        ELSE "i32"
  IN T[e]

\* Whether it finds no fault with it.  The arguments of a call are not visited.
Faultless(vars, e) ==
  LET F[x \in Expr] ==
        /\ x.kind = "var"    => Vget(vars, x.name) # "none"
        /\ x.kind = "unary"  => F[x.rhs]
        /\ x.kind = "binary" =>
             /\ F[x.lhs] /\ F[x.rhs]
             /\ x.op \in Comparing \/ TypeOf(vars, x.lhs) = TypeOf(vars, x.rhs)
  IN F[e]

\* Mutant: the other branch of an if is not looked at.
ThenOnly(s) == s.body

\* The branches of an if are checked one behind the other, with one table.
Branches(s) == IF s.hasElse THEN s.body \o s.else ELSE s.body

\* The list of statements in a statement.
Within(s) == CASE s.kind = "while" -> s.body [] s.kind = "if" -> Branches(s) [] OTHER -> <<>>

\* What a list of statements adds to the table, in the order of vadd: what a
\* block declares stays in it.
Lets(list) ==
  LET L[block \in Block(Expr)] ==
        FlattenSeq([i \in DOMAIN block |->
          IF block[i].kind = "let" THEN <<Param(block[i].name, block[i].type)>>
          ELSE L[Within(block[i])]])
  IN L[list]

\* The table the i-th statement of a list is checked with.
TableAt(vars, list, i) == vars \o Lets(SubSeq(list, 1, i - 1))

\* What check_stmt asks of the expression of a statement.
Suits(vars, s, ret) ==
  LET type == TypeOf(vars, Expression(s)) IN
  /\ Faultless(vars, Expression(s))
  /\ s.kind = "let"    => type = s.type
  /\ s.kind = "assign" => Vget(vars, s.name) # "none" /\ type = Vget(vars, s.name)
  /\ s.kind = "return" => type = ret

\* check_stmt_list and check_stmt.
CheckList(vars, list, ret) ==
  LET C[block \in Block(Expr)] ==
        [table \in Seq(Variable) |->
           \A i \in DOMAIN block :
             /\ Suits(TableAt(table, block, i), block[i], ret)
             /\ C[Within(block[i])][TableAt(table, block, i)]]
  IN C[list][vars]

\* The functions sema_check_program looks at.
Bodies(fns) == Only(fns, {fn \in Range(fns) : ~fn.extern})

Checks(fns) ==
  \A i \in DOMAIN Bodies(fns) :
    LET fn == Bodies(fns)[i] IN CheckList(fn.params, fn.body, fn.ret)

\* What vadd asks of the arena: the table is copied for each variable.
CheckAllocs(fns) ==
  FlattenSeq([i \in DOMAIN Bodies(fns) |->
    LET fn == Bodies(fns)[i]
    IN [n \in DOMAIN (fn.params \o Lets(fn.body)) |-> [kind |-> "Var", n |-> n]]])

-----------------------------------------------------------------------------
(* emit_c.c: the C program, whose expressions are texts, and " " a blank.  *)

Text == Seq(Tokens \cup {" "})

\* Mutant: no parentheses.
EmitBare(e, lhs, rhs) == lhs \o <<" ", e.op, " ">> \o rhs

EmitBinary(e, lhs, rhs) == <<"(">> \o lhs \o <<" ", e.op, " ">> \o rhs \o <<")">>

EmitCall(e, args) ==
  <<e.name, "(">>
    \o FlattenSeq([i \in DOMAIN args |-> IF i = 1 THEN args[i] ELSE <<",", " ">> \o args[i]])
    \o <<")">>

\* emit_expr
EmitExpr[e \in Expr] ==
  IF e.kind = "binary"     THEN EmitBinary(e, EmitExpr[e.lhs], EmitExpr[e.rhs])
  ELSE IF e.kind = "unary" THEN <<e.op>> \o EmitExpr[e.rhs]
  ELSE IF e.kind = "call"  THEN EmitCall(e, [i \in DOMAIN e.args |-> EmitExpr[e.args[i]]])
  ELSE IF e.kind = "var"   THEN <<e.name>> ELSE <<e.value>>

\* emit_stmt and emit_stmt_list: the statements stay what they are; main loses
\* its parameters.
EmitFn(fn) ==
  [fn EXCEPT !.params = IF fn.name = "main" /\ ~fn.extern THEN <<>> ELSE @,
             !.body = EachBy(EmitExpr, Expr, @)]

\* emit_c_program: the functions of C first.
Emitted(fns) ==
  LET order == Only(fns, {fn \in Range(fns) : fn.extern}) \o Bodies(fns)
  IN [i \in DOMAIN order |-> EmitFn(order[i])]
=============================================================================
