----------------------------- MODULE SeedMeaning -----------------------------
(***************************************************************************)
(* What the language of aegc0 and the language C say about the trees and   *)
(* texts of SeedTrees and SeedBackend, independently of how aegc0 goes     *)
(* about it: grammar, scopes, types, and what a C compiler takes.          *)
(***************************************************************************)
EXTENDS SeedBackend, FiniteSets

-----------------------------------------------------------------------------
(* The tree of an expression, by its grammar: an expression is split at    *)
(* its last operator outside of parentheses that binds least, and a list   *)
(* of arguments at its last comma.                                         *)

Opens(token) == CASE token = "(" -> 1 [] token = ")" -> -1 [] OTHER -> 0

\* How many parentheses are open behind the first i tokens.
Depth(tokens, i) ==
  LET open[n \in 0 .. Len(tokens)] ==
        IF n = 0 THEN 0
        ELSE open[n - 1] + Opens(tokens[n])
  IN open[i]

\* The operators outside of parentheses: a sign behind an operand is one.
OuterOperators(tokens) ==
  {i \in 2 .. Len(tokens) : /\ tokens[i] \in Operators
                            /\ tokens[i - 1] \in Idents \cup Numbers \cup {")"}
                            /\ Depth(tokens, i) = 0}

OuterCommas(tokens) == {i \in DOMAIN tokens : tokens[i] = "," /\ Depth(tokens, i) = 0}

Latest(places) == CHOOSE i \in places : \A j \in places : j <= i

SplitAt(tokens) ==
  LET outer == OuterOperators(tokens)
  IN Latest({i \in outer : \A j \in outer : Precedence(tokens[i]) <= Precedence(tokens[j])})

Upto(tokens, i)   == SubSeq(tokens, 1, i - 1)
Behind(tokens, i) == SubSeq(tokens, i + 1, Len(tokens))
Inside(tokens, i) == SubSeq(tokens, i + 1, Len(tokens) - 1)

\* Of one expression, or of a list of many.
Reading[tokens \in Seq(Tokens)] ==
  LET last  == Latest(OuterCommas(tokens))
      split == SplitAt(tokens)
      one   == IF tokens = <<>> THEN <<>>
               ELSE IF OuterOperators(tokens) # {} THEN
                 Binary(tokens[split], Reading[Upto(tokens, split)][FALSE],
                                       Reading[Behind(tokens, split)][FALSE])
               ELSE IF tokens[1] \in Signs   THEN Unary(tokens[1], Reading[Behind(tokens, 1)][FALSE])
               ELSE IF tokens[1] = "("       THEN Reading[Inside(tokens, 1)][FALSE]
               ELSE IF tokens[1] \in Numbers THEN Literal(tokens[1])
               ELSE IF Len(tokens) = 1       THEN Var(tokens[1])
               ELSE Call(tokens[1], Reading[Inside(tokens, 2)][TRUE])
  IN [many \in BOOLEAN |->
        IF ~many                          THEN one
        ELSE IF tokens = <<>>             THEN <<>>
        ELSE IF OuterCommas(tokens) = {}  THEN <<one>>
        ELSE Append(Reading[Upto(tokens, last)][TRUE], Reading[Behind(tokens, last)][FALSE])]

TreeOf(tokens) == Reading[tokens][FALSE]

-----------------------------------------------------------------------------
(* Scopes.  An environment tells of each name where it is declared and     *)
(* with what type; a declaration is seen in what follows it in its block.  *)

Nowhere == [at |-> <<>>, type |-> "none"]

Environment == [Idents -> [at : Seq(Nat), type : Types \cup {"none"}]]

\* Where a block is, and what is declared there.
Scope == [at : Seq(Nat), env : Environment]

\* The environment behind the first k statements of a block.
After(block, k, outer) ==
  [name \in Idents |->
     LET lets == {i \in 1 .. k : block[i].kind = "let" /\ block[i].name = name}
     IN IF lets = {} THEN outer.env[name]
        ELSE [at |-> Append(outer.at, Latest(lets)), type |-> block[Latest(lets)].type]]

\* The parameters of a function are around its body.
Entry(fn) ==
  [at  |-> <<>>,
   env |-> [name \in Idents |->
              LET given == {i \in DOMAIN fn.params : fn.params[i].name = name}
              IN IF given = {} THEN Nowhere
                 ELSE [at |-> <<0, Latest(given)>>, type |-> fn.params[Latest(given)].type]]]

\* The blocks in a statement.
Blocks(s) ==
  CASE s.kind = "while" -> <<s.body>> [] s.kind = "if" -> <<s.body, s.else>> [] OTHER -> <<>>

\* The statements of a block and of the blocks in it, each with its place and
\* the environment it is in.
Placed(list, outermost) ==
  LET P[block \in Block(Expr)] ==
        [outer \in Scope |->
           UNION {LET here == After(block, i - 1, outer)
                  IN {[at |-> Append(outer.at, i), s |-> block[i], env |-> here]}
                       \cup UNION {P[Blocks(block[i])[n]][[at |-> outer.at \o <<i, n>>, env |-> here]] :
                                     n \in DOMAIN Blocks(block[i])} : i \in DOMAIN block}]
  IN P[list][outermost]

Statements(fn) == Placed(fn.body, Entry(fn))

\* C sees a declaration in its own initializer, Nullprt does not.
Sees(x, inC) ==
  IF inC /\ x.s.kind = "let"
  THEN [x.env EXCEPT ![x.s.name] = [at |-> x.at, type |-> x.s.type]] ELSE x.env

\* The names a statement uses.
NamesIn(e) == {x.name : x \in {x \in Subexpressions(e) : x.kind = "var"}}

Uses(s) == NamesIn(Expression(s)) \cup (IF s.kind = "assign" THEN {s.name} ELSE {})

\* No name is used where it is not declared.
AllBound(fn, inC) ==
  \A x \in Statements(fn) : \A name \in Uses(x.s) : Sees(x, inC)[name] # Nowhere

\* No name is declared twice in a function.
DeclaresOnce(fn) ==
  /\ IsInjective([i \in DOMAIN fn.params |-> fn.params[i].name])
  /\ \A x, y \in Statements(fn) :
       x.s.kind = "let" /\ y.s.kind = "let" /\ x.s.name = y.s.name => x.at = y.at
  /\ \A x \in Statements(fn) : \A i \in DOMAIN fn.params :
       x.s.kind = "let" => x.s.name # fn.params[i].name

\* A statement without the blocks in it.
Own(s) ==
  CASE s.kind = "while" -> [s EXCEPT !.body = <<>>]
    [] s.kind = "if"    -> [s EXCEPT !.body = <<>>, !.else = <<>>]
    [] OTHER            -> s

\* What a function says: its statements, and what their names mean.
Says(fn, inC) ==
  {[at |-> x.at, s |-> Own(x.s), means |-> [name \in Uses(x.s) |-> Sees(x, inC)[name].at]] :
     x \in Statements(fn)}

-----------------------------------------------------------------------------
(* Types, as minimal-subset.md has them: both sides of an operation, of a  *)
(* declaration, of an assignment and of a return agree; a call has the     *)
(* type its function returns, and its arguments the types of the           *)
(* parameters.  Of literals the document says nothing: they are i32.       *)

IsFunction(name, fns) == \E fn \in fns : fn.name = name

Called(name, fns) == CHOOSE fn \in fns : fn.name = name

Returned(name, fns) == IF IsFunction(name, fns) THEN Called(name, fns).ret ELSE "none"

\* In a program of these functions.
TypeIn(env, fns, e) ==
  LET T[x \in Expr] ==
        IF x.kind = "var"        THEN env[x.name].type
        ELSE IF x.kind = "call"  THEN Returned(x.name, fns)
        ELSE IF x.kind = "unary" THEN T[x.rhs]
        ELSE IF x.kind = "binary" /\ x.op \in Calculating THEN T[x.lhs]
        ELSE "i32"
  IN T[e]

\* A call has the arguments its function has parameters for, in these types.
Suited(env, fns, call) ==
  /\ IsFunction(call.name, fns)
  /\ LET params == Called(call.name, fns).params IN
     /\ Len(call.args) = Len(params)
     /\ \A i \in DOMAIN params : TypeIn(env, fns, call.args[i]) = params[i].type

Agrees(env, fns, e) ==
  LET A[x \in Expr] ==
        /\ x.kind = "var"    => env[x.name].type # "none"
        /\ x.kind = "call"   => Suited(env, fns, x) /\ \A y \in Range(x.args) : A[y]
        /\ x.kind = "unary"  => A[x.rhs]
        /\ x.kind = "binary" =>
             /\ A[x.lhs] /\ A[x.rhs]
             /\ x.op \in Calculating => TypeIn(env, fns, x.lhs) = TypeIn(env, fns, x.rhs)
  IN A[e]

Wanted(x, ret) ==
  CASE x.s.kind = "let"    -> {x.s.type}
    [] x.s.kind = "assign" -> {x.env[x.s.name].type}
    [] x.s.kind = "return" -> {ret}
    [] OTHER               -> Types

WellTyped(fn, fns) ==
  \A x \in Statements(fn) : /\ Agrees(x.env, fns, Expression(x.s))
                            /\ TypeIn(x.env, fns, Expression(x.s)) \in Wanted(x, fn.ret)

\* The calls in a statement.
CallsIn(s) == {e \in Subexpressions(Expression(s)) : e.kind = "call"}

\* All that is called returns i32.
CallsI32(fn, fns) ==
  \A x \in Statements(fn) : \A call \in CallsIn(x.s) : Returned(call.name, fns) = "i32"

\* All calls have the right arguments.
CallsSuited(fn, fns) ==
  \A x \in Statements(fn) : \A call \in CallsIn(x.s) :
    /\ Suited(x.env, fns, call)
    /\ \A e \in Range(call.args) : Agrees(x.env, fns, e)

-----------------------------------------------------------------------------
(* C.                                                                      *)

\* The lexer of C takes two signs without a blank between them for one token.
CTokens[text \in Text] ==
  IF text = <<>>           THEN <<>>
  ELSE IF text[1] = " "    THEN CTokens[Tail(text)]
  ELSE IF IsPrefix(<<"-", "-">>, text) THEN <<"--">> \o CTokens[Tail(Tail(text))]
  ELSE <<text[1]>> \o CTokens[Tail(text)]

CTree == [text \in Text |-> TreeOf(CTokens[text])]

\* The program the C compiler reads.
CProgram(emitted) ==
  [i \in DOMAIN emitted |-> [emitted[i] EXCEPT !.body = EachBy(CTree, Text, @)]]

\* No two declarations of a name in one block; parameters count to the
\* outermost one.
OnceInBlock(fn) ==
  /\ IsInjective([i \in DOMAIN fn.params |-> fn.params[i].name])
  /\ \A x, y \in Statements(fn) :
       x.s.kind = "let" /\ y.s.kind = "let" /\ x.s.name = y.s.name /\ Front(x.at) = Front(y.at)
         => x.at = y.at
  /\ \A x \in Statements(fn) : \A i \in DOMAIN fn.params :
       x.s.kind = "let" /\ Len(x.at) = 1 => x.s.name # fn.params[i].name

\* What is called is a function declared before, with as many parameters, and
\* no variable; what is decremented is a variable.
CExpression(e, env, before) ==
  /\ e.kind = "call" => /\ env[e.name] = Nowhere
                        /\ \E fn \in before : fn.name = e.name /\ Len(fn.params) = Len(e.args)
  /\ e.kind = "unary" /\ e.op = "--" => e.rhs.kind = "var"

\* The compiler takes the program and the linker finds a main in it.
CCompiles(c) ==
  /\ \A i, j \in DOMAIN c : c[i].name = c[j].name => i = j
  /\ \A i \in DOMAIN c :
       /\ OnceInBlock(c[i]) /\ AllBound(c[i], TRUE)
       /\ \A x \in Statements(c[i]) : \A e \in Subexpressions(Expression(x.s)) :
            CExpression(e, Sees(x, TRUE), {c[k] : k \in 1 .. i})
  /\ \E i \in DOMAIN c : c[i].name = "main" /\ ~c[i].extern
=============================================================================
