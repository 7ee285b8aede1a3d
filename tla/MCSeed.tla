-------------------------------- MODULE MCSeed --------------------------------
(***************************************************************************)
(* A small instance of SeedFront: one process compiles each of the      *)
(* texts, and two processes compile some of them at a time.                *)
(***************************************************************************)
EXTENDS SeedFront

CONSTANTS p1, p2

-----------------------------------------------------------------------------
(* Texts with one expression each.                                         *)

F(params, ret) == <<"extern", "'C'", "fn", "f", "(">> \o params \o <<")", "->", ret, ";">>

Main(list) == <<"fn", "main", "(", ")", "->", "i32", "{">> \o list \o <<"}">>

ReturnOf(e) ==
  F(<<"x", ":", "i32", ",", "y", ":", "i32">>, "i32")
    \o Main(<<"let", "x", ":", "i32", "=", "1", ";", "return">> \o e \o <<";">>)

Between   == {"||", "&&", "==", "<", "+", "-", "*"}
Some      == {"||", "<", "-", "*"}

\* Four operands; two with an expression in parentheses; signs; calls.
Operands4 == {<<"1", a, "x", b, "1", c, "x">> : a \in Between, b \in Between, c \in Between}
Paired    == {<<"(", "1", a, "x", ")", b, "1">> : a \in Some, b \in Some}
               \cup {<<"1", a, "(", "x", b, "1", ")">> : a \in Some, b \in Some}
Signed    == {<<s>> \o e : s \in {"-", "!"},
                e \in {<<"x">>, <<"-", "x">>, <<"-", "1">>, <<"!", "x">>, <<"(", "x", "-", "1", ")">>,
                       <<"(", "-", "x", ")">>, <<"x", "*", "-", "1">>, <<"x", "-", "-", "x">>,
                       <<"f", "(", "x", ",", "-", "x", ")">>}}
Calls     == {<<"f", "(">> \o args \o <<")", "+", "x">> :
                args \in {<<>>, <<"x">>, <<"x", ",", "1">>, <<"x", "-", "1", ",", "f", "(", "1", ",", "x", ")">>,
                          <<"(", "x", ")", ",", "y">>}}

Expressions == Operands4 \cup Paired \cup Signed \cup Calls

-----------------------------------------------------------------------------
(* Texts with some statements each.                                        *)

LetX  == <<"let", "x", ":", "i32", "=", "1", ";">>
LetXY == <<"let", "x", ":", "i32", "=", "y", ";">>
LetYX == <<"let", "y", ":", "u64", "=", "x", ";">>
LetZ  == <<"let", "x", ":", "u64", "=", "y", ";">>
LetXX == <<"let", "x", ":", "i32", "=", "x", "+", "1", ";">>
Set   == <<"x", "=", "x", "*", "2", ";">>
SetY  == <<"x", "=", "y", ";">>
Ret   == <<"return", "x", ";">>
Use   == <<"f", "(", "x", ",", "y", ")", ";">>

Small == {<<>>, LetX, LetXY, LetZ, LetXX, Set, Ret}

FunctionOf(list) ==
  F(<<"x", ":", "i32", ",", "y", ":", "u64">>, "i32")
    \o <<"fn", "g", "(", "y", ":", "u64", ")", "->", "i32", "{">> \o list \o <<"}">>
    \o Main(<<"return", "1", ";">>)

IfText(cond, body) == <<"if", "(">> \o cond \o <<")", "{">> \o body \o <<"}">>

Lists ==
  {a \o IfText(<<"y", "<", "y">>, b) \o <<"else", "{">> \o c \o <<"}">> \o d :
     a \in {<<>>, LetX, LetZ}, b \in Small, c \in Small \cup {SetY}, d \in {Use, Ret, LetYX \o Ret}}
  \cup {a \o <<"while", "(", "x", ")", "{">> \o b \o IfText(<<"x">>, c) \o <<"}">> \o Ret :
          a \in {LetX, LetZ}, b \in Small, c \in Small}

-----------------------------------------------------------------------------
(* Texts that are none: a token left out, a character nobody knows.        *)

Whole == FunctionOf(LetX \o IfText(<<"x">>, Set) \o Use \o Ret)

Broken == {RemoveAt(Whole, i) : i \in DOMAIN Whole}
            \cup {ReplaceAt(Whole, i, "@") : i \in DOMAIN Whole}
            \cup {InsertAt(Whole, i, "@") : i \in DOMAIN Whole}
            \cup {Whole \o <<"@", "struct", "x", "{", "}">>}

\* Statements whose nodes fill more than the first block of the arena.
Long == FunctionOf(LetX \o FlattenSeq([i \in 1 .. 16 |-> Set]) \o Ret)

\* A call of type u64, an argument that does not fit, a name used behind its
\* block, a declaration that hides what it is initialized with.
Disputed ==
  {F(<<>>, "u64") \o Main(<<"let", "y", ":", "u64", "=", "f", "(", ")", ";", "return", "1", ";">>),
   FunctionOf(LetZ \o Use \o <<"return", "1", ";">>),
   FunctionOf(IfText(<<"y">>, LetX) \o Ret),
   FunctionOf(LetX \o IfText(<<"x">>, LetXX) \o Ret)}

Right == {ReturnOf(e) : e \in Expressions} \cup {FunctionOf(list) : list \in Lists}
           \cup Disputed \cup {Long, Whole}

-----------------------------------------------------------------------------

MCTexts == Right \cup Broken

Kind == {"Expr", "Stmt", "pointer", "Param", "FnDecl", "Program", "Var"}
MCSize == [k \in Kind |-> CASE k = "Expr" -> 56 [] k = "Stmt" -> 72 [] k = "pointer" -> 8
                            [] k = "Param" -> 24 [] k = "FnDecl" -> 72 [] k = "Program" -> 16
                            [] k = "Var" -> 24]

\* One process with each of the texts; two with two that compile, one that
\* the check refuses and one that the compiler refuses, on the same or on
\* different paths.
Command(text, out, cpath) == [usage |-> FALSE, text |-> text, out |-> out, cpath |-> cpath]
NoCommand == [usage |-> TRUE, text |-> Whole, out |-> "a", cpath |-> "aegc0_out.c"]

Short == {ReturnOf(<<"-", "x">>), ReturnOf(<<"!", "x">>),
          ReturnOf(<<"f", "(", ")", "+", "x">>),
          FunctionOf(IfText(<<"y", "<", "y">>, <<>>) \o <<"else", "{", "}">> \o Use)}

Alone(texts) ==
  {[p \in {p1, p2} |-> IF p = p1 THEN Command(t, "a", "aegc0_out.c") ELSE NoCommand] : t \in texts}

MCJobs ==
  Alone(MCTexts) \cup
  {[p \in {p1, p2} |-> IF p = p1 THEN Command(t, "a", "aegc0_out.c") ELSE Command(u, out, cpath)] :
          t \in Short, u \in Short, out \in {"a", "b"}, cpath \in {"aegc0_out.c", "other.c"}}
=============================================================================
