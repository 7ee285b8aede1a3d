----------------------------- MODULE SeedCompiler -----------------------------
(***************************************************************************)
(* aegc0 as a whole: the commands of SeedDriver, whose check and emitter   *)
(* are those of SeedBackend, and the C compiler that of SeedMeaning.  What *)
(* the parser makes of a text is a parameter here; SeedFront has the       *)
(* parser.                                                                 *)
(***************************************************************************)
EXTENDS SeedDriver, SeedMeaning

CONSTANT Fns(_)   \* of a text the parser accepts: its functions

\* The C program that is made of a text.
COf(text) == CProgram(Emitted(Fns(text)))

\* What the driver is told by its parts.
ASSUME CompilerAssumption ==
  \A text \in Texts :
    /\ Accepts(text) => Fns(text) \in Seq(Function(Expr))
    /\ Checked(text) <=> Accepts(text) /\ Checks(Fns(text))
    /\ CTakes(text)  <=> Accepts(text) /\ CCompiles(COf(text))

-----------------------------------------------------------------------------
(* Properties.                                                             *)

\* What the functions with a body are, by the language, in a program of all.
DeclareOnce(fns)         == \A i \in DOMAIN fns : DeclaresOnce(fns[i])
NamesBound(fns)          == \A i \in DOMAIN fns : AllBound(fns[i], FALSE)
TypesFit(fns, all)       == \A i \in DOMAIN fns : WellTyped(fns[i], all)
CallsReturnI32(fns, all) == \A i \in DOMAIN fns : CallsI32(fns[i], all)
ArgumentsFit(fns, all)   == \A i \in DOMAIN fns : CallsSuited(fns[i], all)

\* The check takes functions just as their scopes and types would have it, if
\* no function declares a name twice and what is called returns i32.
DecidesAsScoped(fns, all, checked) ==
  DeclareOnce(fns) /\ CallsReturnI32(fns, all) =>
    /\ checked /\ NamesBound(fns) /\ ArgumentsFit(fns, all) => TypesFit(fns, all)
    /\ TypesFit(fns, all) => checked

AtCheck(p) == stage[p] = "check" /\ Calm /\ Accepts(TextOf(p))

BodiesOf(p) == Bodies(Fns(TextOf(p)))
AllOf(p)    == Range(Fns(TextOf(p)))

\* The check knows of no scopes and of no functions: it has one table for a
\* function, whose first entry of a name counts, takes each call for an i32 and
\* looks at no argument.  Where no function declares a name twice and what is
\* called returns i32, it decides as scopes and types do: what it takes has the
\* types it should have, if its names are in scope and its calls have the
\* right arguments, and what has them is taken.
SemaIsScoped ==
  \A p \in Procs : AtCheck(p) =>
    DecidesAsScoped(BodiesOf(p), AllOf(p), Checked(TextOf(p)))

\* A minus below a minus is emitted as two signs in a row, which C reads as
\* one; and C sees a declaration in its own initializer.
TwoMinus(e) == e.kind = "unary" /\ e.op = "-" /\ e.rhs.kind = "unary" /\ e.rhs.op = "-"

OwnName(s) == s.kind = "let" /\ s.name \in NamesIn(s.init)

TrueToC(fn) ==
  \A x \in Statements(fn) :
    /\ \A e \in Subexpressions(Expression(x.s)) : ~TwoMinus(e)
    /\ ~OwnName(x.s)

\* A C program says what the functions it was made from say.  Of main only the
\* statements are compared: it loses its parameters.
SaysTheSame(fns, c) ==
  LET Meaning(fn, inC) ==
        [name |-> fn.name, extern |-> fn.extern, ret |-> fn.ret, says |-> Says(fn, inC),
         params |-> IF fn.name = "main" THEN <<>> ELSE fn.params]
  IN {Meaning(fn, FALSE) : fn \in Range(fns)} = {Meaning(fn, TRUE) : fn \in Range(c)}

MeaningKept(text) ==
  (\A i \in DOMAIN Fns(text) : TrueToC(Fns(text)[i])) => SaysTheSame(Fns(text), COf(text))

\* The C program an executable was made from does what the text it was made
\* from says: every operator has the operands, and every name means the
\* declaration, that they have in the text, whatever is shadowed by what; but
\* for the two cases above.
SameMeaning ==
  \A p \in Procs : stage[p] = "done" /\ rc[p] = 0 /\ exe[OutOf(p)] \in Texts =>
      MeaningKept(exe[OutOf(p)])
=============================================================================
