---------------------------- MODULE Aegc1Frontend ----------------------------
(***************************************************************************)
(* What aegc1 makes of a source text: frontend/parser.c, ast_validate.c,   *)
(* the checks under semantic/ and the lowering under ir/.                  *)
(*                                                                         *)
(* A program is a sequence of chunks, the feature words that occur in it   *)
(* wherever they stand, and the nested pattern depth it asks for.  A chunk *)
(* is what its author means to be one item, or a token that begins none.   *)
(* How a chunk ends decides what the parser skips: with a semicolon and no *)
(* braces ("semi"), with braces that hold semicolons ("body") or none      *)
(* ("empty"), with neither ("bare"), with a brace that is never closed and *)
(* no semicolon behind it ("open"), or with a character that the lexer     *)
(* takes for the end of the file ("eof").  Between the name of a macro and *)
(* its braces there is something, a function has its parentheses, and what *)
(* lacks its name does not also lack its end.                              *)
(***************************************************************************)
EXTENDS Integers, SequencesExt, Selection

Forms == {"fn", "struct", "enum", "import", "macro", "junk"}
Marks == {"gen", "coro", "contract", "invariant", "proc"}

\* What is left of the tokens of a1_lexer_next.
Chunks ==
  {c \in [form : Forms, named : BOOLEAN, marks : SUBSET Marks, attrs : BOOLEAN,
          async : BOOLEAN, generic : BOOLEAN, arrow : BOOLEAN, where : BOOLEAN,
          ends : {"semi", "body", "empty", "bare", "open", "eof"}] :
     /\ c.form = "junk" => ~c.arrow /\ ~c.where /\ c.ends \in {"semi", "bare", "eof"}
     /\ c.form = "import" => ~c.async
     /\ ~c.named => c.form # "macro" /\ (c.ends = "bare" => c.form \in {"fn", "junk"})}

\* The feature words a gate looks at.
Features == {"dependent", "refinement", "linear", "higher_kinded", "exists", "contract",
             "invariant", "borrow", "quantity", "row", "async", "generator",
             "coroutine", "macro"}

SourceTexts == [chunks : Seq(Chunks), words : SUBSET Features, depth : Nat]

-----------------------------------------------------------------------------
(* The parser.                                                             *)

\* The fields of an A1AstItem.  The marks are words in the name of a function.
Item(chunk) ==
  LET fn   == chunk.form = "fn"
      marked(word) == fn /\ chunk.named /\ word \in chunk.marks
  IN [kind |-> chunk.form, named |-> chunk.named, attrs |-> chunk.attrs,
      generic |-> chunk.generic /\ chunk.form \in {"fn", "struct", "enum"},
      async |-> fn /\ chunk.async, where |-> fn /\ chunk.where,
      generator |-> marked("gen"), coroutine |-> marked("coro"),
      contract |-> marked("contract"), invariant |-> marked("invariant"),
      proc |-> marked("proc")]

\* What the parser looks for behind the head of an item: with an arrow or a
\* where clause a function is skipped to the next brace or semicolon, and a
\* struct to the next semicolon, for no brace follows its name.
Sought(chunk) ==
  CASE chunk.form \in {"import", "macro"}                 -> "semi"
    [] chunk.form = "fn" /\ chunk.where                   -> "brace"
    [] chunk.form = "fn" /\ chunk.arrow /\ ~chunk.where   -> "arrow"
    [] chunk.form = "fn" /\ ~chunk.arrow /\ ~chunk.where  -> "body"
    [] OTHER -> IF chunk.arrow \/ chunk.where THEN "semi" ELSE "body"

\* Where that leaves the parser at the end of a chunk.
Found(sought, ends) ==
  CASE ends = "eof" -> "end"
    [] ends = "semi" -> "item"
    [] ends = "body" -> "item"
    [] ends = "empty" -> IF sought = "semi" THEN "semi" ELSE "item"
    [] ends = "open"  -> IF sought = "semi" THEN "semi" ELSE "end"
    [] ends = "bare"  -> IF sought = "body" THEN "semi" ELSE sought

\* After a semicolon inside of braces the rest of them is taken for items.
Midway(sought, ends) == sought = "semi" /\ ends = "body"

\* One turn of the loop of a1_parse_module.  What an item does not end with is
\* looked for in what follows it, where a where clause becomes that of the
\* function whose arrow is skipped; nothing reports what was skipped, or a
\* brace that is not closed.
Take(ast, chunk) ==
  LET mine   == Sought(chunk)
      taken  == ast.at = "arrow" /\ chunk.where
      sought == IF taken THEN "brace" ELSE ast.at
  IN CASE ast.at = "end" -> ast
       [] ast.at = "item" /\ chunk.form = "junk" ->
            IF chunk.ends = "eof" THEN [ast EXCEPT !.at = "end"] ELSE [ast EXCEPT !.error = TRUE]
       [] ast.at = "item" /\ chunk.form # "junk" ->
            [ast EXCEPT !.items = Append(@, Item(chunk)), !.at = Found(mine, chunk.ends),
                        !.error = @ \/ Midway(mine, chunk.ends)]
       [] OTHER ->
            [ast EXCEPT !.items = IF taken THEN [@ EXCEPT ![Len(@)].where = TRUE] ELSE @,
                        !.at = Found(sought, chunk.ends),
                        !.error = @ \/ Midway(sought, chunk.ends)]

Parsed(program) ==
  FoldLeft(Take, [items |-> <<>>, error |-> FALSE, at |-> "item"], program.chunks)

\* The feature bits: those of the words of the text, and those of the items.
\* Keywords and the names of items are words of the text, too.
Bits(program, items) ==
  LET written == {c \in Range(program.chunks) : c.form # "junk"}
      parsed  == Range(items)
  IN program.words
     \cup {bit \in {"async"} : \E c \in written : c.async}
     \cup {bit \in {"refinement"} : \E c \in written : c.where}
     \cup {bit \in {"contract", "invariant"} : \E c \in written : bit \in c.marks}
     \cup {bit \in {"generator"} : \E x \in parsed : x.generator}
     \cup {bit \in {"coroutine"} : \E x \in parsed : x.coroutine}

-----------------------------------------------------------------------------
(* The gates, in the order of the driver.                                  *)

DepthOk(depth) == depth \in 1 .. 256

\* a1_ast_validate
AstValid(items, depth) ==
  /\ items # <<>> /\ DepthOk(depth)
  /\ \A x \in Range(items) :
       /\ x.named
       /\ x.coroutine => x.async
       /\ x.proc => x.kind = "macro"

\* Mutant: the where flag is that of the last item, not of any.
TypecheckLast(items, bits, depth) ==
  LET x == Last(items) IN
  /\ \E y \in Range(items) : y.kind = "fn"
  /\ DepthOk(depth)
  /\ "refinement" \in bits => x.where

\* Mutant: a module without functions is not reported.
TypecheckNoFunction(items, bits, depth) == DepthOk(depth)

\* a1_typecheck_module: only some of the features are looked at.
Typechecks(items, bits, depth) ==
  LET all     == Range(items)
      generic == \E x \in all : x.generic
      where   == \E x \in all : x.where
  IN /\ \E x \in all : x.kind = "fn"
     /\ DepthOk(depth)
     /\ "dependent" \in bits => generic \/ where
     /\ "refinement" \in bits => where
     /\ "contract" \in bits => \E x \in all : x.contract
     /\ "invariant" \in bits => \E x \in all : x.invariant
     /\ "async" \in bits => \E x \in all : x.async
     /\ "generator" \in bits => \E x \in all : x.generator
     /\ "coroutine" \in bits => \E x \in all : x.coroutine
     /\ "macro" \in bits => \E x \in all : x.kind = "macro" \/ x.attrs

\* a1_borrowcheck_module
Borrowchecks(items, bits) ==
  \A x \in Range(items) : x.kind = "fn" =>
    /\ "linear" \in bits => x.async \/ x.where
    /\ "borrow" \in bits => x.invariant
    /\ "quantity" \in bits => x.generic

\* a1_monomorphize_prep
Monomorphizes(items, bits) ==
  \A x \in Range(items) : x.kind \in {"fn", "struct", "enum"} =>
    /\ bits \cap {"higher_kinded", "row"} # {} => x.generic
    /\ "exists" \in bits => x.where

\* a1_ir_lower: imports and macros have no entry; an entry with any attribute
\* is disabled.
Lowered(items) ==
  LET runtime == Only(items, {x \in Range(items) : x.kind \in {"fn", "struct", "enum"}})
  IN [i \in DOMAIN runtime |->
       [kind |-> runtime[i].kind, named |-> runtime[i].named, async |-> runtime[i].async,
        contract |-> runtime[i].contract, enabled |-> ~runtime[i].attrs, protected |-> FALSE]]

\* Mutant: structs and enums are passed over.
ProtectedFunctions(ir, on) ==
  [i \in DOMAIN ir |-> [ir[i] EXCEPT !.protected = on /\ ir[i].enabled /\ ir[i].kind = "fn"]]

\* a1_ir_apply_protection_passes
Protected(ir, on) ==
  [i \in DOMAIN ir |-> [ir[i] EXCEPT !.protected = on /\ ir[i].enabled]]

\* a1_ir_validate
IrValid(ir, depth) ==
  /\ ir # <<>> /\ DepthOk(depth)
  /\ \A fn \in Range(ir) : (fn.async => fn.enabled) /\ (fn.contract => fn.named)

\* What a1_emit_c writes out.
EmittedC(ir) == Only(ir, {fn \in Range(ir) : fn.enabled})

\* What a1_x64_lower puts into the object file.
Assembled(ir) == Only(ir, {fn \in Range(ir) : fn.kind = "fn"})

\* Where the driver gives up on a program, if it does.
Verdict(program) ==
  LET ast  == Parsed(program)
      bits == Bits(program, ast.items)
  IN IF ~AstValid(ast.items, program.depth) THEN "ast"
     ELSE IF ast.error THEN "parse"
     ELSE IF ~Typechecks(ast.items, bits, program.depth) THEN "type"
     ELSE IF ~Borrowchecks(ast.items, bits) THEN "borrow"
     ELSE IF ~Monomorphizes(ast.items, bits) THEN "mono"
     ELSE IF ~IrValid(Lowered(ast.items), program.depth) THEN "ir"
     ELSE "accepted"
=============================================================================
