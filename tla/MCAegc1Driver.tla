---------------------------- MODULE MCAegc1Driver ----------------------------
(***************************************************************************)
(* A small instance of Aegc1Driver: the input "b" holds programs of all    *)
(* shapes, "a" a plain one that may be edited, and the second process gets *)
(* in the way of the first.                                                *)
(***************************************************************************)
EXTENDS Aegc1Driver

CONSTANTS p1, p2

C(form, ends) ==
  [form |-> form, named |-> TRUE, marks |-> {}, attrs |-> FALSE, async |-> FALSE,
   generic |-> FALSE, arrow |-> FALSE, where |-> FALSE, ends |-> ends]

Main == C("fn", "body")
Arrow == [Main EXCEPT !.arrow = TRUE]
Marked(word) == [Main EXCEPT !.marks = {word}]

MCChunks ==
  {Main, C("fn", "open"), C("fn", "eof"), C("fn", "empty"), C("fn", "bare"), C("struct", "empty"), C("struct", "bare"),
   C("enum", "semi"), C("import", "semi"), C("macro", "semi"), C("macro", "bare"),
   C("junk", "bare"), C("junk", "eof"), [C("import", "semi") EXCEPT !.named = FALSE],
   [Arrow EXCEPT !.ends = "bare"], [Arrow EXCEPT !.ends = "open"],
   [Main EXCEPT !.attrs = TRUE], [Main EXCEPT !.generic = TRUE],
   [Main EXCEPT !.where = TRUE], [Main EXCEPT !.where = TRUE, !.ends = "bare"],
   [C("struct", "empty") EXCEPT !.where = TRUE], [C("enum", "body") EXCEPT !.where = TRUE], [C("struct", "empty") EXCEPT !.generic = TRUE],
   [Main EXCEPT !.async = TRUE], [Main EXCEPT !.async = TRUE, !.attrs = TRUE],
   [Marked("coro") EXCEPT !.async = TRUE]}
  \cup {Marked(word) : word \in {"gen", "coro", "contract", "invariant", "proc"}}

MCWords ==
  {{}, {"borrow", "row"}} \cup
  {{w} : w \in {"dependent", "refinement", "linear", "higher_kinded", "exists", "contract", "generator",
                "borrow", "quantity", "row", "async", "coroutine", "macro"}}

Program(chunks, words, depth) == [chunks |-> chunks, words |-> words, depth |-> depth]

\* Every chunk with every word; and with a neighbour that matters to it, on
\* either side.
Neighbours == {Main, C("struct", "bare"), C("fn", "open"), [Main EXCEPT !.where = TRUE],
               [Arrow EXCEPT !.ends = "bare"]}

MCAllPrograms ==
  {Program(<<c>>, words, 16) : c \in MCChunks, words \in MCWords}
  \cup {Program(<<c, d>>, {}, 16) : c \in MCChunks, d \in Neighbours}
  \cup {Program(<<d, c>>, {}, 16) : c \in MCChunks, d \in Neighbours}
  \cup {Program(<<>>, {}, 16), Program(<<Main>>, {}, 257)}

\* "lib/a" may lose "l" or "lib/", "a b" what stands before the blank.
MCEnds ==
  [name \in Names |-> CASE name = "lib/a" -> {"ib/a", "a"} [] name = "ib/a" -> {"a"}
                       [] name = "a b" -> {"b"} [] name = "word" -> {"word"} [] OTHER -> {}]

Plain == Program(<<Main>>, {}, 16)

Edited == Program(<<Main, [C("struct", "empty") EXCEPT !.attrs = TRUE]>>, {}, 16)

MCPrograms ==
  [path \in Paths |-> CASE path = "a" -> {Plain, Edited}
                        [] path = "b" -> MCAllPrograms
                        [] OTHER -> {Edited}]

Task(path, wants, protect, research) ==
  [path |-> path, wants |-> wants, protect |-> protect, research |-> research]

MCTasks ==
  [p \in Procs |->
     IF p = p1
     THEN {Task("a", {"ir", "c", "obj", "bin"}, TRUE, FALSE),
           Task("a", {"ir", "obj", "bin"}, FALSE, FALSE),
           Task("b", {"c", "bin"}, TRUE, FALSE),
           Task("a b", {"c"}, TRUE, FALSE), Task("a", {"ir"}, TRUE, FALSE)}
     ELSE {Task("a", {"obj"}, TRUE, FALSE), Task("lib/a", {"obj"}, TRUE, TRUE)}]

MCEarlier == <<[path |-> "a", hash |-> 1]>>

\* Two hashes, so that a program may change and keep its hash, or not.
MCHash == [g \in MCAllPrograms \cup {Edited} |-> IF g = Plain THEN 1 ELSE 2]
=============================================================================
