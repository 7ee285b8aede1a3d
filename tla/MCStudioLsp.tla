----------------------------- MODULE MCStudioLsp -----------------------------
(***************************************************************************)
(* Small instances of StudioLsp: one document and two or three texts.      *)
(***************************************************************************)
EXTENDS StudioLsp

MCLine(kind, f, words) ==
  [kind |-> kind, name |-> f,
   fns |-> IF kind = "let" THEN {} ELSE {f},
   lets |-> IF kind = "let" THEN {f} ELSE {},
   words |-> words, spaced |-> FALSE, quoted |-> FALSE]

\* fn main() -> i32 { return add(); }      let add = main      fn add() -> i32 { return 0; }
CallsAdd == << MCLine("fn", "main", <<"main", "add">>) >>
LetAdd == << MCLine("let", "add", <<"add", "main">>) >>
IsAdd == << MCLine("fn", "add", <<"add">>), MCLine("fn", "main", <<"main">>) >>

MCTexts == {CallsAdd, LetAdd, IsAdd}
MCChecksum == [t \in ServerTexts |-> 0]
=============================================================================
