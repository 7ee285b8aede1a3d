----------------------------- MODULE MCLspServer -----------------------------
(***************************************************************************)
(* Small instances of LspServer.                                           *)
(***************************************************************************)
EXTENDS LspServer

\* A line with no string literal; f is declared unless it is NoName.
L(kind, f, words) ==
  [kind |-> kind, name |-> f,
   fns |-> IF kind \in {"fn", "open"} THEN {f} ELSE {},
   lets |-> IF kind = "let" THEN {f} ELSE {},
   words |-> words, spaced |-> kind = "body", quoted |-> FALSE]

\* fn main() -> i32 { return add() + add() + add(); }
CallsAdd == << L("fn", "main", <<"main", "add", "add", "add">>) >>
\* fn main() -> i32 {          let add = main
\*   return add();
\* }
MainOverLines == << L("open", "main", <<"main">>), L("body", NoName, <<"add">>),
                    L("close", NoName, <<>>) >>
LetAdd == << L("let", "add", <<"add", "main">>) >>
\* fn add() -> i32 { print(main, "..."); return 0; }
QuotingAdd == << [L("fn", "add", <<"add", "main">>) EXCEPT !.quoted = TRUE] >>

MCTexts == {CallsAdd, MainOverLines, LetAdd, QuotingAdd}
\* One text with an error and one without.
MCFewTexts == {CallsAdd, LetAdd}

\* The checksum separates the received texts, in some order.
MCChecksum ==
  LET order == SetToSeq(ServerTexts)
  IN [t \in ServerTexts |-> CHOOSE n \in DOMAIN order : order[n] = t]
=============================================================================
