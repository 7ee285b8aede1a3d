------------------------------ MODULE Selection ------------------------------
(***************************************************************************)
(* What a loop of the code collects that looks at the elements of an array *)
(* one after the other and keeps some of them.                             *)
(***************************************************************************)
EXTENDS Integers, Sequences

\* The elements of seq that are in S, in their order.
Only(seq, S) ==
  LET kept[n \in 0 .. Len(seq)] ==
        IF n = 0 THEN <<>>
        ELSE IF seq[n] \in S THEN Append(kept[n - 1], seq[n]) ELSE kept[n - 1]
  IN kept[Len(seq)]
=============================================================================
