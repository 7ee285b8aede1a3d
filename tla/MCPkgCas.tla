------------------------------ MODULE MCPkgCas ------------------------------
(***************************************************************************)
(* A small instance of PkgCas: bodies with no run, with runs that must be  *)
(* split, and of which some are the beginning of others.                   *)
(***************************************************************************)
EXTENDS PkgCas

MCBodies == {<<>>, <<1>>, <<1, 2>>, <<1, 1, 1>>, <<2, 2, 1>>, <<1, 1, 1, 1, 1>>}
=============================================================================
