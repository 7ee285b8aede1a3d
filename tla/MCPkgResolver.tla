---------------------------- MODULE MCPkgResolver ----------------------------
(***************************************************************************)
(* Small instances of PkgResolver: lines that differ in what they require, *)
(* and lines that differ in who requires them.                             *)
(***************************************************************************)
EXTENDS PkgResolver

MCLine(name, prefix, version, parent, optional) ==
  [name |-> name, req |-> [prefix |-> prefix, version |-> version],
   parent |-> parent, optional |-> optional]

\* Requirements on one or two packages.
MCRequirements ==
  {MCLine("a", q, v, Root, o) : q \in {"^", "~", ""},
     v \in {<<1, 0, 0>>, <<1, 0, 1>>, <<1, 2, 0>>, <<2, 0, 0>>}, o \in BOOLEAN}

\* Packages that require one another.
MCParents ==
  {MCLine(n, "", <<1, 0, 0>>, p, FALSE) : n \in {"a", "b", "c"}, p \in {Root, "a", "b", "c"}}

MCDepLines == MCRequirements \cup MCParents
=============================================================================
