------------------------------ MODULE SeedArena ------------------------------
(***************************************************************************)
(* The arena of aegc0 (arena.c): one block of memory that objects are cut  *)
(* off from its front, and that realloc makes larger when it is used up.   *)
(* realloc may move the block; whoever was handed a pointer before keeps   *)
(* the old one.                                                            *)
(*                                                                         *)
(* Memory is never exhausted, and sizes stay below 2^64.                   *)
(***************************************************************************)
EXTENDS Integers

CONSTANTS FirstBlock,    \* the capacity the block begins with (4096)
          Factors        \* bound: the powers of two a capacity is multiplied by

ASSUME ArenaAssumption == FirstBlock \in Nat \ {0} /\ Factors \subseteq Nat \ {0}

Objects == [block : Nat, start : Nat, size : Nat \ {0}]
Arenas  == [len : Nat, cap : Nat, block : Nat, objects : SUBSET Objects]

\* An arena: a->len, a->cap, which block a->data points to, and, as history,
\* the objects that were handed out.
EmptyArena == [len |-> 0, cap |-> 0, block |-> 0, objects |-> {}]

\* align_up
AlignUp(x, align) == ((x + align - 1) \div align) * align

\* Mutant: some room is taken for enough.
FitsInPart(arena, needed) == arena.len < arena.cap

\* The object fits into the block as it is.
Fits(arena, needed) == needed <= arena.cap

\* The loop that doubles the capacity.
Capacities(cap, needed) ==
  LET from == IF cap = 0 THEN FirstBlock ELSE cap
  IN {c \in {from * f : f \in Factors} :
        needed <= c /\ (c = from \/ c < 2 * needed)}

\* An object of that size is cut off at its place in that block.
CutOff(arena, start, size, cap, block) ==
  [len |-> start + size, cap |-> cap, block |-> block,
   objects |-> arena.objects \cup {[block |-> block, start |-> start, size |-> size]}]

\* arena_alloc: the arenas it may leave.  The first block is never a moved one.
Allocated(arena, size, align) ==
  LET start == AlignUp(arena.len, align) IN
  IF Fits(arena, start + size)
  THEN {CutOff(arena, start, size, arena.cap, arena.block)}
  ELSE {CutOff(arena, start, size, cap, block) :
          cap \in Capacities(arena.cap, start + size),
          block \in {b \in {arena.block, arena.block + 1} : arena.cap = 0 => b = arena.block}}

\* Some pointer that was handed out points to a block that is gone.
Dangling(arena) == \E o \in arena.objects : o.block # arena.block
=============================================================================
