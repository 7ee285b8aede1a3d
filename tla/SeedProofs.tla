------------------------------ MODULE SeedProofs ------------------------------
(***************************************************************************)
(* Theorems about SeedDriver and SeedCompiler, for any processes, texts,   *)
(* paths and sizes, whatever functions the parser makes of a text.         *)
(***************************************************************************)
EXTENDS SeedCompiler, DataLemmas, TLAPS

-----------------------------------------------------------------------------
(* The arena.                                                              *)

\* What every allocation preserves.
Sound(a) ==
  /\ a.len <= a.cap
  /\ \A o \in a.objects : o.start + o.size <= a.len
  /\ \A o, q \in a.objects : o # q /\ o.block = q.block =>
       o.start + o.size <= q.start \/ q.start + q.size <= o.start
  /\ Dangling(a) => a.len > FirstBlock
  /\ a.cap = 0 \/ a.cap >= FirstBlock

\* Aligning goes up.
LEMMA AlignedUp ==
  ASSUME NEW x \in Nat, NEW a \in Nat \ {0}
  PROVE  AlignUp(x, a) \in Nat /\ AlignUp(x, a) >= x
<1> DEFINE y == x + a - 1
<1>1. y \in Nat
  OBVIOUS
<1>2. (y \div a) \in Nat /\ y = a * (y \div a) + (y % a) /\ y % a \in 0 .. a - 1
  BY <1>1
<1>3. (y \div a) * a \in Nat /\ (y \div a) * a = a * (y \div a)
  BY <1>2
<1>4. QED
  BY <1>1, <1>2, <1>3 DEF AlignUp

\* The object that is cut off lies behind all others.
LEMMA CutOffSound ==
  ASSUME NEW a \in Arenas, Sound(a), NEW start \in Nat, start >= a.len,
         NEW size \in Nat \ {0}, NEW cap \in Nat, start + size <= cap,
         cap >= FirstBlock, NEW block \in Nat,
         block = a.block \/ start + size > FirstBlock
  PROVE  /\ CutOff(a, start, size, cap, block) \in Arenas
         /\ Sound(CutOff(a, start, size, cap, block))
         /\ CutOff(a, start, size, cap, block).len > a.len
<1> DEFINE new == [block |-> block, start |-> start, size |-> size]
           b   == CutOff(a, start, size, cap, block)
<1>1. /\ b.len = start + size /\ b.cap = cap /\ b.block = block
      /\ b.objects = a.objects \cup {new} /\ new \in Objects
  BY DEF CutOff, Objects
<1>2. /\ a.len \in Nat /\ a.cap \in Nat /\ a.block \in Nat
      /\ \A o \in a.objects : o.block \in Nat /\ o.start \in Nat /\ o.size \in Nat
  BY DEF Arenas, Objects
<1>3. b \in Arenas
  BY <1>1 DEF Arenas, CutOff
<1>4. \A o \in b.objects : o.start + o.size <= b.len
  BY <1>1, <1>2 DEF Sound
<1>5. \A o, q \in b.objects : o # q /\ o.block = q.block =>
        o.start + o.size <= q.start \/ q.start + q.size <= o.start
  <2> SUFFICES ASSUME NEW o \in b.objects, NEW q \in b.objects, o # q, o.block = q.block
               PROVE  o.start + o.size <= q.start \/ q.start + q.size <= o.start
    OBVIOUS
  <2>1. CASE o \in a.objects /\ q \in a.objects
    BY <2>1 DEF Sound
  <2>2. CASE o \in a.objects /\ q = new
    <3>1. o.start + o.size <= a.len
      BY <2>2 DEF Sound
    <3>2. QED
      BY <2>2, <3>1, <1>2
  <2>3. CASE q \in a.objects /\ o = new
    <3>1. q.start + q.size <= a.len
      BY <2>3 DEF Sound
    <3>2. QED
      BY <2>3, <3>1, <1>2
  <2>4. QED
    BY <1>1, <2>1, <2>2, <2>3
<1>6. Dangling(b) => b.len > FirstBlock
  <2> SUFFICES ASSUME Dangling(b), block = a.block PROVE start + size > FirstBlock
    BY <1>1
  <2>1. Dangling(a)
    BY <1>1 DEF Dangling
  <2>2. a.len > FirstBlock
    BY <2>1 DEF Sound
  <2>3. QED
    BY <2>2, <1>2, ArenaAssumption
<1>7. QED
  BY <1>1, <1>2, <1>3, <1>4, <1>5, <1>6 DEF Sound

\* An allocation leaves a sound arena, in which more is used.
LEMMA AllocatedSound ==
  ASSUME NEW a \in Arenas, Sound(a), NEW size \in Nat \ {0}, NEW align \in Nat \ {0},
         NEW b \in Allocated(a, size, align)
  PROVE  b \in Arenas /\ Sound(b) /\ b.len > a.len
<1> DEFINE start == AlignUp(a.len, align)
<1>1. a.len \in Nat /\ a.cap \in Nat /\ a.block \in Nat
  BY DEF Arenas
<1>2. start \in Nat /\ start >= a.len
  BY <1>1, AlignedUp
<1> HIDE DEF start
<1>3. CASE Fits(a, start + size)
  <2>1. b = CutOff(a, start, size, a.cap, a.block)
    BY <1>3 DEF Allocated, start
  <2>2. start + size <= a.cap /\ a.cap >= FirstBlock
    BY <1>1, <1>2, <1>3 DEF Fits, Sound
  <2>3. QED
    BY <1>1, <1>2, <2>1, <2>2, CutOffSound
<1>4. CASE ~Fits(a, start + size)
  <2>1. PICK cap \in Capacities(a.cap, start + size), block \in {a.block, a.block + 1} :
          (a.cap = 0 => block = a.block) /\ b = CutOff(a, start, size, cap, block)
    BY <1>4 DEF Allocated, start
  <2>2. PICK f \in Factors : cap = (IF a.cap = 0 THEN FirstBlock ELSE a.cap) * f
    BY DEF Capacities
  <2>3. start + size <= cap
    BY DEF Capacities
  <2> DEFINE from == IF a.cap = 0 THEN FirstBlock ELSE a.cap
  <2>4. from \in Nat /\ from >= FirstBlock
    BY <1>1, ArenaAssumption DEF Sound
  <2> HIDE DEF from
  <2>5. from * f \in Nat /\ from * f >= from
    BY <2>4, ArenaAssumption
  <2>6. cap \in Nat /\ cap >= FirstBlock
    BY <2>2, <2>4, <2>5, ArenaAssumption DEF from
  <2>7. block \in Nat /\ (block = a.block \/ start + size > FirstBlock)
    BY <1>1, <1>2, <1>4, <2>1, ArenaAssumption DEF Fits, Sound
  <2>8. QED
    BY <1>2, <2>1, <2>3, <2>6, <2>7, CutOffSound
<1>5. QED
  BY <1>3, <1>4

-----------------------------------------------------------------------------
(* The processes: their variables keep their types, their arenas stay      *)
(* sound.                                                                  *)

\* A step of one process.
Step(p) ==
  \/ Usage(p) \/ ReadFails(p) \/ Read(p) \/ Allocate(p) \/ ParseDone(p) \/ CheckDone(p)
  \/ OpenC(p) \/ OpenCFails(p) \/ CloseC(p) \/ Compile(p) \/ CompileFails(p) \/ Crash(p)

SeedInv == SeedTypeOK /\ \A p \in Procs : Sound(arena[p])

\* Sizes are not zero.
LEMMA Product == ASSUME NEW a \in Nat \ {0}, NEW b \in Nat \ {0} PROVE a * b \in Nat \ {0}
OBVIOUS

\* It holds at first.
LEMMA InitInv == SeedInit => SeedInv
<1> SUFFICES ASSUME SeedInit PROVE SeedInv
  OBVIOUS
<1>1. EmptyArena \in Arenas /\ Sound(EmptyArena)
  BY DEF EmptyArena, Arenas, Sound, Dangling
<1>2. QED
  BY <1>1, DriverAssumption DEF SeedInit, SeedInv, SeedTypeOK, Stages

\* A process goes on, or ends; nothing else about it changes.
LEMMA StageInv ==
  ASSUME SeedInv, NEW p \in Procs,
         UNCHANGED <<job, arena, cfile, exe, cut>>,
         \E s \in Stages : GoTo(p, s),
         UNCHANGED rc \/ \E c \in 0 .. 2 : rc' = [rc EXCEPT ![p] = c],
         todo' \in [Procs -> Seq(Requests)]
  PROVE  SeedInv'
<1>1. stage' \in [Procs -> Stages]
  BY DEF SeedInv, SeedTypeOK, GoTo
<1>2. rc' \in [Procs -> 0 .. 2]
  BY DEF SeedInv, SeedTypeOK
<1>3. QED
  BY <1>1, <1>2 DEF SeedInv, SeedTypeOK

\* A process that ends keeps it.
LEMMA ExitInv ==
  ASSUME SeedInv, NEW p \in Procs, NEW c \in 0 .. 2, Exit(p, c),
         UNCHANGED <<job, arena, todo, cfile, exe, cut>>
  PROVE  SeedInv'
<1>1. (\E s \in Stages : GoTo(p, s)) /\ rc' = [rc EXCEPT ![p] = c]
  BY DEF Exit, Stages
<1>2. todo' \in [Procs -> Seq(Requests)]
  BY DEF SeedInv, SeedTypeOK
<1>3. QED
  BY <1>1, <1>2, StageInv

\* What is asked of the arena is at least one byte.
LEMMA AllocateAsks ==
  ASSUME SeedInv, NEW p \in Procs, Allocate(p)
  PROVE  \E size \in Nat \ {0} : \E a \in Allocated(arena[p], size, Align) :
           arena' = [arena EXCEPT ![p] = a]
<1> DEFINE asked == Head(todo[p])
<1>1. todo[p] \in Seq(Requests) /\ todo[p] # <<>>
  BY DEF Allocate, SeedInv, SeedTypeOK
<1>2. asked \in Requests
  BY <1>1
<1>3. Size[asked.kind] \in Nat \ {0} /\ asked.n \in Nat \ {0}
  BY <1>2, DriverAssumption DEF Requests
<1>4. \E a \in Allocated(arena[p], Size[asked.kind] * asked.n, Align) :
        arena' = [arena EXCEPT ![p] = a]
  BY DEF Allocate
<1> HIDE DEF asked
<1>5. Size[asked.kind] * asked.n \in Nat \ {0}
  BY <1>3, Product
<1>6. QED
  BY <1>4, <1>5

\* All but Allocate leave the arenas alone, and give each variable a value of
\* its type.
LEMMA StepInv == SeedInv /\ [SeedNext]_seedVars => SeedInv'
<1> SUFFICES ASSUME SeedInv, [SeedNext]_seedVars PROVE SeedInv'
  OBVIOUS
<1>1. CASE UNCHANGED seedVars
  BY <1>1 DEF seedVars, SeedInv, SeedTypeOK
<1>2. CASE SeedNext
  <2>1. PICK p \in Procs : Step(p)
    BY <1>2 DEF SeedNext, Step
  <2>2. /\ TextOf(p) \in Texts /\ CPathOf(p) \in CPaths /\ OutOf(p) \in Outs
        /\ ParseAllocs(TextOf(p)) \in Seq(Requests)
        /\ SemaAllocs(TextOf(p)) \in Seq(Requests)
    <3>1. TextOf(p) \in Texts /\ CPathOf(p) \in CPaths /\ OutOf(p) \in Outs
      BY DEF Commands, TextOf, CPathOf, OutOf, SeedInv, SeedTypeOK
    <3>2. QED
      BY <3>1, DriverAssumption
  <2>3. todo \in [Procs -> Seq(Requests)]
    BY DEF SeedInv, SeedTypeOK
  <2>4. CASE Usage(p)
    BY <2>4, ExitInv DEF Usage
  <2>5. CASE ReadFails(p)
    BY <2>5, ExitInv DEF ReadFails
  <2>6. CASE Read(p)
    <3>1. todo' \in [Procs -> Seq(Requests)]
      BY <2>2, <2>3, <2>6 DEF Read
    <3>2. QED
      BY <2>6, <3>1, StageInv DEF Read, Stages
  <2>7. CASE Allocate(p)
    <3>1. PICK size \in Nat \ {0} :
            \E a \in Allocated(arena[p], size, Align) : arena' = [arena EXCEPT ![p] = a]
      BY <2>7, AllocateAsks
    <3> PICK a \in Allocated(arena[p], size, Align) : arena' = [arena EXCEPT ![p] = a]
      BY <3>1
    <3>2. arena[p] \in Arenas /\ Sound(arena[p]) /\ Align \in Nat \ {0}
      BY DriverAssumption DEF SeedInv, SeedTypeOK
    <3>3. a \in Arenas /\ Sound(a)
      BY <3>2, AllocatedSound
    <3>4. Tail(todo[p]) \in Seq(Requests)
      <4>1. todo[p] \in Seq(Requests) /\ todo[p] # <<>>
        BY <2>3, <2>7 DEF Allocate
      <4>2. QED
        BY <4>1
    <3>5. QED
      BY <2>7, <3>1, <3>3, <3>4 DEF Allocate, SeedInv, SeedTypeOK
  <2>8. CASE ParseDone(p)
    <3>1. UNCHANGED <<job, arena, cfile, exe, cut>>
      BY <2>8 DEF ParseDone
    <3>2. CASE GoTo(p, "check") /\ UNCHANGED rc /\ todo' = [todo EXCEPT ![p] = SemaAllocs(TextOf(p))]
      <4>1. todo' \in [Procs -> Seq(Requests)]
        BY <2>2, <2>3, <3>2
      <4>2. QED
        BY <3>1, <3>2, <4>1, StageInv DEF Stages
    <3>3. CASE Exit(p, 1) /\ UNCHANGED todo
      BY <3>1, <3>3, ExitInv
    <3>4. QED
      BY <2>8, <3>2, <3>3 DEF ParseDone
  <2>9. CASE CheckDone(p)
    <3>1. UNCHANGED <<job, arena, todo, cfile, exe, cut>>
      BY <2>9 DEF CheckDone
    <3>2. CASE GoTo(p, "emit") /\ UNCHANGED rc
      BY <2>3, <3>1, <3>2, StageInv DEF Stages
    <3>3. CASE Exit(p, 1)
      BY <3>1, <3>3, ExitInv
    <3>4. QED
      BY <2>9, <3>2, <3>3 DEF CheckDone
  <2>10. CASE OpenC(p)
    BY <2>2, <2>10 DEF OpenC, GoTo, Stages, SeedInv, SeedTypeOK
  <2>11. CASE OpenCFails(p)
    BY <2>11, ExitInv DEF OpenCFails
  <2>12. CASE CloseC(p)
    <3>1. PICK full \in BOOLEAN, text \in {TextOf(p), Garbled} :
            /\ cut' = [cut EXCEPT ![p] = @ \/ full]
            /\ cfile' = [cfile EXCEPT ![CPathOf(p)] =
                           IF full \/ cfile[CPathOf(p)] # Empty THEN Garbled ELSE text]
      BY <2>12 DEF CloseC, Outcomes
    <3>2. UNCHANGED <<job, rc, arena, todo, exe>> /\ GoTo(p, "compile")
      BY <2>12 DEF CloseC
    <3>3. cfile' \in [CPaths -> Texts \cup {Absent, Empty, Garbled}]
      BY <2>2, <3>1 DEF SeedInv, SeedTypeOK
    <3>4. cut' \in [Procs -> BOOLEAN]
      BY <3>1 DEF SeedInv, SeedTypeOK
    <3>5. QED
      BY <3>2, <3>3, <3>4 DEF GoTo, Stages, SeedInv, SeedTypeOK
  <2>13. CASE Compile(p)
    <3>1. /\ exe' = [exe EXCEPT ![OutOf(p)] = cfile[CPathOf(p)]]
          /\ cfile[CPathOf(p)] \in Texts \cup {Absent, Garbled}
          /\ Exit(p, 0) /\ UNCHANGED <<job, arena, todo, cfile, cut>>
      BY <2>13 DEF Compile
    <3>2. exe' \in [Outs -> Texts \cup {Absent, Garbled}]
      BY <2>2, <3>1 DEF SeedInv, SeedTypeOK
    <3>3. QED
      BY <3>1, <3>2 DEF Exit, GoTo, Stages, SeedInv, SeedTypeOK
  <2>14. CASE CompileFails(p)
    <3>1. CASE GoTo(p, "again") /\ UNCHANGED rc
      BY <2>3, <2>14, <3>1, StageInv DEF CompileFails, Stages
    <3>2. CASE Exit(p, 1)
      BY <2>14, <3>2, ExitInv DEF CompileFails
    <3>3. QED
      BY <2>14, <3>1, <3>2 DEF CompileFails
  <2>15. CASE Crash(p)
    BY <2>3, <2>15, StageInv DEF Crash, Stages
  <2>16. QED
    BY <2>1, <2>4, <2>5, <2>6, <2>7, <2>8, <2>9, <2>10, <2>11, <2>12, <2>13, <2>14, <2>15
    DEF Step
<1>3. QED
  BY <1>1, <1>2

\* The variables have their types: what the driver is modelled with.
THEOREM SeedTypes == SeedSpec => []SeedTypeOK
<1>1. SeedInv => SeedTypeOK
  BY DEF SeedInv
<1>2. QED
  BY <1>1, InitInv, StepInv, PTL DEF SeedSpec

\* The objects of an arena never overlap, and no pointer into it goes astray
\* before its first block is used up: arena_alloc (arena.c:24).
THEOREM MemoryStaysSound == SeedSpec => []MemoryIsSound
<1>1. SeedInv => MemoryIsSound
  <2> SUFFICES ASSUME SeedInv, NEW p \in Procs
               PROVE  ObjectsApart(arena[p]) /\ (Dangling(arena[p]) => arena[p].len > FirstBlock)
    BY DEF MemoryIsSound
  <2>1. arena[p] \in Arenas /\ Sound(arena[p])
    BY DEF SeedInv, SeedTypeOK
  <2>2. QED
    BY <2>1 DEF Sound, ObjectsApart, Arenas, Objects
<1>2. QED
  BY <1>1, InitInv, StepInv, PTL DEF SeedSpec

-----------------------------------------------------------------------------
(* The program a command builds is its own.                                *)

\* How far a process has come says what its text has passed, and what is in
\* its C file.
Facts(p) ==
  /\ stage[p] \in {"check", "emit", "write", "compile", "again"} => Accepts(TextOf(p))
  /\ stage[p] \in {"emit", "write", "compile", "again"} => Checked(TextOf(p))
  /\ stage[p] = "write" => cfile[CPathOf(p)] = Empty
  /\ stage[p] \in {"compile", "again"} => cfile[CPathOf(p)] = TextOf(p)
  /\ stage[p] = "done" /\ rc[p] = 0 =>
       /\ exe[OutOf(p)] = TextOf(p)
       /\ Accepts(TextOf(p)) /\ Checked(TextOf(p)) /\ CTakes(TextOf(p))

Undisturbed(p) == Private(p) /\ ~cut[p] /\ arena[p].len <= FirstBlock

BuildInv ==
  /\ \A p \in Procs : job[p].usage => stage[p] \in {"start", "done", "killed"}
  /\ \A p \in Procs : Undisturbed(p) => Facts(p)

\* What the step of another process leaves alone.
LEMMA OthersStep ==
  ASSUME SeedInv, BuildInv, NEW p \in Procs, NEW q \in Procs, p # q, Step(q)
  PROVE  /\ job' = job /\ stage'[p] = stage[p] /\ rc'[p] = rc[p]
         /\ arena'[p] = arena[p] /\ cut'[p] = cut[p]
         /\ Private(p) => /\ cfile'[CPathOf(p)] = cfile[CPathOf(p)]
                          /\ exe'[OutOf(p)] = exe[OutOf(p)]
<1> USE DEF SeedInv, SeedTypeOK
<1>1. CASE Usage(q) \/ ReadFails(q) \/ Read(q) \/ OpenCFails(q) \/ CompileFails(q) \/ Crash(q)
  BY <1>1 DEF Usage, ReadFails, Read, OpenCFails, CompileFails, Crash, Exit, GoTo
<1>2. CASE ParseDone(q) \/ CheckDone(q)
  BY <1>2 DEF ParseDone, CheckDone, Exit, GoTo
<1>3. CASE Allocate(q)
  BY <1>3 DEF Allocate
<1>4. CASE OpenC(q)
  <2>1. ~job[q].usage
    BY <1>4 DEF OpenC, BuildInv
  <2>2. QED
    BY <1>4, <2>1 DEF OpenC, GoTo, Private
<1>5. CASE CloseC(q)
  <2>1. ~job[q].usage
    BY <1>5 DEF CloseC, BuildInv
  <2>2. \E x, full : /\ cfile' = [cfile EXCEPT ![CPathOf(q)] = x]
                     /\ cut' = [cut EXCEPT ![q] = @ \/ full]
    BY <1>5 DEF CloseC
  <2>3. UNCHANGED <<job, rc, arena, exe>> /\ GoTo(q, "compile")
    BY <1>5 DEF CloseC
  <2>4. QED
    BY <2>1, <2>2, <2>3 DEF GoTo, Private
<1>6. CASE Compile(q)
  <2>1. ~job[q].usage
    BY <1>6 DEF Compile, BuildInv
  <2>2. \E x : exe' = [exe EXCEPT ![OutOf(q)] = x]
    BY <1>6 DEF Compile
  <2>3. UNCHANGED <<job, arena, cfile, cut>> /\ Exit(q, 0)
    BY <1>6 DEF Compile
  <2>4. QED
    BY <2>1, <2>2, <2>3 DEF Exit, GoTo, Private
<1>7. QED
  BY <1>1, <1>2, <1>3, <1>4, <1>5, <1>6 DEF Step

\* An allocation takes more of the arena.
LEMMA AllocateGrows ==
  ASSUME SeedInv, NEW p \in Procs, Allocate(p)
  PROVE  arena'[p].len > arena[p].len
<1>1. PICK size \in Nat \ {0} : \E a \in Allocated(arena[p], size, Align) :
        arena' = [arena EXCEPT ![p] = a]
  BY AllocateAsks
<1> PICK a \in Allocated(arena[p], size, Align) : arena' = [arena EXCEPT ![p] = a]
  BY <1>1
<1>2. arena[p] \in Arenas /\ Sound(arena[p]) /\ Align \in Nat \ {0}
  BY DriverAssumption DEF SeedInv, SeedTypeOK
<1>3. a.len > arena[p].len
  BY <1>2, AllocatedSound
<1>4. QED
  BY <1>1, <1>3 DEF SeedInv, SeedTypeOK

\* What a process does itself, as long as nothing disturbs it.
LEMMA OwnStep ==
  ASSUME SeedInv, BuildInv, NEW p \in Procs, Step(p), Undisturbed(p)'
  PROVE  Facts(p)'
<1>1. job' = job
  BY DEF Step, Usage, ReadFails, Read, Allocate, ParseDone, CheckDone, OpenC, OpenCFails, CloseC,
         Compile, CompileFails, Crash
<1>2. Private(p)
  BY <1>1 DEF Undisturbed, Private, OutOf, CPathOf
<1>3. TextOf(p)' = TextOf(p) /\ CPathOf(p)' = CPathOf(p) /\ OutOf(p)' = OutOf(p)
  BY <1>1 DEF TextOf, CPathOf, OutOf
<1>4. TextOf(p) \in Texts /\ CPathOf(p) \in CPaths /\ OutOf(p) \in Outs
  BY DEF Commands, TextOf, CPathOf, OutOf, SeedInv, SeedTypeOK
<1>5. TextOf(p) # Empty /\ TextOf(p) # Garbled
  BY <1>4, DriverAssumption
<1>6. ASSUME arena' = arena, cut' = cut
      PROVE  Facts(p) /\ ~Dangling(arena[p])
  <2>1. Undisturbed(p)
    BY <1>2, <1>6 DEF Undisturbed
  <2>2. arena[p].len \in Nat /\ (Dangling(arena[p]) => arena[p].len > FirstBlock)
    BY DEF SeedInv, SeedTypeOK, Arenas, Sound
  <2>3. QED
    BY <2>1, <2>2, ArenaAssumption DEF BuildInv, Undisturbed
<1> USE DEF SeedInv, SeedTypeOK
<1>7. CASE Usage(p) \/ ReadFails(p) \/ OpenCFails(p)
  <2>1. stage'[p] = "done" /\ rc'[p] # 0
    BY <1>7 DEF Usage, ReadFails, OpenCFails, Exit, GoTo
  <2>2. QED
    BY <2>1 DEF Facts
<1>8. CASE Read(p) \/ Crash(p)
  <2>1. stage'[p] \in {"parse", "killed"}
    BY <1>8 DEF Read, Crash, GoTo
  <2>2. QED
    BY <2>1 DEF Facts
<1>9. CASE Allocate(p)
  <2>1. /\ stage' = stage /\ stage[p] \in {"parse", "check"} /\ cut' = cut
    BY <1>9 DEF Allocate
  <2>2. arena[p].len <= FirstBlock
    <3>1. stage[p] \in {"parse", "check"} /\ arena'[p].len > arena[p].len
      BY <2>1, <1>9, AllocateGrows
    <3>2. arena[p].len \in Nat /\ arena'[p].len \in Nat /\ arena'[p].len <= FirstBlock
      BY StepInv, <1>9 DEF Undisturbed, Arenas, Step, SeedNext
    <3>3. QED
      BY <3>1, <3>2, ArenaAssumption
  <2>3. Facts(p)
    BY <1>2, <2>1, <2>2 DEF BuildInv, Undisturbed
  <2>4. QED
    BY <1>3, <2>1, <2>3 DEF Facts
<1>10. CASE ParseDone(p)
  <2>1. ~Dangling(arena[p])
    BY <1>6, <1>10 DEF ParseDone
  <2>2. \/ stage'[p] = "check" /\ Accepts(TextOf(p))
        \/ stage'[p] = "done" /\ rc'[p] # 0
    BY <2>1, <1>10 DEF ParseDone, Outcomes, Exit, GoTo
  <2>3. QED
    BY <1>3, <2>2 DEF Facts
<1>11. CASE CheckDone(p)
  <2>1. Facts(p) /\ ~Dangling(arena[p]) /\ stage[p] = "check"
    BY <1>6, <1>11 DEF CheckDone
  <2>2. \/ stage'[p] = "emit" /\ Checked(TextOf(p))
        \/ stage'[p] = "done" /\ rc'[p] # 0
    BY <2>1, <1>11 DEF CheckDone, Outcomes, Exit, GoTo
  <2>3. QED
    BY <1>3, <2>1, <2>2 DEF Facts
<1>12. CASE OpenC(p)
  <2>1. Facts(p) /\ stage[p] = "emit" /\ stage'[p] = "write" /\ cfile'[CPathOf(p)] = Empty
    BY <1>4, <1>6, <1>12 DEF OpenC, GoTo
  <2>2. QED
    BY <1>3, <2>1 DEF Facts
<1>13. CASE CloseC(p)
  <2>1. /\ stage[p] = "write" /\ stage'[p] = "compile" /\ arena' = arena
    BY <1>13 DEF CloseC, GoTo
  <2>2. PICK full \in BOOLEAN, text \in {TextOf(p), Garbled} :
          /\ ~Dangling(arena[p]) => text = TextOf(p)
          /\ cut' = [cut EXCEPT ![p] = @ \/ full]
          /\ cfile' = [cfile EXCEPT ![CPathOf(p)] =
                         IF full \/ cfile[CPathOf(p)] # Empty THEN Garbled ELSE text]
    BY <1>13 DEF CloseC, Outcomes
  <2>3. ~full /\ ~cut[p]
    BY <2>2 DEF Undisturbed
  <2>4. ~cut[p] => Facts(p) /\ ~Dangling(arena[p])
    <3>1. arena[p].len \in Nat /\ (Dangling(arena[p]) => arena[p].len > FirstBlock)
      BY DEF Arenas, Sound
    <3>2. QED
      BY <1>2, <2>1, <3>1, ArenaAssumption DEF Undisturbed, BuildInv
  <2>5. cfile'[CPathOf(p)] = TextOf(p)
    BY <1>4, <2>1, <2>2, <2>3, <2>4 DEF Facts
  <2>6. QED
    BY <1>3, <2>1, <2>3, <2>4, <2>5 DEF Facts
<1>14. CASE Compile(p)
  <2>1. Facts(p) /\ stage[p] \in {"compile", "again"} /\ stage'[p] = "done"
    BY <1>6, <1>14 DEF Compile, Exit, GoTo
  <2>2. cfile[CPathOf(p)] = TextOf(p) /\ Accepts(TextOf(p)) /\ Checked(TextOf(p))
    BY <2>1 DEF Facts
  <2>3. CTakes(TextOf(p)) /\ exe'[OutOf(p)] = TextOf(p)
    BY <1>4, <1>5, <1>14, <2>2 DEF Compile
  <2>4. QED
    BY <1>3, <2>1, <2>2, <2>3 DEF Facts
<1>15. CASE CompileFails(p)
  <2>1. Facts(p) /\ stage[p] \in {"compile", "again"} /\ cfile' = cfile
    BY <1>6, <1>15 DEF CompileFails
  <2>2. GoTo(p, "again") \/ Exit(p, 1)
    BY <1>15 DEF CompileFails
  <2>3. stage'[p] = "again" \/ (stage'[p] = "done" /\ rc'[p] # 0)
    <3>1. CASE GoTo(p, "again")
      BY <3>1 DEF GoTo
    <3>2. CASE Exit(p, 1)
      BY <3>2 DEF Exit, GoTo
    <3>3. QED
      BY <2>2, <3>1, <3>2
  <2>4. QED
    BY <1>3, <2>1, <2>3 DEF Facts
<1>16. QED
  BY <1>7, <1>8, <1>9, <1>10, <1>11, <1>12, <1>13, <1>14, <1>15 DEF Step

\* Every step keeps it.
LEMMA BuildStep == SeedInv /\ BuildInv /\ [SeedNext]_seedVars => BuildInv'
<1> SUFFICES ASSUME SeedInv, BuildInv, [SeedNext]_seedVars PROVE BuildInv'
  OBVIOUS
<1>1. CASE UNCHANGED seedVars
  BY <1>1 DEF seedVars, BuildInv, Undisturbed, Private, Facts, TextOf, CPathOf, OutOf
<1>2. CASE SeedNext
  <2>1. PICK q \in Procs : Step(q)
    BY <1>2 DEF SeedNext, Step
  <2>2. ASSUME NEW p \in Procs PROVE job'[p].usage => stage'[p] \in {"start", "done", "killed"}
    <3>1. CASE p # q
      BY <2>1, <3>1, OthersStep DEF BuildInv
    <3>2. CASE p = q
      BY <2>1, <3>2 DEF BuildInv, SeedInv, SeedTypeOK, Step, Usage, ReadFails, Read, Allocate, ParseDone,
         CheckDone, OpenC, OpenCFails, CloseC, Compile, CompileFails, Crash, Exit, GoTo
    <3>3. QED
      BY <3>1, <3>2
  <2>3. ASSUME NEW p \in Procs, Undisturbed(p)' PROVE Facts(p)'
    <3>1. CASE p # q
      <4>1. /\ job' = job /\ stage'[p] = stage[p] /\ rc'[p] = rc[p]
            /\ arena'[p] = arena[p] /\ cut'[p] = cut[p]
            /\ Private(p) => /\ cfile'[CPathOf(p)] = cfile[CPathOf(p)]
                             /\ exe'[OutOf(p)] = exe[OutOf(p)]
        BY <2>1, <3>1, OthersStep
      <4>2. Undisturbed(p)
        BY <2>3, <4>1 DEF Undisturbed, Private, OutOf, CPathOf
      <4>3. QED
        BY <4>1, <4>2 DEF BuildInv, Undisturbed, Facts, TextOf, CPathOf, OutOf
    <3>2. CASE p = q
      BY <2>1, <2>3, <3>2, OwnStep
    <3>3. QED
      BY <3>1, <3>2
  <2>4. QED
    BY <2>2, <2>3 DEF BuildInv
<1>3. QED
  BY <1>1, <1>2

\* Success means the executable was made of the text that was given, by a
\* parser, a check and a compiler that took it (driver.c): on paths of its own,
\* within the first block of the arena, on a disk that was not full.
THEOREM SuccessBuildsOwnProgram == SeedSpec => []BuildsOwnProgram
<1>1. SeedInit => BuildInv
  BY DEF SeedInit, BuildInv, Facts
<1>2. BuildInv => BuildsOwnProgram
  BY DEF BuildInv, BuildsOwnProgram, Undisturbed, Facts
<1>3. QED
  BY <1>1, <1>2, InitInv, StepInv, BuildStep, PTL DEF SeedSpec

-----------------------------------------------------------------------------
(* Trees.                                                                  *)

\* The expressions whose operands and arguments are in a set.
Nodes(below) ==
  [kind : {"int"}, value : Numbers] \cup [kind : {"var"}, name : Idents]
    \cup [kind : {"call"}, name : Idents, args : Seq(below)]
    \cup [kind : {"unary"}, op : Signs, rhs : below]
    \cup [kind : {"binary"}, op : Operators, lhs : below, rhs : below]

\* The statements whose blocks are of statements in a set.
StmtNodes(E, below) ==
  [kind : {"let"}, name : Idents, type : Types, init : E]
    \cup [kind : {"assign"}, name : Idents, value : E]
    \cup [kind : {"return", "expr"}, value : E]
    \cup [kind : {"while"}, cond : E, body : Seq(below)]
    \cup [kind : {"if"}, cond : E, body : Seq(below), hasElse : {TRUE}, else : Seq(below)]
    \cup [kind : {"if"}, cond : E, body : Seq(below), hasElse : {FALSE}, else : {<<>>}]

\* Both: expressions, if there is no set of them to make statements of.
Over(E, below) == IF E = {} THEN Nodes(below) ELSE StmtNodes(E, below)

\* What stands below a tree that is n deep.
Lower(f, n) == IF n = 0 THEN {} ELSE f[n - 1]

\* Trees of all depths up to n.
LevelsUpTo(E, f, n) == f = [i \in 0 .. n |-> Over(E, Lower(f, i))]

\* There are such trees up to any depth.
LEMMA SomeLevels == ASSUME NEW E, NEW n \in Nat PROVE \E f : LevelsUpTo(E, f, n)
<1> DEFINE P == {m \in 0 .. n : \E f : LevelsUpTo(E, f, m)}
<1>1. 0 \in P
  <2> DEFINE f == [i \in 0 .. 0 |-> Over(E, {})]
  <2>1. f = [i \in 0 .. 0 |-> Over(E, Lower(f, i))]
    BY DEF Lower
  <2> HIDE DEF f
  <2>2. LevelsUpTo(E, f, 0)
    BY <2>1, Zenon DEF LevelsUpTo
  <2> QED
    BY <2>2
<1>2. ASSUME NEW m \in 1 .. n, m - 1 \in P
      PROVE  m \in P
  <2>1. PICK f : LevelsUpTo(E, f, m - 1)
    BY <1>2
  <2> DEFINE g == [i \in 0 .. m |-> Over(E, Lower(f, i))]
  <2>2. ASSUME NEW i \in 0 .. m PROVE Lower(g, i) = Lower(f, i)
    <3>1. CASE i = 0
      BY <3>1 DEF Lower
    <3>2. CASE i # 0
      <4>1. i - 1 \in 0 .. m /\ i - 1 \in 0 .. m - 1
        BY <3>2
      <4>2. g[i - 1] = Over(E, Lower(f, i - 1))
        BY <4>1
      <4>3. f[i - 1] = Over(E, Lower(f, i - 1))
        BY <2>1, <4>1 DEF LevelsUpTo
      <4> QED
        BY <3>2, <4>2, <4>3 DEF Lower
    <3> QED
      BY <3>1, <3>2
  <2>3. LevelsUpTo(E, g, m)
    <3>1. g = [i \in 0 .. m |-> Over(E, Lower(g, i))]
      BY <2>2, Zenon
    <3> HIDE DEF g
    <3> QED
      BY <3>1, Zenon DEF LevelsUpTo
  <2> QED
    BY <2>3
<1> HIDE DEF P
<1>3. n \in P
  BY <1>1, <1>2, UpTo
<1> QED
  BY <1>3 DEF P

\* Trees of all depths.
Levels(E, g) == g = [m \in Nat |-> Over(E, Lower(g, m))]

\* There are trees of all depths.
LEMMA AllLevels == ASSUME NEW E PROVE \E g : Levels(E, g)
<1> DEFINE g == [m \in Nat |-> (CHOOSE f : LevelsUpTo(E, f, m))[m]]
<1>1. \A m \in Nat : LevelsUpTo(E, CHOOSE f : LevelsUpTo(E, f, m), m)
  BY SomeLevels, Zenon
<1>2. ASSUME NEW m \in Nat, NEW k \in 0 .. m
      PROVE  (CHOOSE f : LevelsUpTo(E, f, m))[k] = g[k]
  <2> DEFINE f == CHOOSE f : LevelsUpTo(E, f, m)
             h == [j \in Nat |-> CHOOSE x : LevelsUpTo(E, x, j)]
             P == {j \in 0 .. m : \A i \in j .. m : h[i][j] = f[j]}
  <2>1. \A j \in Nat : h[j] = [i \in 0 .. j |-> Over(E, Lower(h[j], i))]
    BY <1>1 DEF LevelsUpTo
  <2>2. f = h[m]
    OBVIOUS
  <2> HIDE DEF h, f
  <2>3. 0 \in P
    <3>1. ASSUME NEW i \in 0 .. m PROVE h[i][0] = Over(E, {})
      <4>1. i \in Nat /\ 0 \in 0 .. i
        OBVIOUS
      <4>2. h[i][0] = Over(E, Lower(h[i], 0))
        BY <2>1, <4>1
      <4> QED
        BY <4>2 DEF Lower
    <3> QED
      BY <2>2, <3>1
  <2>4. ASSUME NEW j \in 1 .. m, j - 1 \in P
        PROVE  j \in P
    <3>1. ASSUME NEW i \in j .. m PROVE h[i][j] = f[j]
      <4>1. i \in Nat /\ j \in 0 .. i /\ j \in 0 .. m /\ i \in (j - 1) .. m /\ j # 0
        OBVIOUS
      <4>2. h[i][j] = Over(E, Lower(h[i], j)) /\ f[j] = Over(E, Lower(h[m], j))
        BY <2>1, <2>2, <4>1
      <4>3. Lower(h[i], j) = h[i][j - 1] /\ Lower(h[m], j) = f[j - 1]
        BY <2>2, <4>1 DEF Lower
      <4>4. h[i][j - 1] = f[j - 1]
        BY <2>4, <4>1
      <4> QED
        BY <4>2, <4>3, <4>4
    <3> QED
      BY <3>1
  <2> HIDE DEF P
  <2>5. k \in P
    BY <2>3, <2>4, UpTo
  <2>6. h[k][k] = f[k]
    BY <2>5 DEF P
  <2> QED
    BY <2>6 DEF f, h
<1>3. Levels(E, g)
  <2>1. ASSUME NEW m \in Nat PROVE g[m] = Over(E, Lower(g, m))
    <3> DEFINE f == CHOOSE f : LevelsUpTo(E, f, m)
    <3>1. g[m] = f[m]
      OBVIOUS
    <3>2. f = [i \in 0 .. m |-> Over(E, Lower(f, i))]
      BY <1>1, Zenon DEF LevelsUpTo
    <3>3. m # 0 => f[m - 1] = g[m - 1]
      <4>1. m # 0 => m - 1 \in 0 .. m
        OBVIOUS
      <4> QED
        BY <1>2, <4>1, Zenon
    <3> HIDE DEF f, g
    <3>4. Lower(f, m) = Lower(g, m)
      BY <3>3 DEF Lower
    <3> QED
      BY <3>1, <3>2, <3>4
  <2>2. g = [m \in Nat |-> Over(E, Lower(g, m))]
    BY <2>1
  <2> HIDE DEF g
  <2> QED
    BY <2>2, Zenon DEF Levels
<1> QED
  BY <1>3

\* The expressions that are n deep are those over the ones that are less deep.
LEMMA ExprsAre == ASSUME NEW n \in Nat PROVE Exprs[n] = Nodes(Lower(Exprs, n))
<1> DEFINE Is(g) == g = [m \in Nat |->
                           LET below == IF m = 0 THEN {} ELSE g[m - 1]
                           IN [kind : {"int"}, value : Numbers] \cup [kind : {"var"}, name : Idents]
                                \cup [kind : {"call"}, name : Idents, args : Seq(below)]
                                \cup [kind : {"unary"}, op : Signs, rhs : below]
                                \cup [kind : {"binary"}, op : Operators, lhs : below, rhs : below]]
<1>1. ASSUME NEW h PROVE Is(h) <=> Levels({}, h)
  BY DEF Nodes, Over, Lower, Levels
<1>2. Exprs = CHOOSE h : Is(h)
  BY DEF Exprs
<1> HIDE DEF Is
<1>3. \E h : Is(h)
  BY <1>1, AllLevels, Zenon
<1>4. Levels({}, Exprs)
  BY <1>1, <1>2, <1>3, Zenon
<1> QED
  BY <1>4 DEF Levels, Over

\* Statements likewise.
LevelsOf(E, S) == \A n \in Nat : S[n] = StmtNodes(E, Lower(S, n))

\* Statements are what Stmts finds at its last level.
LEMMA StmtsAre == ASSUME NEW E, E # {} PROVE \E S : LevelsOf(E, S) /\ Stmts(E) = S[Height]
<1> DEFINE Is(g) == g = [m \in Nat |->
        LET below == IF m = 0 THEN {} ELSE g[m - 1]
        IN [kind : {"let"}, name : Idents, type : Types, init : E]
             \cup [kind : {"assign"}, name : Idents, value : E]
             \cup [kind : {"return", "expr"}, value : E]
             \cup [kind : {"while"}, cond : E, body : Seq(below)]
             \cup [kind : {"if"}, cond : E, body : Seq(below), hasElse : {TRUE}, else : Seq(below)]
             \cup [kind : {"if"}, cond : E, body : Seq(below), hasElse : {FALSE}, else : {<<>>}]]
           S == CHOOSE h : Is(h)
<1>1. ASSUME NEW h PROVE Is(h) <=> Levels(E, h)
  BY DEF StmtNodes, Over, Lower, Levels
<1>2. Stmts(E) = S[Height]
  BY DEF Stmts
<1> HIDE DEF Is
<1>3. \E h : Is(h)
  BY <1>1, AllLevels, Zenon
<1>4. Levels(E, S)
  BY <1>1, <1>3, Zenon
<1> HIDE DEF S
<1>5. LevelsOf(E, S)
  BY <1>4 DEF Levels, LevelsOf, Over
<1> QED
  BY <1>2, <1>5

\* What an expression over some others looks like.
Looks(e, below) ==
  \/ e.kind = "int" /\ e.value \in Numbers /\ e = Literal(e.value)
  \/ e.kind = "var" /\ e.name \in Idents /\ e = Var(e.name)
  \/ e.kind = "call" /\ e.name \in Idents /\ e.args \in Seq(below) /\ e = Call(e.name, e.args)
  \/ e.kind = "unary" /\ e.op \in Signs /\ e.rhs \in below /\ e = Unary(e.op, e.rhs)
  \/ e.kind = "binary" /\ e.op \in Operators /\ e.lhs \in below /\ e.rhs \in below
       /\ e = Binary(e.op, e.lhs, e.rhs)

\* A node over some trees looks like one.
LEMMA NodesLook == ASSUME NEW below, NEW e \in Nodes(below) PROVE Looks(e, below)
<1>1. CASE e \in [kind : {"int"}, value : Numbers]
  BY <1>1 DEF Looks, Literal
<1>2. CASE e \in [kind : {"var"}, name : Idents]
  BY <1>2 DEF Looks, Var
<1>3. CASE e \in [kind : {"call"}, name : Idents, args : Seq(below)]
  BY <1>3 DEF Looks, Call
<1>4. CASE e \in [kind : {"unary"}, op : Signs, rhs : below]
  BY <1>4 DEF Looks, Unary
<1>5. CASE e \in [kind : {"binary"}, op : Operators, lhs : below, rhs : below]
  BY <1>5 DEF Looks, Binary
<1> QED
  BY <1>1, <1>2, <1>3, <1>4, <1>5 DEF Nodes

\* What looks like a node is one.
LEMMA LooksOfNodes == ASSUME NEW below, NEW e, Looks(e, below) PROVE e \in Nodes(below)
<1>1. CASE e.kind = "int" /\ e.value \in Numbers /\ e = Literal(e.value)
  BY <1>1 DEF Literal, Nodes
<1>2. CASE e.kind = "var" /\ e.name \in Idents /\ e = Var(e.name)
  BY <1>2 DEF Var, Nodes
<1>3. CASE e.kind = "call" /\ e.name \in Idents /\ e.args \in Seq(below) /\ e = Call(e.name, e.args)
  BY <1>3 DEF Call, Nodes
<1>4. CASE e.kind = "unary" /\ e.op \in Signs /\ e.rhs \in below /\ e = Unary(e.op, e.rhs)
  BY <1>4 DEF Unary, Nodes
<1>5. CASE e.kind = "binary" /\ e.op \in Operators /\ e.lhs \in below /\ e.rhs \in below
             /\ e = Binary(e.op, e.lhs, e.rhs)
  BY <1>5 DEF Binary, Nodes
<1> QED
  BY <1>1, <1>2, <1>3, <1>4, <1>5 DEF Looks

\* Its parts are among these trees.
LEMMA PartsBelow == ASSUME NEW below, NEW e, Looks(e, below) PROVE Parts(e) \subseteq below
  BY DEF Looks, Parts, Range

\* It is a node over whatever has its parts.
LEMMA LooksOver ==
  ASSUME NEW below, NEW e, Looks(e, below), NEW S, Parts(e) \subseteq S
  PROVE  Looks(e, S)
<1>1. CASE e.kind = "call"
  <2>1. e.args \in Seq(below) /\ e.name \in Idents /\ e = Call(e.name, e.args)
    BY <1>1 DEF Looks
  <2>2. Range(e.args) \subseteq S
    BY <1>1 DEF Parts
  <2>3. e.args \in Seq(S)
    <3> DEFINE a == e.args
    <3>1. Len(a) \in Nat /\ a \in [1 .. Len(a) -> below] /\ \A i \in 1 .. Len(a) : a[i] \in S
      BY <2>1, <2>2 DEF Range
    <3> HIDE DEF a
    <3>2. a \in [1 .. Len(a) -> S]
      BY <3>1
    <3> QED
      BY <3>1, <3>2 DEF a
  <2> QED
    BY <1>1, <2>1, <2>3 DEF Looks
<1>2. CASE e.kind = "unary"
  BY <1>2 DEF Looks, Parts
<1>3. CASE e.kind = "binary"
  BY <1>3 DEF Looks, Parts
<1>4. CASE e.kind \in {"int", "var"}
  BY <1>4 DEF Looks
<1> QED
  BY <1>1, <1>2, <1>3, <1>4 DEF Looks

\* What is less deep is also found among what is deeper.
LEMMA ExprsGrow == ASSUME NEW n \in Nat PROVE Lower(Exprs, n) \subseteq Exprs[n]
<1> DEFINE P == {m \in 0 .. n : Lower(Exprs, m) \subseteq Exprs[m]}
<1>1. 0 \in P
  BY DEF Lower
<1>2. ASSUME NEW m \in 1 .. n, m - 1 \in P
      PROVE  m \in P
  <2>1. m \in Nat /\ m - 1 \in Nat /\ Lower(Exprs, m) = Exprs[m - 1]
    BY DEF Lower
  <2>2. ASSUME NEW e \in Exprs[m - 1] PROVE e \in Exprs[m]
    <3>1. Looks(e, Lower(Exprs, m - 1))
      BY <2>1, NodesLook, ExprsAre, Zenon
    <3>2. Lower(Exprs, m - 1) \subseteq Exprs[m - 1]
      BY <1>2
    <3>3. Looks(e, Exprs[m - 1])
      <4>1. Parts(e) \subseteq Exprs[m - 1]
        BY <3>1, <3>2, PartsBelow, Zenon
      <4> QED
        BY <3>1, <4>1, LooksOver, Zenon
    <3>4. Exprs[m] = Nodes(Exprs[m - 1])
      BY <2>1, ExprsAre
    <3> QED
      BY <3>3, <3>4, LooksOfNodes, Zenon
  <2> QED
    BY <2>1, <2>2
<1> HIDE DEF P
<1>3. n \in P
  BY <1>1, <1>2, UpTo
<1> QED
  BY <1>3 DEF P

\* Levels contain all lower ones.
LEMMA ExprsLow == ASSUME NEW n \in Nat, NEW m \in 0 .. n PROVE Exprs[m] \subseteq Exprs[n]
<1> DEFINE P == {k \in 0 .. n : m <= k => Exprs[m] \subseteq Exprs[k]}
<1>1. 0 \in P
  <2>1. m <= 0 => m = 0
    OBVIOUS
  <2> QED
    BY <2>1
<1>2. ASSUME NEW k \in 1 .. n, k - 1 \in P
      PROVE  k \in P
  <2>1. Exprs[k - 1] \subseteq Exprs[k]
    BY ExprsGrow, k \in Nat DEF Lower
  <2>2. m <= k => m = k \/ m <= k - 1
    OBVIOUS
  <2> QED
    BY <1>2, <2>1, <2>2
<1> HIDE DEF P
<1>3. n \in P
  BY <1>1, <1>2, UpTo
<1> QED
  BY <1>3 DEF P

\* An expression is over expressions.
LEMMA ExprLooks == ASSUME NEW e \in Expr PROVE Looks(e, Expr) /\ Parts(e) \subseteq Expr
<1>1. Height \in Nat
  BY TreesAssumption
<1>2. Looks(e, Lower(Exprs, Height)) /\ Parts(e) \subseteq Lower(Exprs, Height)
  BY <1>1, NodesLook, ExprsAre, PartsBelow, Zenon DEF Expr
<1>3. Lower(Exprs, Height) \subseteq Expr
  BY <1>1, ExprsGrow DEF Expr
<1>4. Parts(e) \subseteq Expr
  BY <1>2, <1>3
<1> QED
  BY <1>2, <1>4, LooksOver, Zenon

\* Parts are less deep.
LEMMA PartsLow ==
  ASSUME NEW n \in Nat, NEW e \in Exprs[n]
  PROVE  Looks(e, Lower(Exprs, n)) /\ Parts(e) \subseteq Lower(Exprs, n)
  BY NodesLook, ExprsAre, PartsBelow, Zenon

\* Induction over expressions.
LEMMA ExprInduction ==
  ASSUME NEW P, \A e \in Expr : Parts(e) \subseteq P => e \in P
  PROVE  Expr \subseteq P
<1> DEFINE D == {n \in 0 .. Height : Exprs[n] \subseteq P}
<1>0. Height \in Nat
  BY TreesAssumption
<1>1. ASSUME NEW n \in 0 .. Height, Lower(Exprs, n) \subseteq P
      PROVE  n \in D
  <2>1. ASSUME NEW e \in Exprs[n] PROVE e \in P
    <3>1. e \in Expr
      BY <1>0, ExprsLow DEF Expr
    <3>2. Parts(e) \subseteq P
      BY <1>1, PartsLow, n \in Nat
    <3> QED
      BY <3>1, <3>2
  <2> QED
    BY <2>1
<1>2. 0 \in D
  BY <1>0, <1>1 DEF Lower
<1>3. ASSUME NEW n \in 1 .. Height, n - 1 \in D PROVE n \in D
  BY <1>0, <1>1, <1>3 DEF Lower
<1> HIDE DEF D
<1>4. Height \in D
  BY <1>0, <1>2, <1>3, UpTo
<1> QED
  BY <1>4 DEF D, Expr

\* A function over expressions may be defined by recursion.
LEMMA ExprRecursion ==
  ASSUME NEW A, NEW a \in A, NEW F \in [Expr -> [[Expr -> A] -> A]],
         \A e \in Expr : \A g, h \in [Expr -> A] :
           (\A k \in Parts(e) : g[k] = h[k]) => F[e][g] = F[e][h]
  PROVE  \E h : Obeys(h, Expr, A, F)
<1> DEFINE Levels_(e) == {n \in 0 .. Height : e \in Exprs[n]}
           rank == [e \in Expr |-> CHOOSE n \in Levels_(e) : \A m \in Levels_(e) : n <= m]
<1>0. Height \in Nat
  BY TreesAssumption
<1>1. ASSUME NEW e \in Expr
      PROVE  rank[e] \in Levels_(e) /\ \A m \in Levels_(e) : rank[e] <= m
  <2>1. Height \in Levels_(e) /\ Levels_(e) \in SUBSET Nat
    BY <1>0 DEF Expr
  <2>2. \E n \in Levels_(e) : \A m \in Levels_(e) : n <= m
    <3> HIDE DEF Levels_
    <3> QED
      BY <2>1, LeastNumber
  <2> QED
    BY <2>2
<1>r. rank = [e \in Expr |-> rank[e]]
  OBVIOUS
<1> HIDE DEF rank
<1>2. rank \in [Expr -> Nat]
  <2>1. \A e \in Expr : rank[e] \in Nat
    BY <1>0, <1>1
  <2> QED
    BY <1>r, <2>1
<1>3. ASSUME NEW e \in Expr, NEW k \in Parts(e)
      PROVE  k \in Expr /\ rank[k] < rank[e]
  <2>1. rank[e] \in 0 .. Height /\ e \in Exprs[rank[e]]
    BY <1>1
  <2>2. k \in Lower(Exprs, rank[e])
    BY <2>1, PartsLow, rank[e] \in Nat
  <2>3. rank[e] # 0 /\ k \in Exprs[rank[e] - 1] /\ rank[e] - 1 \in 0 .. Height
    <3> DEFINE r == rank[e]
    <3>1. r \in 0 .. Height /\ k \in Lower(Exprs, r)
      BY <2>1, <2>2
    <3> HIDE DEF r
    <3>2. r # 0 /\ k \in Exprs[r - 1]
      BY <3>1 DEF Lower
    <3>3. r - 1 \in 0 .. Height
      BY <1>0, <3>1, <3>2
    <3> QED
      BY <3>2, <3>3 DEF r
  <2>4. k \in Expr
    BY ExprLooks
  <2>5. rank[k] <= rank[e] - 1
    BY <1>1, <2>3, <2>4
  <2>6. rank[k] \in Nat /\ rank[e] \in Nat
    BY <1>2, <2>4
  <2> QED
    BY <2>4, <2>5, <2>6
<1>4. LooksBelow(F, Expr, A, rank)
  <2>1. ASSUME NEW e \in Expr, NEW g \in [Expr -> A], NEW h \in [Expr -> A],
               \A c \in Expr : rank[c] < rank[e] => g[c] = h[c]
        PROVE  F[e][g] = F[e][h]
    BY <1>3, <2>1
  <2> QED
    BY <2>1 DEF LooksBelow
<1> QED
  BY <1>2, <1>4, RankRecursion

-----------------------------------------------------------------------------
(* The table of variables and the types of expressions (sema.c).           *)

\* What vget returns.
LEMMA VgetIs ==
  ASSUME NEW vars \in Seq(Variable), NEW name
  PROVE  /\ Vget(vars, name) \in Types \cup {"none"}
         /\ Vget(vars, name) = "none" <=> \A v \in Range(vars) : v.name # name
         /\ Vget(vars, name) # "none" => \E v \in Range(vars) : v.name = name /\ v.type = Vget(vars, name)
<1> DEFINE found == {i \in DOMAIN vars : vars[i].name = name}
           first == CHOOSE i \in found : \A j \in found : i <= j
<1>0. DOMAIN vars = 1 .. Len(vars) /\ Len(vars) \in Nat /\ \A i \in DOMAIN vars : vars[i] \in Variable
  OBVIOUS
<1>1. Vget(vars, name) = IF found = {} THEN "none" ELSE vars[first].type
  BY DEF Vget
<1>2. found = {} <=> \A v \in Range(vars) : v.name # name
  BY DEF Range
<1>3. CASE found = {}
  BY <1>1, <1>2, <1>3
<1>4. CASE found # {}
  <2>1. found \in SUBSET Nat
    BY <1>0
  <2>2. first \in found
    <3> HIDE DEF found
    <3>1. \E i \in found : \A j \in found : i <= j
      BY <1>4, <2>1, LeastNumber
    <3> QED
      BY <3>1, Zenon
  <2>3. vars[first] \in Variable /\ vars[first].name = name /\ vars[first] \in Range(vars)
    BY <1>0, <2>2 DEF Range
  <2>4. vars[first].type \in Types
    BY <2>3 DEF Variable
  <2>5. "none" \notin Types
    BY DEF Types
  <2> HIDE DEF found, first
  <2> QED
    BY <1>1, <1>2, <1>4, <2>3, <2>4, <2>5
<1> QED
  BY <1>3, <1>4

TypeBody(vars, h, x) ==
  IF x.kind = "var" /\ Vget(vars, x.name) # "none" THEN Vget(vars, x.name)
  ELSE IF x.kind = "unary"                         THEN h[x.rhs]
  ELSE IF x.kind = "binary" /\ x.op \in Calculating THEN h[x.lhs]
  ELSE "i32"

\* type_of_expr is well defined.
LEMMA TypeOfIs ==
  ASSUME NEW vars \in Seq(Variable)
  PROVE  \A e \in Expr :
           /\ TypeOf(vars, e) \in Types
           /\ e.kind \in {"int", "call"} => TypeOf(vars, e) = "i32"
           /\ e.kind = "var" => TypeOf(vars, e) = IF Vget(vars, e.name) = "none" THEN "i32"
                                                 ELSE Vget(vars, e.name)
           /\ e.kind = "unary" => TypeOf(vars, e) = TypeOf(vars, e.rhs)
           /\ e.kind = "binary" => TypeOf(vars, e) = IF e.op \in Calculating
                                                    THEN TypeOf(vars, e.lhs) ELSE "i32"
<1> DEFINE B(h, x) == TypeBody(vars, h, x)
           F == [x \in Expr |-> [h \in [Expr -> Types] |-> B(h, x)]]
           Is(h) == h = [x \in Expr |->
        IF x.kind = "var" /\ Vget(vars, x.name) # "none" THEN Vget(vars, x.name)
        ELSE IF x.kind = "unary"                         THEN h[x.rhs]
        ELSE IF x.kind = "binary" /\ x.op \in Calculating THEN h[x.lhs]
        ELSE "i32"]
           T == CHOOSE h : Is(h)
<1>1. ASSUME NEW x \in Expr, NEW h \in [Expr -> Types] PROVE B(h, x) \in Types
  <2>1. Looks(x, Expr)
    BY ExprLooks
  <2>2. Vget(vars, x.name) \in Types \cup {"none"} /\ "i32" \in Types
    BY VgetIs DEF Types
  <2> QED
    BY <2>1, <2>2 DEF Looks, TypeBody
<1>2. ASSUME NEW x \in Expr, NEW g \in [Expr -> Types], NEW h \in [Expr -> Types],
             \A k \in Parts(x) : g[k] = h[k]
      PROVE  B(g, x) = B(h, x)
  BY <1>2 DEF Parts, TypeBody
<1>a. ASSUME NEW h PROVE Is(h) <=> h = [x \in Expr |-> B(h, x)]
  BY Zenon DEF TypeBody
<1>b. \A e : TypeOf(vars, e) = T[e]
  BY DEF TypeOf
<1> HIDE DEF B, Is
<1>3. PICK h : Obeys(h, Expr, Types, F)
  <2>1. F \in [Expr -> [[Expr -> Types] -> Types]]
    BY <1>1
  <2>2. \A e \in Expr : \A g, h \in [Expr -> Types] :
           (\A k \in Parts(e) : g[k] = h[k]) => F[e][g] = F[e][h]
    BY <1>2
  <2>3. "i32" \in Types
    BY DEF Types
  <2> HIDE DEF F
  <2> QED
    BY <2>1, <2>2, <2>3, ExprRecursion
<1>4. h = [x \in Expr |-> B(h, x)]
  BY <1>3 DEF Obeys
<1>5. T = [x \in Expr |-> B(T, x)]
  BY <1>4, <1>a, Zenon
<1> HIDE DEF T
<1>6. \A x \in Expr : T[x] \in Types
  <2> DEFINE P == {x \in Expr : T[x] \in Types}
  <2>1. ASSUME NEW e \in Expr, Parts(e) \subseteq P PROVE e \in P
    <3>1. Looks(e, Expr)
      BY ExprLooks
    <3>2. Vget(vars, e.name) \in Types \cup {"none"} /\ "i32" \in Types
      BY VgetIs DEF Types
    <3>3. T[e] = TypeBody(vars, T, e)
      BY <1>5 DEF B
    <3> QED
      BY <2>1, <3>1, <3>2, <3>3 DEF Looks, TypeBody, Parts
  <2> HIDE DEF P
  <2>2. Expr \subseteq P
    BY <2>1, ExprInduction
  <2> QED
    BY <2>2 DEF P
<1>7. ASSUME NEW e \in Expr PROVE TypeOf(vars, e) = TypeBody(vars, T, e)
  BY <1>5, <1>b DEF B
<1> QED
  BY <1>6, <1>7, <1>b DEF TypeBody

FaultlessBody(vars, h, x) ==
  /\ x.kind = "var"    => Vget(vars, x.name) # "none"
  /\ x.kind = "unary"  => h[x.rhs]
  /\ x.kind = "binary" =>
       /\ h[x.lhs] /\ h[x.rhs]
       /\ x.op \in Comparing \/ TypeOf(vars, x.lhs) = TypeOf(vars, x.rhs)

\* So is whether it finds a fault.
LEMMA FaultlessIs ==
  ASSUME NEW vars
  PROVE  \A e \in Expr :
           /\ Faultless(vars, e) \in BOOLEAN
           /\ e.kind \in {"int", "call"} => Faultless(vars, e)
           /\ e.kind = "var" => (Faultless(vars, e) <=> Vget(vars, e.name) # "none")
           /\ e.kind = "unary" => (Faultless(vars, e) <=> Faultless(vars, e.rhs))
           /\ e.kind = "binary" =>
                (Faultless(vars, e) <=>
                   /\ Faultless(vars, e.lhs) /\ Faultless(vars, e.rhs)
                   /\ e.op \in Comparing \/ TypeOf(vars, e.lhs) = TypeOf(vars, e.rhs))
<1> DEFINE B(h, x) == FaultlessBody(vars, h, x)
           F == [x \in Expr |-> [h \in [Expr -> BOOLEAN] |-> B(h, x)]]
           Is(h) == h = [x \in Expr |->
        /\ x.kind = "var"    => Vget(vars, x.name) # "none"
        /\ x.kind = "unary"  => h[x.rhs]
        /\ x.kind = "binary" =>
             /\ h[x.lhs] /\ h[x.rhs]
             /\ x.op \in Comparing \/ TypeOf(vars, x.lhs) = TypeOf(vars, x.rhs)]
           T == CHOOSE h : Is(h)
<1>1. ASSUME NEW x, NEW h PROVE B(h, x) \in BOOLEAN
  BY Zenon DEF FaultlessBody
<1>2. ASSUME NEW x \in Expr, NEW g \in [Expr -> BOOLEAN], NEW h \in [Expr -> BOOLEAN],
             \A k \in Parts(x) : g[k] = h[k]
      PROVE  B(g, x) = B(h, x)
  <2>1. CASE x.kind = "unary"
    <3>1. g[x.rhs] = h[x.rhs]
      BY <1>2, <2>1 DEF Parts
    <3> QED
      BY <2>1, <3>1 DEF FaultlessBody
  <2>2. CASE x.kind = "binary"
    <3>1. g[x.lhs] = h[x.lhs] /\ g[x.rhs] = h[x.rhs]
      BY <1>2, <2>2 DEF Parts
    <3> QED
      BY <2>2, <3>1 DEF FaultlessBody
  <2>3. CASE x.kind # "unary" /\ x.kind # "binary"
    BY <2>3 DEF FaultlessBody
  <2> QED
    BY <2>1, <2>2, <2>3
<1>a. ASSUME NEW h PROVE Is(h) <=> h = [x \in Expr |-> B(h, x)]
  BY Zenon DEF FaultlessBody
<1>b. \A e : Faultless(vars, e) = T[e]
  BY DEF Faultless
<1> HIDE DEF B, Is
<1>3. PICK h : Obeys(h, Expr, BOOLEAN, F)
  <2>1. F \in [Expr -> [[Expr -> BOOLEAN] -> BOOLEAN]]
    BY <1>1
  <2>2. \A e \in Expr : \A g, h \in [Expr -> BOOLEAN] :
           (\A k \in Parts(e) : g[k] = h[k]) => F[e][g] = F[e][h]
    BY <1>2
  <2>3. TRUE \in BOOLEAN
    OBVIOUS
  <2> HIDE DEF F
  <2> QED
    BY <2>1, <2>2, <2>3, ExprRecursion
<1>4. h = [x \in Expr |-> B(h, x)]
  <2>1. \A x \in Expr : h[x] = B(h, x)
    BY <1>3 DEF Obeys
  <2> QED
    BY <1>3, <2>1 DEF Obeys
<1>5. T = [x \in Expr |-> B(T, x)]
  BY <1>4, <1>a, Zenon
<1> HIDE DEF T
<1>6. ASSUME NEW e \in Expr PROVE Faultless(vars, e) = FaultlessBody(vars, T, e)
  <2>1. T[e] = B(T, e)
    BY <1>5
  <2> QED
    BY <1>b, <2>1 DEF B
<1>7. ASSUME NEW e \in Expr PROVE Faultless(vars, e) \in BOOLEAN
  BY <1>1, <1>6 DEF B
<1> QED
  BY <1>6, <1>7, <1>b DEF FaultlessBody

-----------------------------------------------------------------------------
(* The types of expressions by their scopes.                               *)

InnerTypes == Types \cup {"none"}

\* What a call returns is a type, or the function is not there.
LEMMA ReturnedType ==
  ASSUME NEW all \in SUBSET Function(Expr), NEW name
  PROVE  Returned(name, all) \in Types \cup {"none"}
<1>1. CASE IsFunction(name, all)
  <2>1. Called(name, all) \in all
    BY <1>1, Zenon DEF IsFunction, Called
  <2>2. Called(name, all).ret \in Types
    <3> DEFINE fn == Called(name, all)
    <3>1. fn \in Function(Expr)
      BY <2>1
    <3> HIDE DEF fn
    <3>2. fn.ret \in Types
      BY <3>1 DEF Function
    <3> QED
      BY <3>2 DEF fn
  <2> QED
    BY <1>1, <2>2 DEF Returned
<1>2. CASE ~IsFunction(name, all)
  BY <1>2 DEF Returned
<1> QED
  BY <1>1, <1>2

TypeInBody(env, all, h, x) ==
  IF x.kind = "var"        THEN env[x.name].type
  ELSE IF x.kind = "call"  THEN Returned(x.name, all)
  ELSE IF x.kind = "unary" THEN h[x.rhs]
  ELSE IF x.kind = "binary" /\ x.op \in Calculating THEN h[x.lhs]
  ELSE "i32"

\* The type a scope gives an expression, by its parts.
LEMMA TypeInIs ==
  ASSUME NEW env \in Environment, NEW all \in SUBSET Function(Expr)
  PROVE  \A e \in Expr :
           /\ e.kind = "int" => TypeIn(env, all, e) = "i32"
           /\ e.kind = "call" => TypeIn(env, all, e) = Returned(e.name, all)
           /\ e.kind = "var" => TypeIn(env, all, e) = env[e.name].type
           /\ e.kind = "unary" => TypeIn(env, all, e) = TypeIn(env, all, e.rhs)
           /\ e.kind = "binary" => TypeIn(env, all, e) = IF e.op \in Calculating
                                                   THEN TypeIn(env, all, e.lhs) ELSE "i32"
<1> DEFINE B(h, x) == TypeInBody(env, all, h, x)
           F == [x \in Expr |-> [h \in [Expr -> InnerTypes] |-> B(h, x)]]
           Is(h) == h = [x \in Expr |->
        IF x.kind = "var"        THEN env[x.name].type
        ELSE IF x.kind = "call"  THEN Returned(x.name, all)
        ELSE IF x.kind = "unary" THEN h[x.rhs]
        ELSE IF x.kind = "binary" /\ x.op \in Calculating THEN h[x.lhs]
        ELSE "i32"]
           T == CHOOSE h : Is(h)
<1>1. ASSUME NEW x \in Expr, NEW h \in [Expr -> InnerTypes] PROVE B(h, x) \in InnerTypes
  <2>1. Looks(x, Expr)
    BY ExprLooks
  <2>2. "i32" \in InnerTypes
    BY DEF Types, InnerTypes
  <2>3. \A name \in Idents : env[name].type \in InnerTypes
    BY DEF Environment, InnerTypes
  <2>4. Returned(x.name, all) \in InnerTypes
    BY ReturnedType DEF InnerTypes
  <2> QED
    BY <2>1, <2>2, <2>3, <2>4, Zenon DEF Looks, TypeInBody
<1>2. ASSUME NEW x \in Expr, NEW g \in [Expr -> InnerTypes], NEW h \in [Expr -> InnerTypes],
             \A k \in Parts(x) : g[k] = h[k]
      PROVE  B(g, x) = B(h, x)
  BY <1>2 DEF Parts, TypeInBody
<1>a. ASSUME NEW h PROVE Is(h) <=> h = [x \in Expr |-> B(h, x)]
  BY Zenon DEF TypeInBody
<1>b. \A e : TypeIn(env, all, e) = T[e]
  BY DEF TypeIn
<1> HIDE DEF B, Is
<1>3. PICK h : Obeys(h, Expr, InnerTypes, F)
  <2>1. F \in [Expr -> [[Expr -> InnerTypes] -> InnerTypes]]
    BY <1>1
  <2>2. \A e \in Expr : \A g, h \in [Expr -> InnerTypes] :
           (\A k \in Parts(e) : g[k] = h[k]) => F[e][g] = F[e][h]
    BY <1>2
  <2>3. "i32" \in InnerTypes
    BY DEF Types, InnerTypes
  <2> HIDE DEF F
  <2> QED
    BY <2>1, <2>2, <2>3, ExprRecursion
<1>4. h = [x \in Expr |-> B(h, x)]
  BY <1>3 DEF Obeys
<1>5. T = [x \in Expr |-> B(T, x)]
  BY <1>4, <1>a, Zenon
<1> HIDE DEF T
<1>6. ASSUME NEW e \in Expr PROVE TypeIn(env, all, e) = TypeInBody(env, all, T, e)
  BY <1>5, <1>b DEF B
<1> QED
  BY <1>6, <1>b DEF TypeInBody

AgreesBody(env, all, h, x) ==
  /\ x.kind = "var"    => env[x.name].type # "none"
  /\ x.kind = "call"   => Suited(env, all, x) /\ \A y \in Range(x.args) : h[y]
  /\ x.kind = "unary"  => h[x.rhs]
  /\ x.kind = "binary" =>
       /\ h[x.lhs] /\ h[x.rhs]
       /\ x.op \in Calculating => TypeIn(env, all, x.lhs) = TypeIn(env, all, x.rhs)

\* Whether its types agree, by its parts.
LEMMA AgreesIs ==
  ASSUME NEW env, NEW all
  PROVE  \A e \in Expr :
           /\ Agrees(env, all, e) \in BOOLEAN
           /\ e.kind = "int" => Agrees(env, all, e)
           /\ e.kind = "call" =>
                (Agrees(env, all, e) <=> /\ Suited(env, all, e)
                                         /\ \A y \in Range(e.args) : Agrees(env, all, y))
           /\ e.kind = "var" => (Agrees(env, all, e) <=> env[e.name].type # "none")
           /\ e.kind = "unary" => (Agrees(env, all, e) <=> Agrees(env, all, e.rhs))
           /\ e.kind = "binary" =>
                (Agrees(env, all, e) <=>
                   /\ Agrees(env, all, e.lhs) /\ Agrees(env, all, e.rhs)
                   /\ e.op \in Calculating => TypeIn(env, all, e.lhs) = TypeIn(env, all, e.rhs))
<1> DEFINE B(h, x) == AgreesBody(env, all, h, x)
           F == [x \in Expr |-> [h \in [Expr -> BOOLEAN] |-> B(h, x)]]
           Is(h) == h = [x \in Expr |->
        /\ x.kind = "var"    => env[x.name].type # "none"
        /\ x.kind = "call"   => Suited(env, all, x) /\ \A y \in Range(x.args) : h[y]
        /\ x.kind = "unary"  => h[x.rhs]
        /\ x.kind = "binary" =>
             /\ h[x.lhs] /\ h[x.rhs]
             /\ x.op \in Calculating => TypeIn(env, all, x.lhs) = TypeIn(env, all, x.rhs)]
           T == CHOOSE h : Is(h)
<1>1. ASSUME NEW x, NEW h PROVE B(h, x) \in BOOLEAN
  BY Zenon DEF AgreesBody
<1>2. ASSUME NEW x \in Expr, NEW g \in [Expr -> BOOLEAN], NEW h \in [Expr -> BOOLEAN],
             \A k \in Parts(x) : g[k] = h[k]
      PROVE  B(g, x) = B(h, x)
  <2>1. CASE x.kind = "unary"
    <3>1. g[x.rhs] = h[x.rhs]
      BY <1>2, <2>1 DEF Parts
    <3> QED
      BY <2>1, <3>1 DEF AgreesBody
  <2>2. CASE x.kind = "binary"
    <3>1. g[x.lhs] = h[x.lhs] /\ g[x.rhs] = h[x.rhs]
      BY <1>2, <2>2 DEF Parts
    <3> QED
      BY <2>2, <3>1 DEF AgreesBody
  <2>3. CASE x.kind = "call"
    <3>1. \A y \in Range(x.args) : g[y] = h[y]
      BY <1>2, <2>3 DEF Parts
    <3> QED
      BY <2>3, <3>1 DEF AgreesBody
  <2>4. CASE x.kind \notin {"unary", "binary", "call"}
    BY <2>4 DEF AgreesBody
  <2> QED
    BY <2>1, <2>2, <2>3, <2>4
<1>a. ASSUME NEW h PROVE Is(h) <=> h = [x \in Expr |-> B(h, x)]
  BY Zenon DEF AgreesBody
<1>b. \A e : Agrees(env, all, e) = T[e]
  BY DEF Agrees
<1> HIDE DEF B, Is
<1>3. PICK h : Obeys(h, Expr, BOOLEAN, F)
  <2>1. F \in [Expr -> [[Expr -> BOOLEAN] -> BOOLEAN]]
    BY <1>1
  <2>2. \A e \in Expr : \A g, h \in [Expr -> BOOLEAN] :
           (\A k \in Parts(e) : g[k] = h[k]) => F[e][g] = F[e][h]
    BY <1>2
  <2>3. TRUE \in BOOLEAN
    OBVIOUS
  <2> HIDE DEF F
  <2> QED
    BY <2>1, <2>2, <2>3, ExprRecursion
<1>4. h = [x \in Expr |-> B(h, x)]
  <2>1. \A x \in Expr : h[x] = B(h, x)
    BY <1>3 DEF Obeys
  <2> QED
    BY <1>3, <2>1 DEF Obeys
<1>5. T = [x \in Expr |-> B(T, x)]
  BY <1>4, <1>a, Zenon
<1> HIDE DEF T
<1>6. ASSUME NEW e \in Expr PROVE Agrees(env, all, e) = AgreesBody(env, all, T, e)
  <2>1. T[e] = B(T, e)
    BY <1>5
  <2> QED
    BY <1>b, <2>1 DEF B
<1>7. ASSUME NEW e \in Expr PROVE Agrees(env, all, e) \in BOOLEAN
  BY <1>1, <1>6 DEF B
<1> QED
  BY <1>6, <1>7, <1>b DEF AgreesBody

\* What is in an expression.
LEMMA SubexpressionsAre ==
  \A e \in Expr : /\ Subexpressions(e) = {e} \cup UNION {Subexpressions(y) : y \in Parts(e)}
                  /\ Subexpressions(e) \subseteq Expr
<1> DEFINE B(h, x) == {x} \cup UNION {h[y] : y \in Parts(x)}
           F == [x \in Expr |-> [h \in [Expr -> SUBSET Expr] |-> B(h, x)]]
           Is(h) == h = [x \in Expr |-> {x} \cup UNION {h[y] : y \in Parts(x)}]
           T == CHOOSE h : Is(h)
<1>1. ASSUME NEW x \in Expr, NEW h \in [Expr -> SUBSET Expr] PROVE B(h, x) \in SUBSET Expr
  BY ExprLooks
<1>2. ASSUME NEW x \in Expr, NEW g \in [Expr -> SUBSET Expr], NEW h \in [Expr -> SUBSET Expr],
             \A k \in Parts(x) : g[k] = h[k]
      PROVE  B(g, x) = B(h, x)
  BY <1>2
<1>a. ASSUME NEW h PROVE Is(h) <=> h = [x \in Expr |-> B(h, x)]
  BY Zenon
<1>b. \A e : Subexpressions(e) = T[e]
  BY DEF Subexpressions
<1>c. ASSUME NEW h, NEW x PROVE B(h, x) = {x} \cup UNION {h[y] : y \in Parts(x)}
  OBVIOUS
<1> HIDE DEF B, Is
<1>3. PICK h : Obeys(h, Expr, SUBSET Expr, F)
  <2>1. F \in [Expr -> [[Expr -> SUBSET Expr] -> SUBSET Expr]]
    BY <1>1
  <2>2. \A e \in Expr : \A g, h \in [Expr -> SUBSET Expr] :
           (\A k \in Parts(e) : g[k] = h[k]) => F[e][g] = F[e][h]
    BY <1>2
  <2>3. {} \in SUBSET Expr
    OBVIOUS
  <2> HIDE DEF F
  <2> QED
    BY <2>1, <2>2, <2>3, ExprRecursion
<1>4. h = [x \in Expr |-> B(h, x)]
  BY <1>3 DEF Obeys
<1>5. T = [x \in Expr |-> B(T, x)]
  BY <1>4, <1>a, Zenon
<1> HIDE DEF T
<1>6. ASSUME NEW e \in Expr PROVE Subexpressions(e) = {e} \cup UNION {T[y] : y \in Parts(e)}
  BY <1>5, <1>b, <1>c
<1>7. ASSUME NEW e \in Expr PROVE Subexpressions(e) = {e} \cup UNION {Subexpressions(y) : y \in Parts(e)}
  <2>1. {T[y] : y \in Parts(e)} = {Subexpressions(y) : y \in Parts(e)}
    BY <1>b
  <2> QED
    BY <1>6, <2>1
<1> DEFINE P == {x \in Expr : Subexpressions(x) \subseteq Expr}
<1>8. ASSUME NEW e \in Expr, Parts(e) \subseteq P PROVE e \in P
  BY <1>7, <1>8
<1> HIDE DEF P
<1>9. Expr \subseteq P
  BY <1>8, ExprInduction
<1> QED
  BY <1>7, <1>9 DEF P

\* The names in an expression are those in its parts.
LEMMA NamesAre ==
  ASSUME NEW e \in Expr
  PROVE  /\ NamesIn(e) \subseteq Idents
         /\ e.kind = "var" => e.name \in NamesIn(e)
         /\ \A y \in Parts(e) : NamesIn(y) \subseteq NamesIn(e)
<1>1. Subexpressions(e) \subseteq Expr /\ e \in Subexpressions(e)
        /\ \A y \in Parts(e) : Subexpressions(y) \subseteq Subexpressions(e)
  BY SubexpressionsAre
<1>2. ASSUME NEW x \in Expr, x.kind = "var" PROVE x.name \in Idents
  BY <1>2, ExprLooks DEF Looks
<1> QED
  BY <1>1, <1>2 DEF NamesIn

-----------------------------------------------------------------------------
(* Tables and scopes.                                                      *)

\* For every name that is in scope the table has the type of its declaration.
Match(vars, env) ==
  \A name \in Idents : env[name].type # "none" => Vget(vars, name) = env[name].type

\* What an expression calls returns i32; and is given what it should be given.
OnlyI32(e, all) == \A x \in Subexpressions(e) : x.kind = "call" => Returned(x.name, all) = "i32"

WellGiven(env, all, e) ==
  \A x \in Subexpressions(e) : x.kind = "call" =>
    Suited(env, all, x) /\ \A y \in Range(x.args) : Agrees(env, all, y)

\* With such a table the check says of an expression what its scope says.
LEMMA ExprScoped ==
  ASSUME NEW vars \in Seq(Variable), NEW env \in Environment, Match(vars, env),
         NEW all \in SUBSET Function(Expr)
  PROVE  \A e \in Expr : OnlyI32(e, all) =>
           /\ Agrees(env, all, e) => /\ Faultless(vars, e) /\ TypeOf(vars, e) = TypeIn(env, all, e)
           /\ (\A name \in NamesIn(e) : env[name].type # "none") /\ WellGiven(env, all, e) /\ Faultless(vars, e)
                => Agrees(env, all, e)
<1> DEFINE Good(e) == OnlyI32(e, all) =>
             /\ Agrees(env, all, e) => Faultless(vars, e) /\ TypeOf(vars, e) = TypeIn(env, all, e)
             /\ (\A name \in NamesIn(e) : env[name].type # "none") /\ WellGiven(env, all, e) /\ Faultless(vars, e)
                  => Agrees(env, all, e)
           P == {e \in Expr : Good(e)}
<1>1. ASSUME NEW e \in Expr, Parts(e) \subseteq P PROVE Good(e)
  <2> SUFFICES ASSUME OnlyI32(e, all)
               PROVE  /\ Agrees(env, all, e) => /\ Faultless(vars, e)
                                                /\ TypeOf(vars, e) = TypeIn(env, all, e)
                      /\ (\A name \in NamesIn(e) : env[name].type # "none")
                           /\ WellGiven(env, all, e) /\ Faultless(vars, e) => Agrees(env, all, e)
    OBVIOUS
  <2>a. /\ e \in Subexpressions(e)
        /\ \A y \in Parts(e) : Subexpressions(y) \subseteq Subexpressions(e)
    BY SubexpressionsAre
  <2>b. \A y \in Parts(e) : OnlyI32(y, all) /\ (WellGiven(env, all, e) => WellGiven(env, all, y))
    BY <2>a DEF OnlyI32, WellGiven
  <2>0. Looks(e, Expr) /\ \A y \in Parts(e) : Good(y) /\ NamesIn(y) \subseteq NamesIn(e)
    BY <1>1, ExprLooks, NamesAre
  <2>1. CASE e.kind = "int"
    BY <2>1, TypeOfIs, TypeInIs, FaultlessIs, AgreesIs
  <2>5. CASE e.kind = "call"
    <3>1. Returned(e.name, all) = "i32"
      BY <2>5, <2>a DEF OnlyI32
    <3>2. /\ Faultless(vars, e) /\ TypeOf(vars, e) = "i32"
          /\ TypeIn(env, all, e) = Returned(e.name, all)
      BY <2>5, TypeOfIs, TypeInIs, FaultlessIs
    <3>3. WellGiven(env, all, e) => Agrees(env, all, e)
      BY <2>5, <2>a, AgreesIs DEF WellGiven
    <3> QED
      BY <3>1, <3>2, <3>3
  <2>2. CASE e.kind = "var"
    <3>1. e.name \in Idents /\ e.name \in NamesIn(e)
      BY <2>0, <2>2, NamesAre DEF Looks
    <3>2. /\ Agrees(env, all, e) <=> env[e.name].type # "none"
          /\ Faultless(vars, e) <=> Vget(vars, e.name) # "none"
          /\ TypeIn(env, all, e) = env[e.name].type
      BY <2>2, TypeInIs, FaultlessIs, AgreesIs
    <3>3. env[e.name].type # "none" => Vget(vars, e.name) = env[e.name].type
      BY <3>1 DEF Match
    <3>4. TypeOf(vars, e) = IF Vget(vars, e.name) = "none" THEN "i32" ELSE Vget(vars, e.name)
      BY <2>2, TypeOfIs
    <3> QED
      BY <3>1, <3>2, <3>3, <3>4
  <2>3. CASE e.kind = "unary"
    <3>1. e.rhs \in Parts(e) /\ e.rhs \in Expr
      BY <2>0, <2>3 DEF Parts, Looks
    <3>2. /\ Good(e.rhs) /\ NamesIn(e.rhs) \subseteq NamesIn(e)
          /\ OnlyI32(e.rhs, all) /\ (WellGiven(env, all, e) => WellGiven(env, all, e.rhs))
      BY <2>0, <2>b, <3>1
    <3>3. /\ Agrees(env, all, e) <=> Agrees(env, all, e.rhs)
          /\ Faultless(vars, e) <=> Faultless(vars, e.rhs)
          /\ TypeIn(env, all, e) = TypeIn(env, all, e.rhs)
          /\ TypeOf(vars, e) = TypeOf(vars, e.rhs)
      BY <2>3, TypeInIs, TypeOfIs, FaultlessIs, AgreesIs
    <3> QED
      BY <3>2, <3>3
  <2>4. CASE e.kind = "binary"
    <3>1. e.lhs \in Parts(e) /\ e.rhs \in Parts(e) /\ e.lhs \in Expr /\ e.rhs \in Expr
      BY <2>0, <2>4 DEF Parts, Looks
    <3>2. /\ Good(e.lhs) /\ NamesIn(e.lhs) \subseteq NamesIn(e)
          /\ Good(e.rhs) /\ NamesIn(e.rhs) \subseteq NamesIn(e)
          /\ OnlyI32(e.lhs, all) /\ (WellGiven(env, all, e) => WellGiven(env, all, e.lhs))
          /\ OnlyI32(e.rhs, all) /\ (WellGiven(env, all, e) => WellGiven(env, all, e.rhs))
      BY <2>0, <2>b, <3>1
    <3>3. e.op \in Comparing <=> e.op \notin Calculating
      BY <2>0, <2>4 DEF Looks, Operators, Comparing, Calculating
    <3>4. Agrees(env, all, e) <=>
            /\ Agrees(env, all, e.lhs) /\ Agrees(env, all, e.rhs)
            /\ e.op \in Calculating => TypeIn(env, all, e.lhs) = TypeIn(env, all, e.rhs)
      BY <2>4, AgreesIs
    <3>5. Faultless(vars, e) <=>
            /\ Faultless(vars, e.lhs) /\ Faultless(vars, e.rhs)
            /\ e.op \in Comparing \/ TypeOf(vars, e.lhs) = TypeOf(vars, e.rhs)
      BY <2>4, FaultlessIs
    <3>6. /\ TypeIn(env, all, e) = IF e.op \in Calculating THEN TypeIn(env, all, e.lhs) ELSE "i32"
          /\ TypeOf(vars, e) = IF e.op \in Calculating THEN TypeOf(vars, e.lhs) ELSE "i32"
      BY <2>4, TypeInIs, TypeOfIs
    <3> HIDE DEF Good
    <3>9. \A y \in {e.lhs, e.rhs} :
             /\ Agrees(env, all, y) => Faultless(vars, y) /\ TypeOf(vars, y) = TypeIn(env, all, y)
             /\ (\A name \in NamesIn(y) : env[name].type # "none") /\ WellGiven(env, all, y)
                  /\ Faultless(vars, y) => Agrees(env, all, y)
      BY <3>2, Zenon DEF Good
    <3>7. Agrees(env, all, e) => Faultless(vars, e) /\ TypeOf(vars, e) = TypeIn(env, all, e)
      BY <3>3, <3>4, <3>5, <3>6, <3>9
    <3>8. (\A name \in NamesIn(e) : env[name].type # "none") /\ WellGiven(env, all, e)
             /\ Faultless(vars, e) => Agrees(env, all, e)
      BY <3>2, <3>3, <3>4, <3>5, <3>6, <3>9
    <3> QED
      BY <3>7, <3>8 DEF Good
  <2> QED
    BY <2>0, <2>1, <2>2, <2>3, <2>4, <2>5 DEF Looks
<1> HIDE DEF Good
<1>2. Expr \subseteq P
  <2>1. \A e \in Expr : Parts(e) \subseteq P => e \in P
    BY <1>1
  <2> HIDE DEF P
  <2> QED
    BY <2>1, ExprInduction
<1> QED
  BY <1>2 DEF Good

-----------------------------------------------------------------------------
(* Lists of statements.                                                    *)

\* The lists in a statement.
Inner(s) ==
  CASE s.kind = "while" -> {<<>>, s.body}
    [] s.kind = "if"    -> {<<>>, s.body, s.else, s.body \o s.else}
    [] OTHER            -> {<<>>}

\* What a statement over some lists looks like.
LooksStmt(s, E, blocks) ==
  \/ s.kind = "let" /\ s.name \in Idents /\ s.type \in Types /\ s.init \in E
       /\ s = Let(s.name, s.type, s.init)
  \/ s.kind = "assign" /\ s.name \in Idents /\ s.value \in E /\ s = Assign(s.name, s.value)
  \/ s.kind = "return" /\ s.value \in E /\ s = Return(s.value)
  \/ s.kind = "expr" /\ s.value \in E /\ s = CallStmt(s.value)
  \/ s.kind = "while" /\ s.cond \in E /\ s.body \in blocks /\ s = While(s.cond, s.body)
  \/ s.kind = "if" /\ s.cond \in E /\ s.body \in blocks /\ s.hasElse \in BOOLEAN /\ s.else \in blocks
       /\ (~s.hasElse => s.else = <<>>) /\ s = If(s.cond, s.body, s.hasElse, s.else)

\* A statement over some statements looks like one.
LEMMA NodesLookStmt ==
  ASSUME NEW E, NEW below, NEW s \in StmtNodes(E, below)
  PROVE  LooksStmt(s, E, Seq(below))
<1>1. CASE s \in [kind : {"let"}, name : Idents, type : Types, init : E]
  BY <1>1 DEF LooksStmt, Let
<1>2. CASE s \in [kind : {"assign"}, name : Idents, value : E]
  BY <1>2 DEF LooksStmt, Assign
<1>3. CASE s \in [kind : {"return", "expr"}, value : E]
  BY <1>3 DEF LooksStmt, Return, CallStmt
<1>4. CASE s \in [kind : {"while"}, cond : E, body : Seq(below)]
  BY <1>4 DEF LooksStmt, While
<1>5. CASE s \in [kind : {"if"}, cond : E, body : Seq(below), hasElse : {TRUE}, else : Seq(below)]
  BY <1>5 DEF LooksStmt, If
<1>6. CASE s \in [kind : {"if"}, cond : E, body : Seq(below), hasElse : {FALSE}, else : {<<>>}]
  <2>1. <<>> \in Seq(below)
    OBVIOUS
  <2> QED
    BY <1>6, <2>1 DEF LooksStmt, If
<1> QED
  BY <1>1, <1>2, <1>3, <1>4, <1>5, <1>6 DEF StmtNodes

\* What looks like such a statement is one.
LEMMA LooksOfStmtNodes ==
  ASSUME NEW E, NEW below, NEW s, LooksStmt(s, E, Seq(below))
  PROVE  s \in StmtNodes(E, below)
<1>1. CASE s.kind = "let" /\ s.name \in Idents /\ s.type \in Types /\ s.init \in E
             /\ s = Let(s.name, s.type, s.init)
  BY <1>1 DEF Let, StmtNodes
<1>2. CASE s.kind = "assign" /\ s.name \in Idents /\ s.value \in E /\ s = Assign(s.name, s.value)
  BY <1>2 DEF Assign, StmtNodes
<1>3. CASE s.kind = "return" /\ s.value \in E /\ s = Return(s.value)
  BY <1>3 DEF Return, StmtNodes
<1>4. CASE s.kind = "expr" /\ s.value \in E /\ s = CallStmt(s.value)
  BY <1>4 DEF CallStmt, StmtNodes
<1>5. CASE s.kind = "while" /\ s.cond \in E /\ s.body \in Seq(below) /\ s = While(s.cond, s.body)
  BY <1>5 DEF While, StmtNodes
<1>6. CASE s.kind = "if" /\ s.cond \in E /\ s.body \in Seq(below) /\ s.hasElse \in BOOLEAN
             /\ s.else \in Seq(below) /\ (~s.hasElse => s.else = <<>>)
             /\ s = If(s.cond, s.body, s.hasElse, s.else)
  <2>1. CASE s.hasElse = TRUE
    <3>1. s = If(s.cond, s.body, TRUE, s.else)
      BY <1>6, <2>1, Zenon
    <3>a. ASSUME NEW c \in E, NEW u \in Seq(below), NEW v \in Seq(below)
          PROVE  If(c, u, TRUE, v) \in [kind : {"if"}, cond : E, body : Seq(below),
                                       hasElse : {TRUE}, else : Seq(below)]
      BY DEF If
    <3> DEFINE t == If(s.cond, s.body, TRUE, s.else)
    <3>b. t \in [kind : {"if"}, cond : E, body : Seq(below), hasElse : {TRUE}, else : Seq(below)]
      BY <1>6, <3>a
    <3>c. s = t
      BY <3>1
    <3> HIDE DEF t
    <3>2. s \in [kind : {"if"}, cond : E, body : Seq(below), hasElse : {TRUE}, else : Seq(below)]
      BY <3>b, <3>c, Zenon
    <3> QED
      BY <3>2 DEF StmtNodes
  <2>2. CASE s.hasElse = FALSE
    <3>1. s = If(s.cond, s.body, FALSE, <<>>)
      BY <1>6, <2>2, Zenon
    <3>a. ASSUME NEW c \in E, NEW u \in Seq(below)
          PROVE  If(c, u, FALSE, <<>>) \in [kind : {"if"}, cond : E, body : Seq(below),
                                           hasElse : {FALSE}, else : {<<>>}]
      BY DEF If
    <3> DEFINE t == If(s.cond, s.body, FALSE, <<>>)
    <3>b. t \in [kind : {"if"}, cond : E, body : Seq(below), hasElse : {FALSE}, else : {<<>>}]
      BY <1>6, <3>a
    <3>c. s = t
      BY <3>1
    <3> HIDE DEF t
    <3>2. s \in [kind : {"if"}, cond : E, body : Seq(below), hasElse : {FALSE}, else : {<<>>}]
      BY <3>b, <3>c, Zenon
    <3> QED
      BY <3>2 DEF StmtNodes
  <2> QED
    BY <1>6, <2>1, <2>2
<1> QED
  BY <1>1, <1>2, <1>3, <1>4, <1>5, <1>6, Zenon DEF LooksStmt

\* Sequences over more.
LEMMA SeqGrows ==
  ASSUME NEW S, NEW T, S \subseteq T
  PROVE  Seq(S) \subseteq Seq(T)
<1>1. ASSUME NEW s \in Seq(S) PROVE s \in Seq(T)
  <2>1. Len(s) \in Nat /\ s \in [1 .. Len(s) -> S] /\ \A i \in 1 .. Len(s) : s[i] \in T
    OBVIOUS
  <2>2. s \in [1 .. Len(s) -> T]
    BY <2>1
  <2> QED
    BY <2>1, <2>2
<1> QED
  BY <1>1

\* Statements over more statements.
LEMMA StmtNodesGrow ==
  ASSUME NEW E, NEW S, NEW T, S \subseteq T
  PROVE  StmtNodes(E, S) \subseteq StmtNodes(E, T)
<1>1. Seq(S) \subseteq Seq(T)
  BY SeqGrows
<1>2. ASSUME NEW s \in StmtNodes(E, S) PROVE s \in StmtNodes(E, T)
  <2>1. LooksStmt(s, E, Seq(S))
    BY NodesLookStmt
  <2>2. LooksStmt(s, E, Seq(T))
    BY <1>1, <2>1 DEF LooksStmt
  <2> QED
    BY <2>2, LooksOfStmtNodes
<1> QED
  BY <1>2

\* Each level of statements contains the one below.
LEMMA LevelsGrow ==
  ASSUME NEW E, NEW S, LevelsOf(E, S), NEW n \in Nat
  PROVE  Lower(S, n) \subseteq S[n]
<1> DEFINE P == {m \in 0 .. n : Lower(S, m) \subseteq S[m]}
<1>1. 0 \in P
  BY DEF Lower
<1>2. ASSUME NEW m \in 1 .. n, m - 1 \in P
      PROVE  m \in P
  <2>1. m \in Nat /\ m - 1 \in Nat /\ Lower(S, m) = S[m - 1]
    BY DEF Lower
  <2>2. S[m] = StmtNodes(E, S[m - 1]) /\ S[m - 1] = StmtNodes(E, Lower(S, m - 1))
    BY <2>1 DEF LevelsOf
  <2>3. Lower(S, m - 1) \subseteq S[m - 1]
    BY <1>2
  <2>4. StmtNodes(E, Lower(S, m - 1)) \subseteq StmtNodes(E, S[m - 1])
    BY <2>3, StmtNodesGrow
  <2> QED
    BY <2>1, <2>2, <2>4
<1> HIDE DEF P
<1>3. n \in P
  BY <1>1, <1>2, UpTo
<1> QED
  BY <1>3 DEF P

\* Levels of statements contain all lower ones.
LEMMA LevelsLow ==
  ASSUME NEW E, NEW S, LevelsOf(E, S), NEW n \in Nat, NEW m \in 0 .. n
  PROVE  S[m] \subseteq S[n]
<1> DEFINE P == {k \in 0 .. n : m <= k => S[m] \subseteq S[k]}
<1>1. 0 \in P
  <2>1. m <= 0 => m = 0
    OBVIOUS
  <2> QED
    BY <2>1
<1>2. ASSUME NEW k \in 1 .. n, k - 1 \in P
      PROVE  k \in P
  <2>0. Lower(S, k) \subseteq S[k]
    BY LevelsGrow, k \in Nat
  <2>1. S[k - 1] \subseteq S[k]
    BY <2>0 DEF Lower
  <2>2. m <= k => m = k \/ m <= k - 1
    OBVIOUS
  <2> QED
    BY <1>2, <2>1, <2>2
<1> HIDE DEF P
<1>3. n \in P
  BY <1>1, <1>2, UpTo
<1> QED
  BY <1>3 DEF P

\* A statement looks like one, and its lists are lists of statements.
LEMMA StmtLooks ==
  ASSUME NEW E, E # {}, NEW s \in Stmts(E)
  PROVE  LooksStmt(s, E, Block(E)) /\ Inner(s) \subseteq Block(E)
<1>1. PICK S : LevelsOf(E, S) /\ Stmts(E) = S[Height]
  BY StmtsAre
<1>2. Height \in Nat
  BY TreesAssumption
<1>3. s \in StmtNodes(E, Lower(S, Height))
  BY <1>1, <1>2 DEF LevelsOf
<1>4. Lower(S, Height) \subseteq Stmts(E)
  BY <1>1, <1>2, LevelsGrow
<1>5. StmtNodes(E, Lower(S, Height)) \subseteq StmtNodes(E, Stmts(E))
  BY <1>4, StmtNodesGrow
<1>6. LooksStmt(s, E, Block(E))
  BY <1>3, <1>5, NodesLookStmt DEF Block
<1>7. \A u, v \in Block(E) : u \o v \in Block(E) /\ <<>> \in Block(E)
  BY DEF Block
<1>8. <<>> \in Block(E)
  BY DEF Block
<1> QED
  BY <1>6, <1>7, <1>8 DEF Inner, LooksStmt

\* Lists have ranks: what is in a list has a lower one.
LEMMA BlockRanks ==
  ASSUME NEW E, E # {}
  PROVE  \E r \in [Block(E) -> Nat] :
           \A list \in Block(E) : \A i \in DOMAIN list : \A b \in Inner(list[i]) :
             b \in Block(E) /\ r[b] < r[list]
<1>1. PICK S : LevelsOf(E, S) /\ Stmts(E) = S[Height]
  BY StmtsAre
<1>0. Height \in Nat
  BY TreesAssumption
<1> DEFINE Is(list) == {n \in 0 .. Height : list \in Seq(S[n])}
           Least(list) == CHOOSE n \in Is(list) : \A m \in Is(list) : n <= m
           r == [list \in Block(E) |-> IF list = <<>> THEN 0 ELSE Least(list) + 1]
<1>2. ASSUME NEW list \in Block(E)
      PROVE  Least(list) \in 0 .. Height /\ list \in Seq(S[Least(list)])
               /\ \A m \in Is(list) : Least(list) <= m
  <2>1. Height \in Is(list) /\ Is(list) \in SUBSET Nat
    BY <1>0, <1>1 DEF Block
  <2>2. \E n \in Is(list) : \A m \in Is(list) : n <= m
    <3> HIDE DEF Is
    <3> QED
      BY <2>1, LeastNumber
  <2>3. Least(list) \in Is(list) /\ \A m \in Is(list) : Least(list) <= m
    BY <2>2
  <2> QED
    BY <2>3
<1> HIDE DEF Least
<1>3. r \in [Block(E) -> Nat]
  <2>1. \A list \in Block(E) : Least(list) + 1 \in Nat
    BY <1>0, <1>2
  <2> QED
    BY <2>1
<1>4. ASSUME NEW list \in Block(E), NEW i \in DOMAIN list, NEW b \in Inner(list[i])
      PROVE  b \in Block(E) /\ r[b] < r[list]
  <2> DEFINE n == Least(list)
             s == list[i]
  <2>1. n \in 0 .. Height /\ list \in Seq(S[n])
    BY <1>2
  <2>2. list # <<>> /\ s \in S[n]
    BY <2>1
  <2>3. r[list] = n + 1
    BY <2>2
  <2> HIDE DEF n, s
  <2>4. LooksStmt(s, E, Seq(Lower(S, n)))
    <3>1. n \in Nat
      BY <2>1
    <3>2. S[n] = StmtNodes(E, Lower(S, n))
      BY <1>1, <3>1 DEF LevelsOf
    <3> QED
      BY <2>2, <3>2, NodesLookStmt
  <2>5. b \in Seq(Lower(S, n))
    <3>1. <<>> \in Seq(Lower(S, n)) /\ \A u, v \in Seq(Lower(S, n)) : u \o v \in Seq(Lower(S, n))
      OBVIOUS
    <3>2. b \in Inner(s)
      BY DEF s
    <3> QED
      BY <2>4, <3>1, <3>2 DEF Inner, LooksStmt
  <2>6. CASE b = <<>>
    <3>1. b \in Block(E) /\ r[b] = 0
      BY <2>6 DEF Block
    <3> QED
      BY <2>1, <2>3, <3>1
  <2>7. CASE b # <<>>
    <3>1. n # 0 /\ b \in Seq(S[n - 1])
      <4>1. n # 0
        <5>1. n = 0 => Lower(S, n) = {}
          BY DEF Lower
        <5>2. \A u \in Seq({}) : u = <<>>
          OBVIOUS
        <5> QED
          BY <2>5, <2>7, <5>1, <5>2
      <4> QED
        BY <2>5, <4>1 DEF Lower
    <3>2. n - 1 \in 0 .. Height
      BY <1>0, <2>1, <3>1
    <3>3. b \in Block(E)
      <4>1. S[n - 1] \subseteq S[Height]
        BY <1>0, <1>1, <3>2, LevelsLow
      <4>2. Seq(S[n - 1]) \subseteq Seq(S[Height])
        BY <4>1, SeqGrows
      <4> QED
        BY <1>1, <3>1, <4>2 DEF Block
    <3>4. Least(b) <= n - 1 /\ Least(b) \in Nat
      BY <1>0, <1>2, <3>1, <3>2, <3>3
    <3>5. r[b] = Least(b) + 1
      BY <2>7, <3>3
    <3> QED
      BY <2>1, <2>3, <3>3, <3>4, <3>5
  <2> QED
    BY <2>6, <2>7
<1> QED
  <2>1. \A list \in Block(E) : \A i \in DOMAIN list : \A b \in Inner(list[i]) :
             b \in Block(E) /\ r[b] < r[list]
    BY <1>4
  <2> HIDE DEF r
  <2> QED
    BY <1>3, <2>1

\* Induction over lists of statements.
LEMMA BlockInduction ==
  ASSUME NEW E, E # {}, NEW P,
         \A list \in Block(E) : (\A i \in DOMAIN list : Inner(list[i]) \subseteq P) => list \in P
  PROVE  Block(E) \subseteq P
<1>1. PICK r \in [Block(E) -> Nat] :
        \A list \in Block(E) : \A i \in DOMAIN list : \A b \in Inner(list[i]) :
             b \in Block(E) /\ r[b] < r[list]
  BY BlockRanks
<1> DEFINE bad == {list \in Block(E) : list \notin P}
           ranks == {r[list] : list \in bad}
<1>2. CASE bad # {}
  <2>1. ranks \in SUBSET Nat /\ ranks # {}
    BY <1>2
  <2>2. PICK m \in ranks : \A q \in ranks : m <= q
    <3> HIDE DEF ranks
    <3> QED
      BY <2>1, LeastNumber, Zenon
  <2>3. PICK list \in bad : m = r[list]
    BY <2>2
  <2>4. ASSUME NEW i \in DOMAIN list, NEW b \in Inner(list[i]) PROVE b \in P
    <3>1. b \in Block(E) /\ r[b] < r[list] /\ r[b] \in Nat /\ r[list] \in Nat
      BY <1>1, <2>3, <2>4
    <3>2. b \in bad => r[list] <= r[b]
      BY <2>2, <2>3
    <3> QED
      BY <3>1, <3>2
  <2> QED
    BY <2>3, <2>4
<1> QED
  BY <1>2

\* A function over lists of statements may be defined by recursion.
LEMMA BlockRecursion ==
  ASSUME NEW E, E # {}, NEW A, NEW a \in A, NEW F \in [Block(E) -> [[Block(E) -> A] -> A]],
         \A list \in Block(E) : \A g, h \in [Block(E) -> A] :
           (\A i \in DOMAIN list : \A b \in Inner(list[i]) : g[b] = h[b]) => F[list][g] = F[list][h]
  PROVE  \E h : Obeys(h, Block(E), A, F)
<1>1. PICK r \in [Block(E) -> Nat] :
        \A list \in Block(E) : \A i \in DOMAIN list : \A b \in Inner(list[i]) :
             b \in Block(E) /\ r[b] < r[list]
  BY BlockRanks
<1>2. LooksBelow(F, Block(E), A, r)
  <2>1. ASSUME NEW list \in Block(E), NEW g \in [Block(E) -> A], NEW h \in [Block(E) -> A],
               \A c \in Block(E) : r[c] < r[list] => g[c] = h[c]
        PROVE  F[list][g] = F[list][h]
    BY <1>1, <2>1
  <2> QED
    BY <2>1 DEF LooksBelow
<1> QED
  BY <1>2, RankRecursion

\* There is an expression.
LEMMA SomeExpr == Expr # {} /\ Var("i32") \in Expr
<1>1. Looks(Var("i32"), {})
  BY DEF Looks, Var, Idents, Types
<1>2. Height \in Nat
  BY TreesAssumption
<1>3. Looks(Var("i32"), Lower(Exprs, Height))
  BY DEF Looks, Var, Idents, Types
<1> QED
  BY <1>2, <1>3, LooksOfNodes, ExprsAre DEF Expr

\* What is in a statement of a list is a list.
LEMMA InnerBlocks ==
  ASSUME NEW list \in Block(Expr), NEW i \in DOMAIN list
  PROVE  /\ list[i] \in Stmts(Expr) /\ LooksStmt(list[i], Expr, Block(Expr))
         /\ Inner(list[i]) \subseteq Block(Expr)
         /\ Within(list[i]) \in Inner(list[i])
         /\ \A n \in DOMAIN Blocks(list[i]) : Blocks(list[i])[n] \in Inner(list[i])
<1> DEFINE s == list[i]
<1>1. s \in Stmts(Expr)
  BY DEF Block
<1> HIDE DEF s
<1>2. LooksStmt(s, Expr, Block(Expr)) /\ Inner(s) \subseteq Block(Expr)
  BY <1>1, SomeExpr, StmtLooks
<1>3. Within(s) \in Inner(s)
  BY <1>2 DEF Within, Inner, Branches
<1>4. ASSUME NEW n \in DOMAIN Blocks(s) PROVE Blocks(s)[n] \in Inner(s)
  <2>1. CASE s.kind = "while"
    <3>1. Blocks(s) = <<s.body>> /\ s.body \in Inner(s)
      BY <2>1 DEF Blocks, Inner
    <3> QED
      BY <3>1
  <2>2. CASE s.kind = "if"
    <3>1. Blocks(s) = <<s.body, s.else>> /\ s.body \in Inner(s) /\ s.else \in Inner(s)
      BY <2>2 DEF Blocks, Inner
    <3> QED
      BY <3>1
  <2>3. CASE s.kind # "while" /\ s.kind # "if"
    <3>1. Blocks(s) = <<>>
      BY <2>3 DEF Blocks
    <3> QED
      BY <3>1
  <2> QED
    BY <2>1, <2>2, <2>3
<1> QED
  BY <1>1, <1>2, <1>3, <1>4 DEF s

\* What a statement adds to the table.
StmtLets(h, s) == IF s.kind = "let" THEN <<Param(s.name, s.type)>> ELSE h[Within(s)]

LetsOf(s) == IF s.kind = "let" THEN <<Param(s.name, s.type)>> ELSE Lets(Within(s))

\* What a list adds to the table: what its statements add.
LEMMA LetsIs ==
  \A list \in Block(Expr) :
    /\ Lets(list) \in Seq(Variable)
    /\ [i \in DOMAIN list |-> LetsOf(list[i])] \in Seq(Seq(Variable))
    /\ Lets(list) = FlattenSeq([i \in DOMAIN list |-> LetsOf(list[i])])
<1> DEFINE D == Block(Expr)
           A == Seq(Variable)
           B(h, x) == FlattenSeq([i \in DOMAIN x |-> StmtLets(h, x[i])])
           F == [x \in D |-> [h \in [D -> A] |-> B(h, x)]]
           Is(h) == h = [block \in Block(Expr) |->
        FlattenSeq([i \in DOMAIN block |->
          IF block[i].kind = "let" THEN <<Param(block[i].name, block[i].type)>>
          ELSE h[Within(block[i])]])]
           T == CHOOSE h : Is(h)
<1>0. ASSUME NEW x \in D, NEW i \in DOMAIN x, NEW h, h[Within(x[i])] \in A PROVE StmtLets(h, x[i]) \in A
  <2>1. CASE x[i].kind = "let"
    <3>1. Param(x[i].name, x[i].type) \in Variable
      BY <2>1, InnerBlocks DEF LooksStmt, Param, Variable
    <3> QED
      BY <2>1, <3>1 DEF StmtLets
  <2>2. CASE x[i].kind # "let"
    BY <1>0, <2>2 DEF StmtLets
  <2> QED
    BY <2>1, <2>2
<1>c. ASSUME NEW x \in D, NEW h, \A i \in DOMAIN x : h[Within(x[i])] \in A
      PROVE  [i \in DOMAIN x |-> StmtLets(h, x[i])] \in Seq(A) /\ B(h, x) \in A
  <2> DEFINE f == [i \in DOMAIN x |-> StmtLets(h, x[i])]
  <2>1. DOMAIN x = 1 .. Len(x) /\ Len(x) \in Nat
    BY DEF Block
  <2>2. \A i \in DOMAIN x : StmtLets(h, x[i]) \in A
    BY <1>0, <1>c
  <2>3. f \in Seq(A)
    <3> HIDE DEF A, D
    <3>1. f \in [1 .. Len(x) -> A]
      BY <2>1, <2>2
    <3> QED
      BY <2>1, <3>1
  <2> HIDE DEF f
  <2> QED
    BY <2>3, FlattenHolds DEF f
<1>1. ASSUME NEW x \in D, NEW h \in [D -> A] PROVE B(h, x) \in A
  <2>1. \A i \in DOMAIN x : Within(x[i]) \in D
    BY InnerBlocks
  <2> QED
    BY <1>c, <2>1
<1>2. ASSUME NEW x \in D, NEW g \in [D -> A], NEW h \in [D -> A],
             \A i \in DOMAIN x : \A b \in Inner(x[i]) : g[b] = h[b]
      PROVE  B(g, x) = B(h, x)
  <2>1. \A i \in DOMAIN x : StmtLets(g, x[i]) = StmtLets(h, x[i])
    BY <1>2, InnerBlocks DEF StmtLets
  <2>2. [i \in DOMAIN x |-> StmtLets(g, x[i])] = [i \in DOMAIN x |-> StmtLets(h, x[i])]
    BY <2>1
  <2> QED
    BY <2>2, Zenon
<1>a. ASSUME NEW h PROVE Is(h) <=> h = [x \in D |-> B(h, x)]
  BY Zenon DEF StmtLets
<1>b. \A e : Lets(e) = T[e]
  BY DEF Lets
<1>d. ASSUME NEW h, NEW x PROVE B(h, x) = FlattenSeq([i \in DOMAIN x |-> StmtLets(h, x[i])])
  OBVIOUS
<1> HIDE DEF B, Is
<1>3. PICK h : Obeys(h, D, A, F)
  <2>1. F \in [D -> [[D -> A] -> A]]
    BY <1>1
  <2>2. \A e \in D : \A g, h \in [D -> A] :
           (\A i \in DOMAIN e : \A b \in Inner(e[i]) : g[b] = h[b]) => F[e][g] = F[e][h]
    <3> HIDE DEF D, A
    <3> QED
      BY <1>2
  <2>3. <<>> \in A
    OBVIOUS
  <2> HIDE DEF F, A
  <2> QED
    BY <2>1, <2>2, <2>3, BlockRecursion, SomeExpr
<1> HIDE DEF A
<1>4. h = [x \in D |-> B(h, x)]
  BY <1>3 DEF Obeys
<1>5. T = [x \in D |-> B(T, x)]
  BY <1>4, <1>a, Zenon
<1> HIDE DEF T
<1>6. ASSUME NEW x \in D PROVE T[x] = FlattenSeq([i \in DOMAIN x |-> StmtLets(T, x[i])])
  BY <1>5, <1>d
<1>7. \A i, x : StmtLets(T, x[i]) = LetsOf(x[i])
  BY <1>b DEF StmtLets, LetsOf
<1>8. ASSUME NEW x \in D PROVE T[x] \in A
  <2> DEFINE P == {y \in D : T[y] \in A}
  <2>1. ASSUME NEW y \in D, \A i \in DOMAIN y : Inner(y[i]) \subseteq P PROVE y \in P
    <3>1. \A i \in DOMAIN y : T[Within(y[i])] \in A
      BY <2>1, InnerBlocks
    <3> QED
      BY <1>c, <1>6, <1>d, <3>1
  <2> HIDE DEF P
  <2>2. D \subseteq P
    BY <2>1, BlockInduction, SomeExpr
  <2> QED
    BY <2>2 DEF P
<1>9. ASSUME NEW x \in D PROVE [i \in DOMAIN x |-> StmtLets(T, x[i])] \in Seq(A)
  <2>1. \A i \in DOMAIN x : T[Within(x[i])] \in A
    BY <1>8, InnerBlocks
  <2> QED
    BY <1>c, <2>1
<1>10. ASSUME NEW x \in D
       PROVE  [i \in DOMAIN x |-> StmtLets(T, x[i])] = [i \in DOMAIN x |-> LetsOf(x[i])]
  BY <1>7
<1> QED
  BY <1>6, <1>8, <1>9, <1>10, <1>b DEF A

\* The table before a statement of a list.
LEMMA TableIs ==
  ASSUME NEW vars \in Seq(Variable), NEW list \in Block(Expr), NEW i \in 1 .. Len(list) + 1
  PROVE  /\ SubSeq(list, 1, i - 1) \in Block(Expr)
         /\ TableAt(vars, list, i) \in Seq(Variable)
<1>1. SubSeq(list, 1, i - 1) \in Block(Expr)
  BY DEF Block
<1>2. Lets(SubSeq(list, 1, i - 1)) \in Seq(Variable)
  BY <1>1, LetsIs
<1> QED
  BY <1>1, <1>2 DEF TableAt

\* What check_stmt_list asks of the statements of a list.
ChecksAll(h, ret, table, block) ==
  \A i \in DOMAIN block :
    /\ Suits(TableAt(table, block, i), block[i], ret)
    /\ h[Within(block[i])][TableAt(table, block, i)]

\* The check of a list by its statements, each with its table.
LEMMA CheckListIs ==
  ASSUME NEW ret
  PROVE  \A list \in Block(Expr) : \A vars \in Seq(Variable) :
           CheckList(vars, list, ret) <=>
             \A i \in DOMAIN list :
               /\ Suits(TableAt(vars, list, i), list[i], ret)
               /\ CheckList(TableAt(vars, list, i), Within(list[i]), ret)
<1> DEFINE D == Block(Expr)
           A == [Seq(Variable) -> BOOLEAN]
           B(h, x) == [table \in Seq(Variable) |-> ChecksAll(h, ret, table, x)]
           F == [x \in D |-> [h \in [D -> A] |-> B(h, x)]]
           Is(h) == h = [block \in Block(Expr) |->
        [table \in Seq(Variable) |->
           \A i \in DOMAIN block :
             /\ Suits(TableAt(table, block, i), block[i], ret)
             /\ h[Within(block[i])][TableAt(table, block, i)]]]
           T == CHOOSE h : Is(h)
<1>1. ASSUME NEW x, NEW h PROVE B(h, x) \in A
  <2>1. ASSUME NEW table PROVE ChecksAll(h, ret, table, x) \in BOOLEAN
    BY Zenon DEF ChecksAll
  <2> QED
    BY <2>1
<1>2. ASSUME NEW x \in D, NEW g \in [D -> A], NEW h \in [D -> A],
             \A i \in DOMAIN x : \A b \in Inner(x[i]) : g[b] = h[b]
      PROVE  B(g, x) = B(h, x)
  <2>1. ASSUME NEW table PROVE ChecksAll(g, ret, table, x) = ChecksAll(h, ret, table, x)
    <3>1. \A i \in DOMAIN x : g[Within(x[i])] = h[Within(x[i])]
      BY <1>2, InnerBlocks
    <3>2. ChecksAll(g, ret, table, x) <=> ChecksAll(h, ret, table, x)
      BY <3>1, Zenon DEF ChecksAll
    <3>3. ChecksAll(g, ret, table, x) \in BOOLEAN /\ ChecksAll(h, ret, table, x) \in BOOLEAN
      BY Zenon DEF ChecksAll
    <3> QED
      BY <3>2, <3>3
  <2> QED
    BY <2>1
<1>a. ASSUME NEW h PROVE Is(h) <=> h = [x \in D |-> B(h, x)]
  BY Zenon DEF ChecksAll
<1>b. \A vars, e : CheckList(vars, e, ret) = T[e][vars]
  BY DEF CheckList
<1>d. ASSUME NEW h, NEW x, NEW table \in Seq(Variable) PROVE B(h, x)[table] = ChecksAll(h, ret, table, x)
  OBVIOUS
<1> HIDE DEF B, Is
<1>3. PICK h : Obeys(h, D, A, F)
  <2>1. F \in [D -> [[D -> A] -> A]]
    <3> HIDE DEF A
    <3> QED
      BY <1>1
  <2>2. \A e \in D : \A g, h \in [D -> A] :
           (\A i \in DOMAIN e : \A b \in Inner(e[i]) : g[b] = h[b]) => F[e][g] = F[e][h]
    <3> HIDE DEF D, A
    <3> QED
      BY <1>2
  <2>3. [table \in Seq(Variable) |-> TRUE] \in A
    OBVIOUS
  <2> HIDE DEF F, A
  <2> QED
    BY <2>1, <2>2, <2>3, BlockRecursion, SomeExpr
<1> HIDE DEF A
<1>4. h = [x \in D |-> B(h, x)]
  <2>1. \A x \in D : h[x] = B(h, x)
    BY <1>3 DEF Obeys
  <2> QED
    BY <1>3, <2>1 DEF Obeys
<1>5. T = [x \in D |-> B(T, x)]
  BY <1>4, <1>a, Zenon
<1> HIDE DEF T
<1>6. ASSUME NEW x \in D, NEW table \in Seq(Variable) PROVE CheckList(table, x, ret) <=> ChecksAll(T, ret, table, x)
  <2>1. T[x] = B(T, x)
    BY <1>5
  <2> QED
    BY <1>b, <1>d, <2>1
<1> QED
  BY <1>6, <1>b, Zenon DEF ChecksAll

\* The statements of a function in their places.
Place == [at : Seq(Nat), s : Stmts(Expr), env : Environment]

ScopeAt(list, i, outer, n) ==
  [at |-> outer.at \o <<i, n>>, env |-> After(list, i - 1, outer)]

\* The latest of some places.
LEMMA LatestIs ==
  ASSUME NEW n \in Nat, NEW places \in SUBSET (1 .. n), places # {}
  PROVE  Latest(places) \in places /\ \A j \in places : j <= Latest(places)
<1> DEFINE m == CHOOSE i \in {n - j : j \in places} : \A k \in {n - j : j \in places} : i <= k
           Q == {n - j : j \in places}
<1>1. Q \in SUBSET Nat /\ Q # {}
  OBVIOUS
<1>2. PICK i \in Q : \A k \in Q : i <= k
  <2> HIDE DEF Q
  <2> QED
    BY <1>1, LeastNumber, Zenon
<1>3. PICK j \in places : i = n - j
  BY <1>2
<1>4. \A k \in places : k <= j
  BY <1>2, <1>3
<1> QED
  BY <1>3, <1>4, Zenon DEF Latest

\* The scope behind some statements is one.
LEMMA AfterIs ==
  ASSUME NEW list \in Block(Expr), NEW k \in 0 .. Len(list), NEW outer \in Scope
  PROVE  After(list, k, outer) \in Environment
<1>1. ASSUME NEW name \in Idents
      PROVE  After(list, k, outer)[name] \in [at : Seq(Nat), type : Types \cup {"none"}]
  <2> DEFINE lets == {i \in 1 .. k : list[i].kind = "let" /\ list[i].name = name}
  <2>1. CASE lets = {}
    <3>1. After(list, k, outer)[name] = outer.env[name]
      BY <2>1 DEF After
    <3> QED
      BY <3>1 DEF Scope, Environment
  <2>2. CASE lets # {}
    <3>1. Latest(lets) \in lets
      BY <2>2, LatestIs, k \in Nat, lets \in SUBSET (1 .. k)
    <3>2. After(list, k, outer)[name] = [at |-> Append(outer.at, Latest(lets)), type |-> list[Latest(lets)].type]
      BY <2>2 DEF After
    <3> DEFINE l == Latest(lets)
    <3>3. l \in DOMAIN list /\ l \in Nat /\ list[l].kind = "let"
      BY <3>1 DEF Block
    <3> HIDE DEF l, lets
    <3>4. list[l].type \in Types
      BY <3>3, InnerBlocks DEF LooksStmt
    <3>5. Append(outer.at, l) \in Seq(Nat)
      BY <3>3 DEF Scope
    <3> QED
      BY <3>2, <3>4, <3>5 DEF l
  <2> QED
    BY <2>1, <2>2
<1>2. After(list, k, outer) = [name \in Idents |-> After(list, k, outer)[name]]
  BY DEF After
<1> QED
  BY <1>1, <1>2 DEF Environment

\* The i-th statement of a list in its place.
Here(list, i, outer) ==
  [at |-> Append(outer.at, i), s |-> list[i], env |-> After(list, i - 1, outer)]

\* A statement of a list is in a place, and its blocks are in scopes.
LEMMA HereIs ==
  ASSUME NEW list \in Block(Expr), NEW i \in DOMAIN list, NEW outer \in Scope
  PROVE  /\ Here(list, i, outer) \in Place
         /\ \A n \in DOMAIN Blocks(list[i]) :
              ScopeAt(list, i, outer, n) \in Scope /\ Blocks(list[i])[n] \in Block(Expr)
<1>1. i \in Nat /\ i - 1 \in 0 .. Len(list) /\ outer.at \in Seq(Nat)
  BY DEF Block, Scope
<1>2. After(list, i - 1, outer) \in Environment
  BY <1>1, AfterIs
<1>3. list[i] \in Stmts(Expr)
  BY InnerBlocks
<1>4. Append(outer.at, i) \in Seq(Nat)
  BY <1>1
<1>5. ASSUME NEW n \in DOMAIN Blocks(list[i])
      PROVE  ScopeAt(list, i, outer, n) \in Scope /\ Blocks(list[i])[n] \in Block(Expr)
  <2>1. Blocks(list[i])[n] \in Block(Expr)
    BY InnerBlocks
  <2>2. n \in Nat
    BY DEF Blocks
  <2>3. outer.at \o <<i, n>> \in Seq(Nat)
    BY <1>1, <2>2
  <2> QED
    BY <1>2, <2>1, <2>3 DEF ScopeAt, Scope
<1> QED
  BY <1>2, <1>3, <1>4, <1>5 DEF Here, Place

\* What a list places, statement by statement.
LEMMA PlacedIs ==
  \A list \in Block(Expr) : \A outer \in Scope :
    /\ Placed(list, outer) \subseteq Place
    /\ Placed(list, outer) =
         UNION {{Here(list, i, outer)}
                  \cup UNION {Placed(Blocks(list[i])[n], ScopeAt(list, i, outer, n)) :
                                n \in DOMAIN Blocks(list[i])} : i \in DOMAIN list}
<1> DEFINE D == Block(Expr)
           A == [Scope -> SUBSET Place]
           G(h, x, outer) == UNION {{Here(x, i, outer)}
                  \cup UNION {h[Blocks(x[i])[n]][ScopeAt(x, i, outer, n)] :
                                n \in DOMAIN Blocks(x[i])} : i \in DOMAIN x}
           B(h, x) == [outer \in Scope |-> G(h, x, outer)]
           F == [x \in D |-> [h \in [D -> A] |-> B(h, x)]]
           Is(h) == h = [block \in Block(Expr) |->
        [outer \in Scope |->
           UNION {LET here == After(block, i - 1, outer)
                  IN {[at |-> Append(outer.at, i), s |-> block[i], env |-> here]}
                       \cup UNION {h[Blocks(block[i])[n]][[at |-> outer.at \o <<i, n>>, env |-> here]] :
                                     n \in DOMAIN Blocks(block[i])} : i \in DOMAIN block}]]
           T == CHOOSE h : Is(h)
<1>g. ASSUME NEW x \in D, NEW h \in [D -> A], NEW outer \in Scope PROVE G(h, x, outer) \in SUBSET Place
  <2>1. ASSUME NEW i \in DOMAIN x, NEW n \in DOMAIN Blocks(x[i])
        PROVE  h[Blocks(x[i])[n]][ScopeAt(x, i, outer, n)] \in SUBSET Place
    <3>1. h[Blocks(x[i])[n]] \in A
      BY HereIs
    <3> QED
      BY <3>1, HereIs
  <2>2. \A i \in DOMAIN x : Here(x, i, outer) \in Place
    BY HereIs
  <2> HIDE DEF A
  <2> QED
    BY <2>1, <2>2
<1>1. ASSUME NEW x \in D, NEW h \in [D -> A] PROVE B(h, x) \in A
  <2> HIDE DEF G
  <2> QED
    BY <1>g
<1>2. ASSUME NEW x \in D, NEW g \in [D -> A], NEW h \in [D -> A],
             \A i \in DOMAIN x : \A b \in Inner(x[i]) : g[b] = h[b]
      PROVE  B(g, x) = B(h, x)
  <2>1. \A i \in DOMAIN x : \A n \in DOMAIN Blocks(x[i]) : g[Blocks(x[i])[n]] = h[Blocks(x[i])[n]]
    BY <1>2, InnerBlocks
  <2>2. ASSUME NEW outer \in Scope PROVE G(g, x, outer) = G(h, x, outer)
    <3>1. \A i \in DOMAIN x :
            {g[Blocks(x[i])[n]][ScopeAt(x, i, outer, n)] : n \in DOMAIN Blocks(x[i])}
              = {h[Blocks(x[i])[n]][ScopeAt(x, i, outer, n)] : n \in DOMAIN Blocks(x[i])}
      <4> HIDE DEF A, D
      <4> QED
        BY <2>1
    <3>2. \A i \in DOMAIN x :
            {Here(x, i, outer)} \cup UNION {g[Blocks(x[i])[n]][ScopeAt(x, i, outer, n)] :
                                             n \in DOMAIN Blocks(x[i])}
              = {Here(x, i, outer)} \cup UNION {h[Blocks(x[i])[n]][ScopeAt(x, i, outer, n)] :
                                                n \in DOMAIN Blocks(x[i])}
      BY <3>1, Zenon
    <3> HIDE DEF A, D
    <3>3. {{Here(x, i, outer)} \cup UNION {g[Blocks(x[i])[n]][ScopeAt(x, i, outer, n)] :
                                             n \in DOMAIN Blocks(x[i])} : i \in DOMAIN x}
            = {{Here(x, i, outer)} \cup UNION {h[Blocks(x[i])[n]][ScopeAt(x, i, outer, n)] :
                                                n \in DOMAIN Blocks(x[i])} : i \in DOMAIN x}
      BY <3>2
    <3> QED
      BY <3>3, Zenon
  <2> HIDE DEF G
  <2> QED
    BY <2>2
<1>a. ASSUME NEW h PROVE Is(h) <=> h = [x \in D |-> B(h, x)]
  BY Zenon DEF Here, ScopeAt
<1>b. \A e, outer : Placed(e, outer) = T[e][outer]
  BY DEF Placed
<1>d. ASSUME NEW h, NEW x, NEW outer \in Scope PROVE B(h, x)[outer] = G(h, x, outer)
  OBVIOUS
<1>e. ASSUME NEW h, NEW x, NEW outer
      PROVE  G(h, x, outer) = UNION {{Here(x, i, outer)}
                  \cup UNION {h[Blocks(x[i])[n]][ScopeAt(x, i, outer, n)] :
                                n \in DOMAIN Blocks(x[i])} : i \in DOMAIN x}
  OBVIOUS
<1>i. ASSUME NEW h \in [D -> A], NEW x \in D, NEW outer \in Scope PROVE h[x][outer] \in SUBSET Place
  OBVIOUS
<1> HIDE DEF B, Is, G
<1>3. PICK h : Obeys(h, D, A, F)
  <2>1. F \in [D -> [[D -> A] -> A]]
    <3> HIDE DEF A
    <3> QED
      BY <1>1
  <2>2. \A e \in D : \A g, h \in [D -> A] :
           (\A i \in DOMAIN e : \A b \in Inner(e[i]) : g[b] = h[b]) => F[e][g] = F[e][h]
    <3> HIDE DEF D, A
    <3> QED
      BY <1>2
  <2>3. [outer \in Scope |-> {}] \in A
    OBVIOUS
  <2> HIDE DEF F, A
  <2> QED
    BY <2>1, <2>2, <2>3, BlockRecursion, SomeExpr
<1> HIDE DEF A
<1>4. h = [x \in D |-> B(h, x)]
  <2>1. \A x \in D : h[x] = B(h, x)
    BY <1>3 DEF Obeys
  <2> QED
    BY <1>3, <2>1 DEF Obeys
<1>5. T = [x \in D |-> B(T, x)]
  BY <1>4, <1>a, Zenon
<1> HIDE DEF T
<1>6. ASSUME NEW x \in D, NEW outer \in Scope PROVE T[x][outer] = G(T, x, outer)
  <2>1. T[x] = B(T, x)
    BY <1>5
  <2> QED
    BY <1>d, <2>1
<1>7. \A x \in D : \A outer \in Scope : T[x][outer] \in SUBSET Place
  <2> DEFINE P == {x \in D : \A outer \in Scope : T[x][outer] \in SUBSET Place}
  <2>1. ASSUME NEW x \in D, \A i \in DOMAIN x : Inner(x[i]) \subseteq P PROVE x \in P
    <3>1. ASSUME NEW outer \in Scope PROVE T[x][outer] \in SUBSET Place
      <4>1. ASSUME NEW i \in DOMAIN x, NEW n \in DOMAIN Blocks(x[i])
            PROVE  T[Blocks(x[i])[n]][ScopeAt(x, i, outer, n)] \in SUBSET Place
        <5>1. Blocks(x[i])[n] \in P
          BY <2>1, InnerBlocks
        <5>2. ScopeAt(x, i, outer, n) \in Scope
          BY HereIs
        <5> QED
          BY <5>1, <5>2
      <4>2. \A i \in DOMAIN x : Here(x, i, outer) \in Place
        BY HereIs
      <4>3. T[x][outer] = UNION {{Here(x, i, outer)}
                  \cup UNION {T[Blocks(x[i])[n]][ScopeAt(x, i, outer, n)] :
                                n \in DOMAIN Blocks(x[i])} : i \in DOMAIN x}
        BY <1>6, <1>e
      <4> QED
        BY <4>1, <4>2, <4>3
    <3> QED
      BY <3>1
  <2> HIDE DEF P
  <2>2. D \subseteq P
    BY <2>1, BlockInduction, SomeExpr
  <2> QED
    BY <2>2 DEF P
<1>8. ASSUME NEW list \in D, NEW outer \in Scope
      PROVE  Placed(list, outer) =
         UNION {{Here(list, i, outer)}
                  \cup UNION {Placed(Blocks(list[i])[n], ScopeAt(list, i, outer, n)) :
                                n \in DOMAIN Blocks(list[i])} : i \in DOMAIN list}
  <2>1. \A i \in DOMAIN list :
          {T[Blocks(list[i])[n]][ScopeAt(list, i, outer, n)] : n \in DOMAIN Blocks(list[i])}
            = {Placed(Blocks(list[i])[n], ScopeAt(list, i, outer, n)) : n \in DOMAIN Blocks(list[i])}
    BY <1>b
  <2>2. Placed(list, outer) = UNION {{Here(list, i, outer)}
                  \cup UNION {T[Blocks(list[i])[n]][ScopeAt(list, i, outer, n)] :
                                n \in DOMAIN Blocks(list[i])} : i \in DOMAIN list}
    BY <1>6, <1>b, <1>e
  <2>3. \A i \in DOMAIN list :
          {Here(list, i, outer)} \cup UNION {T[Blocks(list[i])[n]][ScopeAt(list, i, outer, n)] :
                                n \in DOMAIN Blocks(list[i])}
            = {Here(list, i, outer)} \cup UNION {Placed(Blocks(list[i])[n], ScopeAt(list, i, outer, n)) :
                                n \in DOMAIN Blocks(list[i])}
    BY <2>1, Zenon
  <2>4. {{Here(list, i, outer)} \cup UNION {T[Blocks(list[i])[n]][ScopeAt(list, i, outer, n)] :
                                n \in DOMAIN Blocks(list[i])} : i \in DOMAIN list}
          = {{Here(list, i, outer)} \cup UNION {Placed(Blocks(list[i])[n], ScopeAt(list, i, outer, n)) :
                                n \in DOMAIN Blocks(list[i])} : i \in DOMAIN list}
    BY <2>3
  <2> QED
    BY <2>2, <2>4, Zenon
<1> QED
  BY <1>7, <1>8, <1>b

\* What a list places: its statements, and what their blocks place.
LEMMA PlacedHolds ==
  ASSUME NEW list \in Block(Expr), NEW outer \in Scope
  PROVE  /\ \A i \in DOMAIN list : Here(list, i, outer) \in Placed(list, outer)
         /\ \A i \in DOMAIN list : \A n \in DOMAIN Blocks(list[i]) :
              Placed(Blocks(list[i])[n], ScopeAt(list, i, outer, n)) \subseteq Placed(list, outer)
         /\ \A x \in Placed(list, outer) : \E i \in DOMAIN list :
              \/ x = Here(list, i, outer)
              \/ \E n \in DOMAIN Blocks(list[i]) :
                   x \in Placed(Blocks(list[i])[n], ScopeAt(list, i, outer, n))
  BY PlacedIs

-----------------------------------------------------------------------------
(* Lists one behind the other.                                             *)

\* An empty list adds nothing.
LEMMA NoLets == <<>> \in Block(Expr) /\ Lets(<<>>) = <<>>
<1>1. <<>> \in Block(Expr)
  BY DEF Block
<1>2. [i \in DOMAIN <<>> |-> LetsOf(<<>>[i])] = <<>>
  OBVIOUS
<1>3. FlattenSeq(<<>>) = <<>>
  BY DEF FlattenSeq
<1> QED
  BY <1>1, <1>2, <1>3, LetsIs

\* What two lists add.
LEMMA LetsConcat ==
  ASSUME NEW s \in Block(Expr), NEW t \in Block(Expr)
  PROVE  s \o t \in Block(Expr) /\ Lets(s \o t) = Lets(s) \o Lets(t)
<1> DEFINE Of(list) == [i \in DOMAIN list |-> LetsOf(list[i])]
<1>1. s \o t \in Block(Expr)
  BY DEF Block
<1>2. ASSUME NEW u \in Block(Expr)
      PROVE  Of(u) \in Seq(Seq(Variable)) /\ Lets(u) = FlattenSeq(Of(u)) /\ Len(Of(u)) = Len(u)
               /\ Len(u) \in Nat /\ \A i \in 1 .. Len(u) : Of(u)[i] = LetsOf(u[i])
  <2>1. Of(u) \in Seq(Seq(Variable)) /\ Lets(u) = FlattenSeq(Of(u))
    BY LetsIs
  <2>2. Len(u) \in Nat /\ DOMAIN u = 1 .. Len(u)
    BY DEF Block
  <2>3. DOMAIN Of(u) = 1 .. Len(u) /\ \A i \in 1 .. Len(u) : Of(u)[i] = LetsOf(u[i])
    BY <2>2
  <2> HIDE DEF Of
  <2>4. Len(Of(u)) = Len(u)
    BY <2>1, <2>2, <2>3
  <2> QED
    BY <2>1, <2>2, <2>3, <2>4
<1> HIDE DEF Of
<1>3. Len(s \o t) = Len(s) + Len(t) /\ Len(s) \in Nat /\ Len(t) \in Nat
        /\ (\A i \in 1 .. Len(s) : (s \o t)[i] = s[i])
        /\ (\A i \in 1 .. Len(t) : (s \o t)[Len(s) + i] = t[i])
  BY DEF Block
<1>4. Of(s \o t) = Of(s) \o Of(t)
  <2> DEFINE u == Of(s \o t)
             v == Of(s)
             w == Of(t)
             st == s \o t
  <2>1. u \in Seq(Seq(Variable)) /\ Len(u) = Len(s) + Len(t) /\ \A i \in 1 .. Len(s) + Len(t) : u[i] = LetsOf(st[i])
    BY <1>1, <1>2, <1>3
  <2>2. v \in Seq(Seq(Variable)) /\ Len(v) = Len(s) /\ \A i \in 1 .. Len(s) : v[i] = LetsOf(s[i])
    BY <1>2
  <2>3. w \in Seq(Seq(Variable)) /\ Len(w) = Len(t) /\ \A i \in 1 .. Len(t) : w[i] = LetsOf(t[i])
    BY <1>2
  <2>4. (\A i \in 1 .. Len(s) : st[i] = s[i]) /\ \A i \in 1 .. Len(t) : st[Len(s) + i] = t[i]
    BY <1>3
  <2> HIDE DEF u, v, w, st
  <2>5. v \o w \in Seq(Seq(Variable)) /\ Len(v \o w) = Len(s) + Len(t)
          /\ (\A i \in 1 .. Len(s) : (v \o w)[i] = v[i])
          /\ (\A i \in 1 .. Len(t) : (v \o w)[Len(s) + i] = w[i])
    <3>1. v \o w \in Seq(Seq(Variable)) /\ Len(v \o w) = Len(v) + Len(w)
            /\ (\A i \in 1 .. Len(v) : (v \o w)[i] = v[i])
            /\ (\A i \in 1 .. Len(w) : (v \o w)[Len(v) + i] = w[i])
      <4>1. ASSUME NEW a \in Seq(Seq(Variable)), NEW b \in Seq(Seq(Variable))
            PROVE  /\ a \o b \in Seq(Seq(Variable)) /\ Len(a \o b) = Len(a) + Len(b)
                   /\ \A i \in 1 .. Len(a) : (a \o b)[i] = a[i]
                   /\ \A i \in 1 .. Len(b) : (a \o b)[Len(a) + i] = b[i]
        BY JoinIs
      <4> QED
        BY <2>2, <2>3, <4>1, Zenon
    <3> QED
      BY <2>2, <2>3, <3>1, Zenon
  <2>6. ASSUME NEW i \in 1 .. Len(s) + Len(t) PROVE u[i] = (v \o w)[i]
    <3>1. CASE i \in 1 .. Len(s)
      BY <2>1, <2>2, <2>4, <2>5, <3>1
    <3>2. CASE i \notin 1 .. Len(s)
      <4>1. i - Len(s) \in 1 .. Len(t) /\ Len(s) + (i - Len(s)) = i
        BY <1>3, <3>2
      <4>2. u[i] = LetsOf(t[i - Len(s)])
        BY <2>1, <2>4, <4>1
      <4>3. (v \o w)[i] = w[i - Len(s)]
        BY <2>5, <4>1
      <4> QED
        BY <2>3, <4>1, <4>2, <4>3
    <3> QED
      BY <3>1, <3>2
  <2> DEFINE vw == v \o w
  <2>7. vw \in Seq(Seq(Variable)) /\ Len(vw) = Len(u) /\ \A i \in 1 .. Len(u) : u[i] = vw[i]
    BY <2>1, <2>5, <2>6
  <2>8. v \o w = vw
    OBVIOUS
  <2> HIDE DEF vw
  <2>9. u = vw
    BY <2>1, <2>7, SeqEqual
  <2> QED
    BY <2>8, <2>9 DEF u, v, w
<1>5. FlattenSeq(Of(s) \o Of(t)) = FlattenSeq(Of(s)) \o FlattenSeq(Of(t))
  BY <1>2, FlattenConcat
<1>6. Lets(s \o t) = FlattenSeq(Of(s \o t)) /\ Lets(s) = FlattenSeq(Of(s)) /\ Lets(t) = FlattenSeq(Of(t))
  BY <1>1, <1>2
<1> QED
  BY <1>1, <1>4, <1>5, <1>6, Zenon

\* Joining tables is associative.
LEMMA TablesRegroup == \A a, b, c \in Seq(Variable) : (a \o b) \o c = a \o (b \o c)
BY Regroup

\* Joining texts is associative.
LEMMA TokensRegroup == \A a, b, c \in Seq(Tokens) : (a \o b) \o c = a \o (b \o c)
BY Regroup

\* The check of two lists, one behind the other.
LEMMA CheckConcat ==
  ASSUME NEW vars \in Seq(Variable), NEW s \in Block(Expr), NEW t \in Block(Expr), NEW ret
  PROVE  CheckList(vars, s \o t, ret) <=>
           CheckList(vars, s, ret) /\ CheckList(vars \o Lets(s), t, ret)
<1> DEFINE st == s \o t
           Fine(list, table, i) == /\ Suits(TableAt(table, list, i), list[i], ret)
                                   /\ CheckList(TableAt(table, list, i), Within(list[i]), ret)
<1>1. st \in Block(Expr) /\ Len(st) = Len(s) + Len(t) /\ Len(s) \in Nat /\ Len(t) \in Nat
        /\ (\A i \in 1 .. Len(s) : st[i] = s[i])
        /\ (\A i \in 1 .. Len(t) : st[Len(s) + i] = t[i])
        /\ DOMAIN st = 1 .. Len(st) /\ DOMAIN s = 1 .. Len(s) /\ DOMAIN t = 1 .. Len(t)
  BY DEF Block
<1>2. vars \o Lets(s) \in Seq(Variable) /\ Lets(s) \in Seq(Variable)
  <2>1. Lets(s) \in Seq(Variable)
    BY LetsIs
  <2> QED
    BY <2>1
<1>3. ASSUME NEW i \in 1 .. Len(s) PROVE TableAt(vars, st, i) = TableAt(vars, s, i)
  <2>1. SubSeq(st, 1, i - 1) = SubSeq(s, 1, i - 1)
    BY DEF Block
  <2> HIDE DEF st
  <2> QED
    BY <2>1, Zenon DEF TableAt
<1>4. ASSUME NEW i \in 1 .. Len(t) PROVE TableAt(vars, st, Len(s) + i) = TableAt(vars \o Lets(s), t, i)
  <2> DEFINE front == SubSeq(t, 1, i - 1)
  <2>1. SubSeq(st, 1, (Len(s) + i) - 1) = s \o front
    BY SubSeqBehind
  <2>2. front \in Block(Expr)
    BY DEF Block
  <2> HIDE DEF front, st
  <2>3. Lets(s \o front) = Lets(s) \o Lets(front) /\ Lets(front) \in Seq(Variable)
    BY <2>2, LetsConcat, LetsIs
  <2>4. TableAt(vars, st, Len(s) + i) = vars \o (Lets(s) \o Lets(front))
    BY <2>1, <2>3, Zenon DEF TableAt
  <2>5. TableAt(vars \o Lets(s), t, i) = (vars \o Lets(s)) \o Lets(front)
    BY Zenon DEF TableAt, front
  <2>6. (vars \o Lets(s)) \o Lets(front) = vars \o (Lets(s) \o Lets(front))
    BY <1>2, <2>3, TablesRegroup, Zenon
  <2> QED
    BY <2>4, <2>5, <2>6, Zenon
<1>5. CheckList(vars, st, ret) <=> \A i \in DOMAIN st : Fine(st, vars, i)
  BY <1>1, CheckListIs
<1>6. CheckList(vars, s, ret) <=> \A i \in DOMAIN s : Fine(s, vars, i)
  BY CheckListIs
<1>7. CheckList(vars \o Lets(s), t, ret) <=> \A i \in DOMAIN t : Fine(t, vars \o Lets(s), i)
  BY <1>2, CheckListIs
<1>8. ASSUME NEW i \in 1 .. Len(s) PROVE Fine(st, vars, i) <=> Fine(s, vars, i)
  BY <1>1, <1>3, Zenon
<1>9. ASSUME NEW i \in 1 .. Len(t) PROVE Fine(st, vars, Len(s) + i) <=> Fine(t, vars \o Lets(s), i)
  BY <1>1, <1>4, Zenon
<1> HIDE DEF st, Fine
<1>10. ASSUME NEW i \in DOMAIN st
       PROVE  i \in 1 .. Len(s) \/ \E j \in 1 .. Len(t) : i = Len(s) + j
  <2>1. i \notin 1 .. Len(s) => i - Len(s) \in 1 .. Len(t) /\ i = Len(s) + (i - Len(s))
    BY <1>1
  <2> QED
    BY <2>1
<1>11. ASSUME NEW j \in 1 .. Len(t) PROVE Len(s) + j \in DOMAIN st
  BY <1>1
<1>12. \A i \in 1 .. Len(s) : i \in DOMAIN st
  BY <1>1
<1>13. (\A i \in DOMAIN st : Fine(st, vars, i)) <=>
         (\A i \in 1 .. Len(s) : Fine(st, vars, i)) /\ \A j \in 1 .. Len(t) : Fine(st, vars, Len(s) + j)
  BY <1>10, <1>11, <1>12, Zenon
<1>14. (\A i \in DOMAIN st : Fine(st, vars, i)) <=>
         (\A i \in 1 .. Len(s) : Fine(s, vars, i)) /\ \A j \in 1 .. Len(t) : Fine(t, vars \o Lets(s), j)
  BY <1>8, <1>9, <1>13, Zenon
<1> QED
  BY <1>1, <1>5, <1>6, <1>7, <1>14, Zenon DEF st

-----------------------------------------------------------------------------
(* Statements with blocks in them.                                         *)

\* The lists of a while and of an if, and what they add to the table.
LEMMA WithinIs ==
  ASSUME NEW list \in Block(Expr), NEW i \in DOMAIN list
  PROVE  /\ list[i].kind = "while" =>
              Blocks(list[i]) = <<list[i].body>> /\ Within(list[i]) = list[i].body
                /\ list[i].body \in Block(Expr)
         /\ list[i].kind = "if" =>
              /\ Blocks(list[i]) = <<list[i].body, list[i].else>>
              /\ Within(list[i]) = list[i].body \o list[i].else
              /\ list[i].body \in Block(Expr) /\ list[i].else \in Block(Expr)
         /\ list[i].kind \notin {"while", "if"} => Blocks(list[i]) = <<>> /\ Within(list[i]) = <<>>
<1> DEFINE s == list[i]
<1>1. LooksStmt(s, Expr, Block(Expr))
  BY InnerBlocks
<1> HIDE DEF s
<1>2. CASE s.kind = "if"
  <2>1. s.body \in Block(Expr) /\ s.else \in Block(Expr) /\ s.hasElse \in BOOLEAN
          /\ (~s.hasElse => s.else = <<>>)
    BY <1>1, <1>2 DEF LooksStmt
  <2>2. s.body \o <<>> = s.body
    BY <2>1 DEF Block
  <2>3. Branches(s) = s.body \o s.else
    BY <2>1, <2>2 DEF Branches
  <2> QED
    BY <1>2, <2>1, <2>3 DEF Blocks, Within, s
<1>3. CASE s.kind = "while"
  BY <1>1, <1>3 DEF LooksStmt, Blocks, Within, s
<1>4. CASE s.kind \notin {"while", "if"}
  BY <1>4 DEF Blocks, Within, s
<1> QED
  BY <1>2, <1>3, <1>4 DEF s

\* The check of what is in a statement goes through its blocks, one behind the other.
LEMMA CheckWithin ==
  ASSUME NEW list \in Block(Expr), NEW i \in DOMAIN list, NEW table \in Seq(Variable), NEW ret
  PROVE  /\ list[i].kind = "while" =>
              (CheckList(table, Within(list[i]), ret) <=> CheckList(table, list[i].body, ret))
         /\ list[i].kind = "if" =>
              (CheckList(table, Within(list[i]), ret) <=>
                 /\ CheckList(table, list[i].body, ret)
                 /\ CheckList(table \o Lets(list[i].body), list[i].else, ret))
         /\ list[i].kind \notin {"while", "if"} => CheckList(table, Within(list[i]), ret)
<1> DEFINE s == list[i]
<1>1. CASE s.kind = "if"
  <2>1. s.body \in Block(Expr) /\ s.else \in Block(Expr) /\ Within(s) = s.body \o s.else
    BY <1>1, WithinIs
  <2> HIDE DEF s
  <2>2. CheckList(table, s.body \o s.else, ret) <=>
           CheckList(table, s.body, ret) /\ CheckList(table \o Lets(s.body), s.else, ret)
    BY <2>1, CheckConcat
  <2> QED
    BY <1>1, <2>1, <2>2 DEF s
<1>2. CASE s.kind = "while"
  BY <1>2, WithinIs
<1>3. CASE s.kind \notin {"while", "if"}
  <2>1. Within(s) = <<>>
    BY <1>3, WithinIs
  <2>2. \A n \in DOMAIN <<>> : FALSE
    OBVIOUS
  <2>3. CheckList(table, <<>>, ret)
    BY <2>2, NoLets, CheckListIs
  <2> QED
    BY <1>3, <2>1, <2>3
<1> QED
  BY <1>1, <1>2, <1>3

\* What a statement of a list places.
From(list, i, outer) ==
  {Here(list, i, outer)}
    \cup UNION {Placed(Blocks(list[i])[n], ScopeAt(list, i, outer, n)) : n \in DOMAIN Blocks(list[i])}

\* One place is deeper than another and behind it.
Under(a, b) == Len(a) > Len(b) /\ \A k \in 1 .. Len(b) : a[k] = b[k]

\* What a list places is what its statements place.
LEMMA FromIs ==
  ASSUME NEW list \in Block(Expr), NEW outer \in Scope
  PROVE  /\ \A i \in DOMAIN list : From(list, i, outer) \subseteq Placed(list, outer)
         /\ \A x \in Placed(list, outer) : \E i \in DOMAIN list : x \in From(list, i, outer)
<1>1. Placed(list, outer) = UNION {From(list, i, outer) : i \in DOMAIN list}
  BY PlacedIs, Zenon DEF From
<1> QED
  BY <1>1

\* What a list places lies deeper than its scope.
LEMMA Deeper ==
  \A list \in Block(Expr) : \A outer \in Scope : \A x \in Placed(list, outer) : Under(x.at, outer.at)
<1> DEFINE Good(list) == \A outer \in Scope : \A x \in Placed(list, outer) : Under(x.at, outer.at)
           P == {list \in Block(Expr) : Good(list)}
<1>1. ASSUME NEW list \in Block(Expr), \A i \in DOMAIN list : Inner(list[i]) \subseteq P,
             NEW outer \in Scope, NEW x \in Placed(list, outer)
      PROVE  Under(x.at, outer.at)
  <2>0. outer.at \in Seq(Nat)
    BY DEF Scope
  <2>1. PICK i \in DOMAIN list :
              \/ x = Here(list, i, outer)
              \/ \E n \in DOMAIN Blocks(list[i]) :
                   x \in Placed(Blocks(list[i])[n], ScopeAt(list, i, outer, n))
    BY PlacedHolds
  <2>2. CASE x = Here(list, i, outer)
    <3>1. x.at = Append(outer.at, i)
      BY <2>2 DEF Here
    <3>2. i \in Nat
      BY DEF Block
    <3> QED
      BY <2>0, <3>1, <3>2 DEF Under
  <2>3. ASSUME NEW n \in DOMAIN Blocks(list[i]),
               x \in Placed(Blocks(list[i])[n], ScopeAt(list, i, outer, n))
        PROVE  Under(x.at, outer.at)
    <3>1. Blocks(list[i])[n] \in P /\ ScopeAt(list, i, outer, n) \in Scope
      BY <1>1, InnerBlocks, HereIs
    <3>2. Under(x.at, ScopeAt(list, i, outer, n).at)
      BY <2>3, <3>1
    <3>3. i \in Nat /\ n \in Nat
      BY DEF Block, Blocks
    <3> DEFINE two == outer.at \o <<i, n>>
    <3>4. ScopeAt(list, i, outer, n).at = two
      BY DEF ScopeAt
    <3>5. Len(two) = Len(outer.at) + 2 /\ \A k \in 1 .. Len(outer.at) : two[k] = outer.at[k]
      BY <2>0, <3>3, PairBehind
    <3>6. \A k \in 1 .. Len(outer.at) : k \in 1 .. Len(outer.at) + 2
      BY <2>0
    <3> HIDE DEF two
    <3>7. Under(x.at, two)
      BY <3>2, <3>4
    <3>8. Len(x.at) > Len(outer.at)
      <4>1. x \in Place
        BY <2>3, <3>1, PlacedIs
      <4>2. x.at \in Seq(Nat)
        BY <4>1 DEF Place
      <4>3. Len(x.at) \in Nat /\ Len(outer.at) \in Nat
        BY <2>0, <4>2
      <4> QED
        BY <3>5, <3>7, <4>3 DEF Under
    <3> QED
      BY <3>5, <3>6, <3>7, <3>8 DEF Under
  <2> QED
    BY <2>1, <2>2, <2>3
<1>2. \A list \in Block(Expr) : (\A i \in DOMAIN list : Inner(list[i]) \subseteq P) => list \in P
  BY <1>1
<1> HIDE DEF P
<1>3. Block(Expr) \subseteq P
  BY <1>2, BlockInduction, SomeExpr
<1> QED
  BY <1>3 DEF P

\* Where the statements are that a statement places.
LEMMA Where ==
  ASSUME NEW list \in Block(Expr), NEW i \in DOMAIN list, NEW outer \in Scope
  PROVE  /\ Here(list, i, outer).at = Append(outer.at, i)
         /\ \A x \in From(list, i, outer) :
              x.at[Len(outer.at) + 1] = i /\ (x # Here(list, i, outer) => Len(x.at) > Len(outer.at) + 2)
         /\ \A n \in DOMAIN Blocks(list[i]) :
              \A x \in Placed(Blocks(list[i])[n], ScopeAt(list, i, outer, n)) :
                 x.at[Len(outer.at) + 1] = i /\ x.at[Len(outer.at) + 2] = n
                   /\ Len(x.at) > Len(outer.at) + 2
<1>0. outer.at \in Seq(Nat) /\ i \in Nat /\ Len(outer.at) \in Nat
  BY DEF Scope, Block
<1>1. Here(list, i, outer).at = Append(outer.at, i)
  BY DEF Here
<1>2. ASSUME NEW n \in DOMAIN Blocks(list[i]),
             NEW x \in Placed(Blocks(list[i])[n], ScopeAt(list, i, outer, n))
      PROVE  x.at[Len(outer.at) + 1] = i /\ x.at[Len(outer.at) + 2] = n
               /\ Len(x.at) > Len(outer.at) + 2
  <2>1. Under(x.at, ScopeAt(list, i, outer, n).at)
    BY HereIs, Deeper
  <2>2. n \in Nat
    BY DEF Blocks
  <2> DEFINE two == outer.at \o <<i, n>>
  <2>3. ScopeAt(list, i, outer, n).at = two
    BY DEF ScopeAt
  <2>4. Len(two) = Len(outer.at) + 2 /\ two[Len(outer.at) + 1] = i /\ two[Len(outer.at) + 2] = n
    BY <1>0, <2>2, PairBehind
  <2> HIDE DEF two
  <2>5. Len(outer.at) + 1 \in 1 .. Len(outer.at) + 2 /\ Len(outer.at) + 2 \in 1 .. Len(outer.at) + 2
    BY <1>0
  <2> QED
    BY <2>1, <2>3, <2>4, <2>5 DEF Under
<1>3. ASSUME NEW x \in From(list, i, outer)
      PROVE  x.at[Len(outer.at) + 1] = i /\ (x # Here(list, i, outer) => Len(x.at) > Len(outer.at) + 2)
  <2>1. Append(outer.at, i)[Len(outer.at) + 1] = i
    BY <1>0
  <2> QED
    BY <1>1, <1>2, <2>1 DEF From
<1> QED
  BY <1>1, <1>2, <1>3

\* v is declared in one of some places.
Declared(v, places) == \E x \in places : x.s.kind = "let" /\ v = Param(x.s.name, x.s.type)

\* What a statement adds is declared in what it places, if that holds of its blocks.
LEMMA DeclaredIn ==
  ASSUME NEW list \in Block(Expr), NEW i \in DOMAIN list, NEW outer \in Scope,
         NEW v \in Range(LetsOf(list[i])),
         \A n \in DOMAIN Blocks(list[i]) : v \in Range(Lets(Blocks(list[i])[n])) =>
           Declared(v, Placed(Blocks(list[i])[n], ScopeAt(list, i, outer, n)))
  PROVE  Declared(v, From(list, i, outer))
<1>0. ASSUME NEW n \in DOMAIN Blocks(list[i]), v \in Range(Lets(Blocks(list[i])[n]))
      PROVE  Declared(v, From(list, i, outer))
  <2>1. Declared(v, Placed(Blocks(list[i])[n], ScopeAt(list, i, outer, n)))
    BY <1>0
  <2>2. Placed(Blocks(list[i])[n], ScopeAt(list, i, outer, n)) \subseteq From(list, i, outer)
    BY DEF From
  <2> QED
    BY <2>1, <2>2 DEF Declared
<1>3. CASE list[i].kind = "let"
  <2> DEFINE w == Param(list[i].name, list[i].type)
  <2>1. LetsOf(list[i]) = <<w>>
    BY <1>3 DEF LetsOf
  <2> HIDE DEF w
  <2>2. v = w
    BY <2>1 DEF Range
  <2>3. Here(list, i, outer) \in From(list, i, outer) /\ Here(list, i, outer).s = list[i]
    BY DEF Here, From
  <2> QED
    BY <1>3, <2>2, <2>3 DEF w, Declared
<1>4. CASE list[i].kind = "while"
  <2>1. Blocks(list[i]) = <<list[i].body>> /\ Within(list[i]) = list[i].body
    BY <1>4, WithinIs
  <2>2. v \in Range(Lets(list[i].body))
    BY <1>4, <2>1 DEF LetsOf
  <2>3. 1 \in DOMAIN Blocks(list[i]) /\ Blocks(list[i])[1] = list[i].body
    BY <2>1
  <2> QED
    BY <1>0, <2>2, <2>3
<1>5. CASE list[i].kind = "if"
  <2>1. /\ Blocks(list[i]) = <<list[i].body, list[i].else>>
        /\ Within(list[i]) = list[i].body \o list[i].else
        /\ list[i].body \in Block(Expr) /\ list[i].else \in Block(Expr)
    BY <1>5, WithinIs
  <2> DEFINE a == Lets(list[i].body)
             b == Lets(list[i].else)
  <2>2. LetsOf(list[i]) = a \o b
    BY <1>5, <2>1, LetsConcat DEF LetsOf
  <2>3. a \in Seq(Variable) /\ b \in Seq(Variable)
    BY <2>1, LetsIs
  <2> HIDE DEF a, b
  <2>4. v \in Range(a) \cup Range(b)
    <3>1. v \in Range(a \o b)
      BY <2>2
    <3>2. ASSUME NEW k \in 1 .. Len(a) + Len(b) PROVE (a \o b)[k] \in Range(a) \cup Range(b)
      <4>1. k \notin 1 .. Len(a) => k - Len(a) \in 1 .. Len(b) /\ k = Len(a) + (k - Len(a))
        BY <2>3
      <4> QED
        BY <2>3, <4>1 DEF Range
    <3> QED
      BY <2>3, <3>1, <3>2 DEF Range
  <2>5. 1 \in DOMAIN Blocks(list[i]) /\ Blocks(list[i])[1] = list[i].body
          /\ 2 \in DOMAIN Blocks(list[i]) /\ Blocks(list[i])[2] = list[i].else
    BY <2>1
  <2> QED
    BY <1>0, <2>4, <2>5 DEF a, b
<1>6. CASE list[i].kind \notin {"let", "while", "if"}
  <2>1. LetsOf(list[i]) = <<>>
    BY <1>6, WithinIs, NoLets DEF LetsOf
  <2> QED
    BY <2>1 DEF Range
<1> QED
  BY <1>3, <1>4, <1>5, <1>6

\* What a list adds to the table is declared in one of the places of the list.
LEMMA LetsPlaced ==
  \A list \in Block(Expr) : \A outer \in Scope : \A v \in Range(Lets(list)) :
    Declared(v, Placed(list, outer))
<1> DEFINE Good(list) == \A outer \in Scope : \A v \in Range(Lets(list)) : Declared(v, Placed(list, outer))
           P == {list \in Block(Expr) : Good(list)}
<1>1. ASSUME NEW list \in Block(Expr), \A i \in DOMAIN list : Inner(list[i]) \subseteq P,
             NEW outer \in Scope, NEW v \in Range(Lets(list))
      PROVE  Declared(v, Placed(list, outer))
  <2>1. PICK i \in DOMAIN list : v \in Range(LetsOf(list[i]))
    <3> DEFINE each == [i \in DOMAIN list |-> LetsOf(list[i])]
    <3>1. each \in Seq(Seq(Variable)) /\ Lets(list) = FlattenSeq(each)
      BY LetsIs
    <3>2. DOMAIN each = DOMAIN list /\ \A i \in DOMAIN list : each[i] = LetsOf(list[i])
      OBVIOUS
    <3> HIDE DEF each
    <3>3. Range(Lets(list)) = UNION {Range(each[i]) : i \in DOMAIN each}
      BY <3>1, FlattenHolds
    <3> QED
      BY <3>2, <3>3
  <2>2. ASSUME NEW n \in DOMAIN Blocks(list[i]), v \in Range(Lets(Blocks(list[i])[n]))
        PROVE  Declared(v, Placed(Blocks(list[i])[n], ScopeAt(list, i, outer, n)))
    <3>1. Blocks(list[i])[n] \in P /\ ScopeAt(list, i, outer, n) \in Scope
      BY <1>1, InnerBlocks, HereIs
    <3> QED
      BY <2>2, <3>1
  <2>3. Declared(v, From(list, i, outer))
    BY <2>1, <2>2, DeclaredIn
  <2>4. From(list, i, outer) \subseteq Placed(list, outer)
    BY FromIs
  <2> QED
    BY <2>3, <2>4 DEF Declared
<1>2. \A list \in Block(Expr) : (\A i \in DOMAIN list : Inner(list[i]) \subseteq P) => list \in P
  BY <1>1
<1> HIDE DEF P
<1>3. Block(Expr) \subseteq P
  BY <1>2, BlockInduction, SomeExpr
<1> QED
  BY <1>3 DEF P

\* So for what a statement adds.
LEMMA LetsFrom ==
  ASSUME NEW list \in Block(Expr), NEW i \in DOMAIN list, NEW outer \in Scope,
         NEW v \in Range(LetsOf(list[i]))
  PROVE  Declared(v, From(list, i, outer))
<1>1. \A n \in DOMAIN Blocks(list[i]) : v \in Range(Lets(Blocks(list[i])[n])) =>
           Declared(v, Placed(Blocks(list[i])[n], ScopeAt(list, i, outer, n)))
  BY HereIs, LetsPlaced
<1> QED
  BY <1>1, DeclaredIn

\* What the statements before one add to the table.
LEMMA LetsBefore ==
  ASSUME NEW list \in Block(Expr), NEW i \in DOMAIN list
  PROVE  /\ \A v \in Range(Lets(SubSeq(list, 1, i - 1))) :
              \E j \in 1 .. i - 1 : j \in DOMAIN list /\ v \in Range(LetsOf(list[j]))
         /\ \A j \in 1 .. i - 1 : list[j].kind = "let" =>
              Param(list[j].name, list[j].type) \in Range(Lets(SubSeq(list, 1, i - 1)))
<1> DEFINE front == SubSeq(list, 1, i - 1)
           each == [j \in DOMAIN front |-> LetsOf(front[j])]
<1>1. front \in Block(Expr) /\ DOMAIN front = 1 .. i - 1 /\ \A j \in 1 .. i - 1 : front[j] = list[j] /\ j \in DOMAIN list
  BY DEF Block
<1>2. each \in Seq(Seq(Variable)) /\ Lets(front) = FlattenSeq(each)
  BY <1>1, LetsIs
<1>3. DOMAIN each = 1 .. i - 1 /\ \A j \in 1 .. i - 1 : each[j] = LetsOf(list[j])
  BY <1>1
<1> HIDE DEF each, front
<1>4. Range(Lets(front)) = UNION {Range(each[j]) : j \in DOMAIN each}
  BY <1>2, FlattenHolds
<1>5. ASSUME NEW j \in 1 .. i - 1, list[j].kind = "let"
      PROVE  Param(list[j].name, list[j].type) \in Range(Lets(front))
  <2> DEFINE w == Param(list[j].name, list[j].type)
  <2>1. each[j] = <<w>>
    BY <1>3, <1>5 DEF LetsOf
  <2> HIDE DEF w
  <2>2. w \in Range(each[j])
    BY <2>1 DEF Range
  <2> QED
    BY <1>3, <1>4, <2>2 DEF w
<1>6. ASSUME NEW v \in Range(Lets(front))
      PROVE  \E j \in 1 .. i - 1 : j \in DOMAIN list /\ v \in Range(LetsOf(list[j]))
  BY <1>1, <1>3, <1>4
<1> QED
  BY <1>5, <1>6 DEF front

-----------------------------------------------------------------------------
(* A table and the scopes of a list of statements.                         *)

\* For every name that is in scope the table has entries, all of its type.
Related(vars, env) ==
  \A name \in Idents : env[name].type # "none" =>
    /\ \E v \in Range(vars) : v.name = name
    /\ \A v \in Range(vars) : v.name = name => v.type = env[name].type

IsLet(x) == x.s.kind = "let"

\* No name is declared in two of some places.
Once(places) ==
  \A x, y \in places : IsLet(x) /\ IsLet(y) /\ x.s.name = y.s.name => x.at = y.at

\* What is declared in some places is not in a table.
Fresh(places, vars) == \A x \in places : IsLet(x) => \A v \in Range(vars) : v.name # x.s.name

\* What is not declared is nowhere.
Proper(env) == \A name \in Idents : env[name] = Nowhere \/ env[name].type # "none"

\* How a list of statements is come upon.
Ready(list, vars, outer) ==
  /\ Related(vars, outer.env)
  /\ Once(Placed(list, outer))
  /\ Fresh(Placed(list, outer), vars)

\* A name that is in scope behind k statements is declared by one of them or was before.
LEMMA AfterFinds ==
  ASSUME NEW list \in Block(Expr), NEW k \in 0 .. Len(list), NEW outer \in Scope, NEW name \in Idents
  PROVE  \/ /\ \A j \in 1 .. k : ~(list[j].kind = "let" /\ list[j].name = name)
            /\ After(list, k, outer)[name] = outer.env[name]
         \/ \E j \in 1 .. k :
              /\ list[j].kind = "let" /\ list[j].name = name
              /\ After(list, k, outer)[name] = [at |-> Append(outer.at, j), type |-> list[j].type]
<1> DEFINE lets == {i \in 1 .. k : list[i].kind = "let" /\ list[i].name = name}
<1>1. CASE lets = {}
  BY <1>1 DEF After
<1>2. CASE lets # {}
  <2>1. Latest(lets) \in lets
    BY <1>2, LatestIs, k \in Nat, lets \in SUBSET (1 .. k)
  <2>2. After(list, k, outer)[name] = [at |-> Append(outer.at, Latest(lets)), type |-> list[Latest(lets)].type]
    BY <1>2 DEF After
  <2> DEFINE l == Latest(lets)
  <2>3. l \in 1 .. k /\ list[l].kind = "let" /\ list[l].name = name
    BY <2>1
  <2> HIDE DEF l, lets
  <2> QED
    BY <2>2, <2>3 DEF l
<1> QED
  BY <1>1, <1>2

\* Behind some statements, too, what is not declared is nowhere.
LEMMA ProperAfter ==
  ASSUME NEW list \in Block(Expr), NEW k \in 0 .. Len(list), NEW outer \in Scope, Proper(outer.env)
  PROVE  Proper(After(list, k, outer))
<1>1. ASSUME NEW name \in Idents
      PROVE  After(list, k, outer)[name] = Nowhere \/ After(list, k, outer)[name].type # "none"
  <2>1. CASE After(list, k, outer)[name] = outer.env[name]
    BY <2>1 DEF Proper
  <2>2. ASSUME NEW j \in 1 .. k, list[j].kind = "let",
               After(list, k, outer)[name] = [at |-> Append(outer.at, j), type |-> list[j].type]
        PROVE  After(list, k, outer)[name].type # "none"
    <3>1. j \in DOMAIN list
      BY DEF Block
    <3>2. list[j].type \in Types
      BY <2>2, <3>1, InnerBlocks DEF LooksStmt
    <3> QED
      BY <2>2, <3>2 DEF Types
  <2> QED
    <3>1. \/ After(list, k, outer)[name] = outer.env[name]
          \/ \E j \in 1 .. k :
               /\ list[j].kind = "let"
               /\ After(list, k, outer)[name] = [at |-> Append(outer.at, j), type |-> list[j].type]
      BY AfterFinds
    <3> QED
      BY <2>1, <2>2, <3>1, Zenon
<1> QED
  BY <1>1 DEF Proper

\* Before each statement the table is related to the scope.
LEMMA RelatedBefore ==
  ASSUME NEW list \in Block(Expr), NEW vars \in Seq(Variable), NEW outer \in Scope,
         Ready(list, vars, outer), NEW i \in DOMAIN list
  PROVE  Related(TableAt(vars, list, i), After(list, i - 1, outer))
<1> DEFINE more == Lets(SubSeq(list, 1, i - 1))
<1>1. i \in 1 .. Len(list) + 1 /\ i - 1 \in 0 .. Len(list) /\ Len(list) \in Nat /\ DOMAIN list = 1 .. Len(list)
  BY DEF Block
<1>2. more \in Seq(Variable) /\ Range(TableAt(vars, list, i)) = Range(vars) \cup Range(more)
  <2>1. more \in Seq(Variable)
    BY <1>1, TableIs, LetsIs
  <2> HIDE DEF more
  <2>2. TableAt(vars, list, i) = vars \o more
    BY DEF TableAt, more
  <2> QED
    BY <2>1, <2>2, RangeOfJoin
<1>3. ASSUME NEW v \in Range(more)
      PROVE  \E j \in 1 .. i - 1 : j \in DOMAIN list /\ Declared(v, From(list, j, outer))
  <2>1. PICK j \in 1 .. i - 1 : j \in DOMAIN list /\ v \in Range(LetsOf(list[j]))
    BY <1>3, LetsBefore
  <2> QED
    BY <2>1, LetsFrom
<1>4. \A j \in 1 .. i - 1 : list[j].kind = "let" => Param(list[j].name, list[j].type) \in Range(more)
  BY LetsBefore
<1>5. \A j \in DOMAIN list : From(list, j, outer) \subseteq Placed(list, outer)
  BY FromIs
<1> HIDE DEF more
<1>6. ASSUME NEW name \in Idents, After(list, i - 1, outer)[name].type # "none"
      PROVE  /\ \E v \in Range(vars) \cup Range(more) : v.name = name
             /\ \A v \in Range(vars) \cup Range(more) :
                  v.name = name => v.type = After(list, i - 1, outer)[name].type
  <2>1. CASE After(list, i - 1, outer)[name] = outer.env[name]
               /\ \A j \in 1 .. i - 1 : ~(list[j].kind = "let" /\ list[j].name = name)
    <3>1. /\ \E v \in Range(vars) : v.name = name
          /\ \A v \in Range(vars) : v.name = name => v.type = outer.env[name].type
      BY <1>6, <2>1 DEF Ready, Related
    <3>2. ASSUME NEW v \in Range(more), v.name = name PROVE FALSE
      <4>1. PICK j \in 1 .. i - 1 : j \in DOMAIN list /\ Declared(v, From(list, j, outer))
        BY <1>3
      <4>2. PICK x \in Placed(list, outer) : IsLet(x) /\ v = Param(x.s.name, x.s.type)
        BY <1>5, <4>1 DEF Declared, IsLet
      <4>3. x.s.name = name
        BY <3>2, <4>2 DEF Param
      <4> QED
        BY <3>1, <4>2, <4>3 DEF Ready, Fresh
    <3> QED
      BY <2>1, <3>1, <3>2
  <2>2. ASSUME NEW l \in 1 .. i - 1, list[l].kind = "let", list[l].name = name,
               After(list, i - 1, outer)[name] = [at |-> Append(outer.at, l), type |-> list[l].type]
        PROVE  /\ \E v \in Range(vars) \cup Range(more) : v.name = name
               /\ \A v \in Range(vars) \cup Range(more) : v.name = name => v.type = list[l].type
    <3> DEFINE here == Here(list, l, outer)
               w == Param(list[l].name, list[l].type)
    <3>1. l \in DOMAIN list
      BY <1>1
    <3>2. here \in From(list, l, outer) /\ here \in Placed(list, outer) /\ IsLet(here) /\ here.s.name = name
            /\ here.at = Append(outer.at, l)
      BY <1>5, <2>2, <3>1 DEF From, Here, IsLet
    <3>3. w \in Range(more) /\ w.name = name
      BY <1>4, <2>2 DEF Param
    <3> HIDE DEF here, w
    <3>4. ASSUME NEW v \in Range(vars) PROVE v.name # name
      BY <3>2 DEF Ready, Fresh
    <3>5. ASSUME NEW v \in Range(more), v.name = name PROVE v.type = list[l].type
      <4>1. PICK j \in 1 .. i - 1 : j \in DOMAIN list /\ Declared(v, From(list, j, outer))
        BY <1>3
      <4>2. PICK x \in From(list, j, outer) : IsLet(x) /\ v = Param(x.s.name, x.s.type)
        BY <4>1 DEF Declared, IsLet
      <4>3. x.s.name = name /\ x \in Placed(list, outer)
        BY <1>5, <3>5, <4>1, <4>2 DEF Param
      <4>4. x.at = Append(outer.at, l)
        BY <3>2, <4>2, <4>3, Zenon DEF Ready, Once
      <4>5. outer.at \in Seq(Nat)
        BY DEF Scope
      <4>6. Append(outer.at, l)[Len(outer.at) + 1] = l /\ Len(Append(outer.at, l)) = Len(outer.at) + 1
        BY <4>5
      <4>7. x.at[Len(outer.at) + 1] = j /\ (x # Here(list, j, outer) => Len(x.at) > Len(outer.at) + 2)
        BY <4>1, <4>2, Where
      <4>8. j = l /\ x = Here(list, j, outer)
        <5>1. ~(Len(outer.at) + 1 > Len(outer.at) + 2)
          BY <4>5
        <5> QED
          BY <4>4, <4>6, <4>7, <5>1
      <4>9. x.s = list[l]
        BY <4>8 DEF Here
      <4> QED
        BY <4>2, <4>9 DEF Param
    <3> QED
      BY <3>3, <3>4, <3>5
  <2> QED
    <3>1. \/ /\ \A j \in 1 .. i - 1 : ~(list[j].kind = "let" /\ list[j].name = name)
             /\ After(list, i - 1, outer)[name] = outer.env[name]
          \/ \E j \in 1 .. i - 1 :
               /\ list[j].kind = "let" /\ list[j].name = name
               /\ After(list, i - 1, outer)[name] = [at |-> Append(outer.at, j), type |-> list[j].type]
      BY <1>1, AfterFinds
    <3>2. ASSUME NEW j \in 1 .. i - 1, list[j].kind = "let", list[j].name = name,
                 After(list, i - 1, outer)[name] = [at |-> Append(outer.at, j), type |-> list[j].type]
          PROVE  After(list, i - 1, outer)[name].type = list[j].type
      BY <3>2
    <3> QED
      BY <2>1, <2>2, <3>1, <3>2, Zenon
<1> QED
  BY <1>2, <1>6 DEF Related

\* The blocks in a statement are come upon in the same way.
LEMMA ReadyWithin ==
  ASSUME NEW list \in Block(Expr), NEW vars \in Seq(Variable), NEW outer \in Scope,
         Ready(list, vars, outer), NEW i \in DOMAIN list, NEW n \in DOMAIN Blocks(list[i]),
         NEW table \in Seq(Variable),
         Range(table) = Range(TableAt(vars, list, i)) \cup
                          (IF n = 1 THEN {} ELSE Range(Lets(Blocks(list[i])[1])))
  PROVE  Ready(Blocks(list[i])[n], table, ScopeAt(list, i, outer, n))
<1> DEFINE inside == Placed(Blocks(list[i])[n], ScopeAt(list, i, outer, n))
           first  == Placed(Blocks(list[i])[1], ScopeAt(list, i, outer, 1))
           more   == Lets(SubSeq(list, 1, i - 1))
           given  == TableAt(vars, list, i)
<1>0. inside \subseteq Placed(list, outer) /\ ScopeAt(list, i, outer, n).env = After(list, i - 1, outer)
  BY PlacedHolds DEF ScopeAt
<1>1. Once(inside)
  BY <1>0 DEF Ready, Once
<1>2. Related(given, After(list, i - 1, outer))
  BY RelatedBefore
<1>3. 1 \in DOMAIN Blocks(list[i])
  BY DEF Blocks
<1>4. given \in Seq(Variable) /\ Range(given) = Range(vars) \cup Range(more)
  <2>1. i \in 1 .. Len(list) + 1
    BY DEF Block
  <2>2. more \in Seq(Variable)
    BY <2>1, TableIs, LetsIs
  <2> HIDE DEF more
  <2>3. given = vars \o more
    BY DEF TableAt, more
  <2> QED
    BY <2>2, <2>3, RangeOfJoin
<1>5. ASSUME NEW x \in inside, NEW v \in Range(given), IsLet(x) PROVE v.name # x.s.name
  <2>1. CASE v \in Range(vars)
    BY <1>0, <1>5, <2>1 DEF Ready, Fresh
  <2>2. CASE v \in Range(more)
    <3>1. PICK j \in 1 .. i - 1 : j \in DOMAIN list /\ v \in Range(LetsOf(list[j]))
      BY <2>2, LetsBefore
    <3>2. PICK y \in From(list, j, outer) : IsLet(y) /\ v = Param(y.s.name, y.s.type)
      BY <3>1, LetsFrom DEF Declared, IsLet
    <3>3. y \in Placed(list, outer)
      BY <3>1, <3>2, FromIs
    <3>4. x.at[Len(outer.at) + 1] = i /\ y.at[Len(outer.at) + 1] = j
      BY <3>1, <3>2, Where
    <3>5. x.at # y.at
      <4>1. i # j
        BY DEF Block
      <4> QED
        BY <3>4, <4>1
    <3>6. x \in Placed(list, outer) /\ v.name = y.s.name
      BY <1>0, <3>2 DEF Param
    <3> HIDE DEF inside
    <3> QED
      BY <1>5, <3>2, <3>3, <3>5, <3>6, Zenon DEF Ready, Once
  <2> QED
    BY <1>4, <2>1, <2>2
<1>6. ASSUME n # 1, NEW v \in Range(Lets(Blocks(list[i])[1]))
      PROVE  \E y \in first : IsLet(y) /\ v.name = y.s.name
  <2>1. Blocks(list[i])[1] \in Block(Expr) /\ ScopeAt(list, i, outer, 1) \in Scope
    BY <1>3, HereIs
  <2>2. Declared(v, first)
    BY <1>6, <2>1, LetsPlaced
  <2> QED
    BY <2>2 DEF Declared, IsLet, Param
<1>7. ASSUME n # 1, NEW x \in inside, IsLet(x), NEW v \in Range(Lets(Blocks(list[i])[1]))
      PROVE  v.name # x.s.name
  <2>1. PICK y \in first : IsLet(y) /\ v.name = y.s.name
    BY <1>6, <1>7
  <2>2. y.at[Len(outer.at) + 2] = 1 /\ x.at[Len(outer.at) + 2] = n
    BY <1>3, Where
  <2>3. x.at # y.at
    BY <1>7, <2>2
  <2>4. y \in Placed(list, outer)
    BY <1>3, PlacedHolds
  <2> HIDE DEF inside
  <2> QED
    BY <1>0, <1>7, <2>1, <2>3, <2>4, Zenon DEF Ready, Once
<1>8. ASSUME n # 1, NEW name \in Idents, After(list, i - 1, outer)[name].type # "none",
             NEW v \in Range(Lets(Blocks(list[i])[1]))
      PROVE  v.name # name
  <2>1. PICK y \in first : IsLet(y) /\ v.name = y.s.name
    BY <1>6, <1>8
  <2>2. PICK w \in Range(given) : w.name = name
    BY <1>2, <1>8 DEF Related
  <2>3. ASSUME NEW x \in first, IsLet(x) PROVE w.name # x.s.name
    <3>1. CASE w \in Range(vars)
      <4>1. x \in Placed(list, outer)
        BY <1>3, PlacedHolds
      <4> QED
        BY <2>3, <3>1, <4>1 DEF Ready, Fresh
    <3>2. CASE w \in Range(more)
      <4>1. PICK j \in 1 .. i - 1 : j \in DOMAIN list /\ w \in Range(LetsOf(list[j]))
        BY <3>2, LetsBefore
      <4>2. PICK z \in From(list, j, outer) : IsLet(z) /\ w = Param(z.s.name, z.s.type)
        BY <4>1, LetsFrom DEF Declared, IsLet
      <4>3. z \in Placed(list, outer) /\ x \in Placed(list, outer) /\ w.name = z.s.name
        BY <1>3, <4>1, <4>2, FromIs, PlacedHolds DEF Param
      <4>4. x.at[Len(outer.at) + 1] = i /\ z.at[Len(outer.at) + 1] = j
        BY <1>3, <4>1, <4>2, Where
      <4>5. i # j
        BY DEF Block
      <4>6. x.at # z.at
        BY <4>4, <4>5
      <4> HIDE DEF first
      <4> QED
        BY <2>3, <4>2, <4>3, <4>6, Zenon DEF Ready, Once
    <3> QED
      BY <1>4, <3>1, <3>2
  <2> QED
    BY <2>1, <2>2, <2>3
<1> HIDE DEF inside, first, more, given
<1>9. Fresh(inside, table)
  BY <1>5, <1>7 DEF Fresh, given
<1>10. Related(table, After(list, i - 1, outer))
  BY <1>2, <1>8 DEF Related, given
<1> QED
  BY <1>0, <1>1, <1>9, <1>10 DEF Ready, inside

-----------------------------------------------------------------------------
(* The check of a list and the types of what it places.                    *)

\* A statement has the types it should have.
Fitting(x, ret, all) ==
  /\ Agrees(x.env, all, Expression(x.s))
  /\ TypeIn(x.env, all, Expression(x.s)) \in Wanted(x, ret)

\* What the check does not look at: names out of scope, arguments of calls.
Bound(x, all) ==
  /\ \A name \in Uses(x.s) : x.env[name] # Nowhere
  /\ WellGiven(x.env, all, Expression(x.s))

\* With a table that is related to the scope the check says so.
LEMMA SuitsIs ==
  ASSUME NEW table \in Seq(Variable), NEW x \in Place, Related(table, x.env), Proper(x.env), NEW ret,
         NEW all \in SUBSET Function(Expr), OnlyI32(Expression(x.s), all)
  PROVE  /\ Suits(table, x.s, ret) /\ Bound(x, all) => Fitting(x, ret, all)
         /\ Fitting(x, ret, all) => Suits(table, x.s, ret)
<1> DEFINE s == x.s
           env == x.env
           e == Expression(s)
<1>1. s \in Stmts(Expr) /\ env \in Environment
  BY DEF Place
<1>2. LooksStmt(s, Expr, Block(Expr))
  BY <1>1, SomeExpr, StmtLooks
<1> HIDE DEF s, env
<1>3. e \in Expr
  BY <1>2 DEF LooksStmt, Expression
<1>4. s.kind = "assign" => s.name \in Idents /\ s.name \in Uses(s)
  BY <1>2 DEF LooksStmt, Uses
<1>5. NamesIn(e) \subseteq Uses(s) /\ NamesIn(e) \subseteq Idents
  BY <1>3, NamesAre DEF Uses
<1>6. Match(table, env)
  <2>1. ASSUME NEW name \in Idents, env[name].type # "none" PROVE Vget(table, name) = env[name].type
    <3> DEFINE type == env[name].type
    <3>1. /\ \E v \in Range(table) : v.name = name
          /\ \A v \in Range(table) : v.name = name => v.type = type
      BY <2>1 DEF Related, env
    <3> HIDE DEF type
    <3>2. Vget(table, name) = type
      <4>1. Vget(table, name) # "none" => \E v \in Range(table) : v.name = name /\ v.type = Vget(table, name)
        BY VgetIs
      <4>2. Vget(table, name) # "none"
        BY <3>1, VgetIs
      <4> QED
        BY <3>1, <4>1, <4>2, Zenon
    <3> QED
      BY <3>2 DEF type
  <2> QED
    BY <2>1 DEF Match
<1>a. OnlyI32(e, all)
  BY DEF s
<1>7. /\ Agrees(env, all, e) => /\ Faultless(table, e) /\ TypeOf(table, e) = TypeIn(env, all, e)
      /\ (\A name \in NamesIn(e) : env[name].type # "none") /\ WellGiven(env, all, e) /\ Faultless(table, e)
           => Agrees(env, all, e)
      /\ TypeOf(table, e) \in Types
  BY <1>1, <1>3, <1>6, <1>a, ExprScoped, TypeOfIs
<1>8. \A name \in Idents : env[name] # Nowhere => env[name].type # "none"
  BY DEF Proper, env
<1>9. s.kind = "assign" => (env[s.name].type # "none" => Vget(table, s.name) = env[s.name].type)
  BY <1>4, <1>6 DEF Match
<1>10. Suits(table, s, ret) <=>
         /\ Faultless(table, e)
         /\ s.kind = "let"    => TypeOf(table, e) = s.type
         /\ s.kind = "assign" => Vget(table, s.name) # "none" /\ TypeOf(table, e) = Vget(table, s.name)
         /\ s.kind = "return" => TypeOf(table, e) = ret
  BY DEF Suits
<1>11. Wanted(x, ret) = CASE s.kind = "let"    -> {s.type}
                          [] s.kind = "assign" -> {env[s.name].type}
                          [] s.kind = "return" -> {ret}
                          [] OTHER             -> Types
  BY DEF Wanted, s, env
<1>12. ASSUME Suits(table, s, ret), \A name \in Uses(s) : env[name] # Nowhere, WellGiven(env, all, e)
       PROVE  Agrees(env, all, e) /\ TypeIn(env, all, e) \in Wanted(x, ret)
  <2>1. Agrees(env, all, e) /\ TypeOf(table, e) = TypeIn(env, all, e)
    BY <1>5, <1>7, <1>8, <1>10, <1>12
  <2>2. s.kind = "assign" => env[s.name].type # "none"
    BY <1>4, <1>8, <1>12
  <2> HIDE DEF e
  <2> QED
    BY <1>7, <1>9, <1>10, <1>11, <1>12, <2>1, <2>2
<1>13. ASSUME Agrees(env, all, e), TypeIn(env, all, e) \in Wanted(x, ret) PROVE Suits(table, s, ret)
  <2>1. Faultless(table, e) /\ TypeOf(table, e) = TypeIn(env, all, e)
    BY <1>7, <1>13
  <2>2. s.kind = "assign" => env[s.name].type # "none"
    <3>1. "none" \notin Types
      BY DEF Types
    <3> HIDE DEF e
    <3> QED
      BY <1>7, <1>11, <1>13, <2>1, <3>1
  <2> HIDE DEF e
  <2>3. /\ s.kind = "let"    => TypeOf(table, e) = s.type
        /\ s.kind = "assign" => TypeOf(table, e) = env[s.name].type
        /\ s.kind = "return" => TypeOf(table, e) = ret
    BY <1>11, <1>13, <2>1
  <2> QED
    BY <1>9, <1>10, <2>1, <2>2, <2>3
<1> QED
  BY <1>12, <1>13, Zenon DEF Fitting, Bound, s, env

\* What is called in some places returns i32.
AllOnlyI32(places, all) == \A x \in places : OnlyI32(Expression(x.s), all)

\* The check takes a list just if all it places fits, but for what is not in scope.
ScopedList(list, ret, all) ==
  \A vars \in Seq(Variable) : \A outer \in Scope :
    Ready(list, vars, outer) /\ Proper(outer.env) /\ AllOnlyI32(Placed(list, outer), all) =>
      /\ CheckList(vars, list, ret) /\ (\A x \in Placed(list, outer) : Bound(x, all))
           => \A x \in Placed(list, outer) : Fitting(x, ret, all)
      /\ (\A x \in Placed(list, outer) : Fitting(x, ret, all)) => CheckList(vars, list, ret)

\* By induction over the list.
LEMMA ListIsScoped ==
  ASSUME NEW ret, NEW all \in SUBSET Function(Expr)
  PROVE  \A list \in Block(Expr) : ScopedList(list, ret, all)
<1> DEFINE P == {list \in Block(Expr) : ScopedList(list, ret, all)}
<1>1. ASSUME NEW list \in Block(Expr), \A i \in DOMAIN list : Inner(list[i]) \subseteq P,
             NEW vars \in Seq(Variable), NEW outer \in Scope, Ready(list, vars, outer), Proper(outer.env),
             AllOnlyI32(Placed(list, outer), all), NEW i \in DOMAIN list
      PROVE  LET table == TableAt(vars, list, i)
                 places == From(list, i, outer)
                 fine == Suits(table, list[i], ret) /\ CheckList(table, Within(list[i]), ret)
             IN /\ fine /\ (\A x \in places : Bound(x, all)) => \A x \in places : Fitting(x, ret, all)
                /\ (\A x \in places : Fitting(x, ret, all)) => fine
  <2> DEFINE table == TableAt(vars, list, i)
             s == list[i]
             here == Here(list, i, outer)
             env == After(list, i - 1, outer)
             InBlock(n) == Placed(Blocks(s)[n], ScopeAt(list, i, outer, n))
             Good(list1, table1, places) ==
               /\ CheckList(table1, list1, ret) /\ (\A x \in places : Bound(x, all))
                    => \A x \in places : Fitting(x, ret, all)
               /\ (\A x \in places : Fitting(x, ret, all)) => CheckList(table1, list1, ret)
  <2>1. i \in 1 .. Len(list) + 1 /\ i - 1 \in 0 .. Len(list)
    BY DEF Block
  <2>2. table \in Seq(Variable)
    BY <2>1, TableIs
  <2>3. here \in Place /\ here.s = s /\ here.env = env
    BY HereIs DEF Here
  <2>4. Related(table, env) /\ Proper(env)
    BY <1>1, <2>1, RelatedBefore, ProperAfter
  <2>7. From(list, i, outer) = {here} \cup UNION {InBlock(n) : n \in DOMAIN Blocks(s)}
    BY DEF From
  <2>11. /\ OnlyI32(Expression(here.s), all)
         /\ \A n \in DOMAIN Blocks(s) : AllOnlyI32(InBlock(n), all)
    <3>1. From(list, i, outer) \subseteq Placed(list, outer)
      BY FromIs
    <3>2. here \in Placed(list, outer) /\ \A n \in DOMAIN Blocks(s) : InBlock(n) \subseteq Placed(list, outer)
      BY <2>7, <3>1
    <3> HIDE DEF here, InBlock, s
    <3> QED
      BY <1>1, <3>2 DEF AllOnlyI32
  <2>5. /\ Suits(table, s, ret) /\ Bound(here, all) => Fitting(here, ret, all)
        /\ Fitting(here, ret, all) => Suits(table, s, ret)
    <3>1. Related(table, here.env) /\ Proper(here.env)
      BY <2>3, <2>4
    <3>3. OnlyI32(Expression(here.s), all)
      BY <2>11
    <3> HIDE DEF table, here, s
    <3>2. /\ Suits(table, here.s, ret) /\ Bound(here, all) => Fitting(here, ret, all)
          /\ Fitting(here, ret, all) => Suits(table, here.s, ret)
      BY <2>2, <2>3, <3>1, <3>3, SuitsIs
    <3> QED
      BY <2>3, <3>2
  <2>6. ASSUME NEW n \in DOMAIN Blocks(s), NEW t \in Seq(Variable),
               Range(t) = Range(table) \cup (IF n = 1 THEN {} ELSE Range(Lets(Blocks(s)[1])))
        PROVE  Good(Blocks(s)[n], t, InBlock(n))
    <3>1. Ready(Blocks(s)[n], t, ScopeAt(list, i, outer, n))
      BY <1>1, <2>6, ReadyWithin
    <3>2. Blocks(s)[n] \in P /\ ScopeAt(list, i, outer, n) \in Scope
      BY <1>1, InnerBlocks, HereIs
    <3>3. Proper(ScopeAt(list, i, outer, n).env)
      BY <2>4 DEF ScopeAt
    <3>4. ScopedList(Blocks(s)[n], ret, all)
      BY <3>2
    <3> QED
      BY <2>11, <3>1, <3>2, <3>3, <3>4, Zenon DEF ScopedList
  <2>8. CASE s.kind = "while"
    <3>1. Blocks(s) = <<s.body>> /\ s.body \in Block(Expr)
      BY <2>8, WithinIs
    <3>2. DOMAIN Blocks(s) = {1} /\ Blocks(s)[1] = s.body
      BY <3>1
    <3>3. CheckList(table, Within(s), ret) <=> CheckList(table, s.body, ret)
      BY <2>2, <2>8, CheckWithin
    <3>4. Good(s.body, table, InBlock(1))
      BY <2>2, <2>6, <3>2
    <3>5. From(list, i, outer) = {here} \cup InBlock(1)
      BY <2>7, <3>2
    <3> HIDE DEF table, s, here, InBlock
    <3>6. \A A : (\A x \in {here} \cup InBlock(1) : x \in A) <=> here \in A /\ \A x \in InBlock(1) : x \in A
      OBVIOUS
    <3>7. /\ (\A x \in From(list, i, outer) : Bound(x, all)) <=> Bound(here, all) /\ \A x \in InBlock(1) : Bound(x, all)
          /\ (\A x \in From(list, i, outer) : Fitting(x, ret, all))
                <=> Fitting(here, ret, all) /\ \A x \in InBlock(1) : Fitting(x, ret, all)
      BY <3>5
    <3> QED
      BY <2>5, <3>3, <3>4, <3>7 DEF table, s
  <2>9. CASE s.kind = "if"
    <3>1. Blocks(s) = <<s.body, s.else>> /\ s.body \in Block(Expr) /\ s.else \in Block(Expr)
      BY <2>9, WithinIs
    <3>2. DOMAIN Blocks(s) = {1, 2} /\ Blocks(s)[1] = s.body /\ Blocks(s)[2] = s.else
      BY <3>1
    <3> DEFINE both == table \o Lets(s.body)
    <3>3. CheckList(table, Within(s), ret) <=> CheckList(table, s.body, ret) /\ CheckList(both, s.else, ret)
      BY <2>2, <2>9, CheckWithin
    <3>4. Good(s.body, table, InBlock(1))
      BY <2>2, <2>6, <3>2
    <3>5. both \in Seq(Variable) /\ Range(both) = Range(table) \cup Range(Lets(s.body))
      <4>1. Lets(s.body) \in Seq(Variable)
        BY <3>1, LetsIs
      <4> HIDE DEF table
      <4> QED
        BY <2>2, <4>1, RangeOfJoin
    <3> HIDE DEF both
    <3>6. Good(s.else, both, InBlock(2))
      BY <2>6, <3>2, <3>5
    <3>7. From(list, i, outer) = {here} \cup InBlock(1) \cup InBlock(2)
      BY <2>7, <3>2
    <3> HIDE DEF table, s, here, InBlock
    <3>8. /\ (\A x \in From(list, i, outer) : Bound(x, all))
                <=> Bound(here, all) /\ (\A x \in InBlock(1) : Bound(x, all)) /\ \A x \in InBlock(2) : Bound(x, all)
          /\ (\A x \in From(list, i, outer) : Fitting(x, ret, all))
                <=> /\ Fitting(here, ret, all)
                    /\ \A x \in InBlock(1) : Fitting(x, ret, all)
                    /\ \A x \in InBlock(2) : Fitting(x, ret, all)
      BY <3>7
    <3> QED
      BY <2>5, <3>3, <3>4, <3>6, <3>8 DEF table, s
  <2>10. CASE s.kind \notin {"while", "if"}
    <3>1. Blocks(s) = <<>>
      BY <2>10, WithinIs
    <3>2. CheckList(table, Within(s), ret)
      BY <2>2, <2>10, CheckWithin
    <3>3. From(list, i, outer) = {here}
      BY <2>7, <3>1
    <3> HIDE DEF table, s, here, InBlock
    <3> QED
      BY <2>5, <3>2, <3>3 DEF table, s
  <2> QED
    BY <2>8, <2>9, <2>10
<1>2. ASSUME NEW list \in Block(Expr), \A i \in DOMAIN list : Inner(list[i]) \subseteq P
      PROVE  ScopedList(list, ret, all)
  <2>1. ASSUME NEW vars \in Seq(Variable), NEW outer \in Scope, Ready(list, vars, outer), Proper(outer.env),
               AllOnlyI32(Placed(list, outer), all)
        PROVE  /\ CheckList(vars, list, ret) /\ (\A x \in Placed(list, outer) : Bound(x, all))
                    => \A x \in Placed(list, outer) : Fitting(x, ret, all)
               /\ (\A x \in Placed(list, outer) : Fitting(x, ret, all)) => CheckList(vars, list, ret)
    <3> DEFINE Fine(i) == /\ Suits(TableAt(vars, list, i), list[i], ret)
                          /\ CheckList(TableAt(vars, list, i), Within(list[i]), ret)
               F(i) == From(list, i, outer)
    <3>1. CheckList(vars, list, ret) <=> \A i \in DOMAIN list : Fine(i)
      BY CheckListIs
    <3>2. \A i \in DOMAIN list :
             /\ Fine(i) /\ (\A x \in F(i) : Bound(x, all)) => \A x \in F(i) : Fitting(x, ret, all)
             /\ (\A x \in F(i) : Fitting(x, ret, all)) => Fine(i)
      BY <1>1, <1>2, <2>1
    <3>3. /\ \A i \in DOMAIN list : F(i) \subseteq Placed(list, outer)
          /\ \A x \in Placed(list, outer) : \E i \in DOMAIN list : x \in F(i)
      BY FromIs
    <3> HIDE DEF Fine, F
    <3> QED
      BY <3>1, <3>2, <3>3
  <2> QED
    BY <2>1 DEF ScopedList
<1>3. \A list \in Block(Expr) : (\A i \in DOMAIN list : Inner(list[i]) \subseteq P) => list \in P
  BY <1>2
<1> HIDE DEF P
<1>4. Block(Expr) \subseteq P
  BY <1>3, BlockInduction, SomeExpr
<1> QED
  BY <1>4 DEF P

-----------------------------------------------------------------------------
(* Functions.                                                              *)

\* A function enters its body with its parameters in the table and in scope.
LEMMA EntryIs ==
  ASSUME NEW fn \in Function(Expr)
  PROVE  /\ Entry(fn) \in Scope /\ Proper(Entry(fn).env)
         /\ DeclaresOnce(fn) => Ready(fn.body, fn.params, Entry(fn))
<1>1. /\ fn.params \in Seq(Variable) /\ fn.body \in Block(Expr)
      /\ DOMAIN fn.params = 1 .. Len(fn.params) /\ Len(fn.params) \in Nat
      /\ \A i \in DOMAIN fn.params : fn.params[i] \in Variable /\ fn.params[i].type \in Types
  <2>1. fn.params \in Seq(Variable) /\ fn.body \in Block(Expr)
    BY DEF Function
  <2>2. \A v \in Variable : v.type \in Types
    BY DEF Variable
  <2> QED
    BY <2>1, <2>2
<1> DEFINE params == fn.params
           Given(name) == {i \in DOMAIN params : params[i].name = name}
           env == Entry(fn).env
<1>2. ASSUME NEW name \in Idents
      PROVE  \/ Given(name) = {} /\ env[name] = Nowhere
             \/ \E l \in DOMAIN params :
                  params[l].name = name /\ env[name] = [at |-> <<0, l>>, type |-> params[l].type]
  <2>1. CASE Given(name) = {}
    BY <2>1 DEF Entry
  <2>2. CASE Given(name) # {}
    <3>1. Latest(Given(name)) \in Given(name)
      BY <1>1, <2>2, LatestIs, Given(name) \in SUBSET (1 .. Len(fn.params))
    <3>2. env[name] = [at |-> <<0, Latest(Given(name))>>, type |-> params[Latest(Given(name))].type]
      BY <2>2 DEF Entry
    <3> DEFINE l == Latest(Given(name))
    <3>3. l \in DOMAIN params /\ params[l].name = name
      BY <3>1
    <3>4. env[name] = [at |-> <<0, l>>, type |-> params[l].type]
      BY <3>2
    <3> HIDE DEF l, Given, env, params
    <3> QED
      BY <3>3, <3>4
  <2> QED
    BY <2>1, <2>2
<1>3. Entry(fn) = [at |-> <<>>, env |-> env] /\ env = [name \in Idents |-> env[name]]
  BY DEF Entry
<1>4. \A name \in Idents : Given(name) = {} => \A v \in Range(params) : v.name # name
  BY DEF Range
<1> HIDE DEF env, Given
<1>5. ASSUME NEW name \in Idents
      PROVE  /\ env[name] \in [at : Seq(Nat), type : Types \cup {"none"}]
             /\ env[name] = Nowhere \/ env[name].type # "none"
  <2>1. CASE env[name] = Nowhere
    BY <2>1 DEF Nowhere
  <2>2. ASSUME NEW l \in DOMAIN params, env[name] = [at |-> <<0, l>>, type |-> params[l].type]
        PROVE  /\ env[name] \in [at : Seq(Nat), type : Types \cup {"none"}]
               /\ env[name].type # "none"
    <3>1. params[l].type \in Types /\ l \in Nat
      BY <1>1
    <3>2. <<0, l>> \in Seq(Nat) /\ "none" \notin Types
      BY <3>1 DEF Types
    <3> HIDE DEF params
    <3> QED
      BY <2>2, <3>1, <3>2
  <2> QED
    BY <1>2, <2>1, <2>2
<1>6. Entry(fn) \in Scope /\ Proper(Entry(fn).env)
  <2>1. env \in Environment
    BY <1>3, <1>5 DEF Environment
  <2>2. Proper(env)
    BY <1>5 DEF Proper
  <2>3. Entry(fn).env = env
    BY DEF env
  <2>4. [at |-> <<>>, env |-> env] \in Scope
    BY <2>1 DEF Scope
  <2> QED
    BY <1>3, <2>2, <2>3, <2>4, Zenon
<1>7. ASSUME DeclaresOnce(fn) PROVE Ready(fn.body, fn.params, Entry(fn))
  <2>1. \A i, j \in DOMAIN params : params[i].name = params[j].name => i = j
    BY <1>7 DEF DeclaresOnce, IsInjective
  <2>2. ASSUME NEW name \in Idents, env[name].type # "none"
        PROVE  /\ \E v \in Range(params) : v.name = name
               /\ \A v \in Range(params) : v.name = name => v.type = env[name].type
    <3>1. env[name] # Nowhere
      BY <2>2 DEF Nowhere
    <3>2. PICK l \in DOMAIN params :
                  params[l].name = name /\ env[name] = [at |-> <<0, l>>, type |-> params[l].type]
      BY <1>2, <3>1
    <3> HIDE DEF params
    <3> QED
      BY <2>1, <3>2 DEF Range
  <2>3. Related(params, env)
    BY <2>2 DEF Related
  <2>4. Once(Placed(fn.body, Entry(fn)))
    BY <1>7 DEF DeclaresOnce, Once, IsLet, Statements
  <2>5. Fresh(Placed(fn.body, Entry(fn)), params)
    BY <1>7 DEF DeclaresOnce, Fresh, IsLet, Statements, Range
  <2> QED
    BY <2>3, <2>4, <2>5 DEF Ready, env
<1> QED
  BY <1>6, <1>7

\* What the check says of a function that declares no name twice.
LEMMA FunctionIsScoped ==
  ASSUME NEW fn \in Function(Expr), DeclaresOnce(fn),
         NEW all \in SUBSET Function(Expr), CallsI32(fn, all)
  PROVE  /\ CheckList(fn.params, fn.body, fn.ret) /\ AllBound(fn, FALSE) /\ CallsSuited(fn, all)
              => WellTyped(fn, all)
         /\ WellTyped(fn, all) => CheckList(fn.params, fn.body, fn.ret)
<1> DEFINE places == Placed(fn.body, Entry(fn))
<1>1. fn.params \in Seq(Variable) /\ fn.body \in Block(Expr)
  BY DEF Function
<1>2. Entry(fn) \in Scope /\ Proper(Entry(fn).env) /\ Ready(fn.body, fn.params, Entry(fn))
  BY EntryIs
<1>3. ScopedList(fn.body, fn.ret, all)
  BY <1>1, ListIsScoped
<1>7. AllOnlyI32(places, all)
  BY Zenon DEF CallsI32, CallsIn, AllOnlyI32, OnlyI32, Statements
<1>4. /\ CheckList(fn.params, fn.body, fn.ret) /\ (\A x \in places : Bound(x, all))
           => \A x \in places : Fitting(x, fn.ret, all)
      /\ (\A x \in places : Fitting(x, fn.ret, all)) => CheckList(fn.params, fn.body, fn.ret)
  BY <1>1, <1>2, <1>3, <1>7, Zenon DEF ScopedList
<1>5. WellTyped(fn, all) <=> \A x \in places : Fitting(x, fn.ret, all)
  BY Zenon DEF WellTyped, Statements, Fitting
<1>6. AllBound(fn, FALSE) /\ CallsSuited(fn, all) => \A x \in places : Bound(x, all)
  <2>1. \A x : Sees(x, FALSE) = x.env
    BY DEF Sees
  <2>2. CallsSuited(fn, all) => \A x \in places : WellGiven(x.env, all, Expression(x.s))
    BY Zenon DEF CallsSuited, CallsIn, WellGiven, Statements
  <2>3. AllBound(fn, FALSE) => \A x \in places : \A name \in Uses(x.s) : x.env[name] # Nowhere
    BY <2>1, Zenon DEF AllBound, Statements
  <2> QED
    BY <2>2, <2>3, Zenon DEF Bound
<1> QED
  BY <1>4, <1>5, <1>6, Zenon

\* The check as a whole.
LEMMA ChecksIsScoped ==
  ASSUME NEW fns \in Seq(Function(Expr))
  PROVE  DecidesAsScoped(Bodies(fns), Range(fns), Checks(fns))
<1> DEFINE bodies == Bodies(fns)
           all == Range(fns)
<1>1. bodies \in Seq(Function(Expr)) /\ all \in SUBSET Function(Expr)
  <2>1. all \in SUBSET Function(Expr)
    BY DEF Range
  <2> QED
    BY <2>1, OnlyKeeps DEF Bodies
<1>2. \A i \in DOMAIN bodies : bodies[i] \in Function(Expr)
  BY <1>1
<1>3. Checks(fns) <=> \A i \in DOMAIN bodies :
                        CheckList(bodies[i].params, bodies[i].body, bodies[i].ret)
  BY Zenon DEF Checks
<1> HIDE DEF bodies, all
<1>4. ASSUME DeclareOnce(bodies), CallsReturnI32(bodies, all)
      PROVE  /\ Checks(fns) /\ NamesBound(bodies) /\ ArgumentsFit(bodies, all) => TypesFit(bodies, all)
             /\ TypesFit(bodies, all) => Checks(fns)
  <2>1. ASSUME NEW i \in DOMAIN bodies
        PROVE  LET fn == bodies[i] IN
               /\ CheckList(fn.params, fn.body, fn.ret) /\ AllBound(fn, FALSE) /\ CallsSuited(fn, all)
                    => WellTyped(fn, all)
               /\ WellTyped(fn, all) => CheckList(fn.params, fn.body, fn.ret)
    <3>1. bodies[i] \in Function(Expr) /\ DeclaresOnce(bodies[i]) /\ CallsI32(bodies[i], all)
      BY <1>2, <1>4, <2>1, Zenon DEF DeclareOnce, CallsReturnI32
    <3> QED
      BY <1>1, <3>1, FunctionIsScoped
  <2> QED
    BY <1>3, <2>1, Zenon DEF NamesBound, ArgumentsFit, TypesFit
<1> QED
  BY <1>4, Zenon DEF DecidesAsScoped, bodies, all

\* The check of sema.c knows one table for a function and no scopes.  For all
\* programs, of any size and depth, in which no function declares a name twice
\* and what is called returns i32, it decides as the scopes and types of the
\* language do, but for names out of scope and the arguments of calls.
THEOREM CheckDecidesAsScoped == SeedSpec => []SemaIsScoped
<1>1. SeedTypeOK => SemaIsScoped
  <2> SUFFICES ASSUME SeedTypeOK, NEW p \in Procs, AtCheck(p)
               PROVE  DecidesAsScoped(BodiesOf(p), AllOf(p), Checked(TextOf(p)))
    BY DEF SemaIsScoped
  <2>1. TextOf(p) \in Texts
    BY DEF Commands, TextOf, SeedTypeOK
  <2>2. Fns(TextOf(p)) \in Seq(Function(Expr)) /\ (Checked(TextOf(p)) <=> Checks(Fns(TextOf(p))))
    BY <2>1, CompilerAssumption DEF AtCheck
  <2>3. DecidesAsScoped(BodiesOf(p), AllOf(p), Checks(Fns(TextOf(p))))
    BY <2>2, ChecksIsScoped DEF BodiesOf, AllOf
  <2> QED
    BY <2>2, <2>3 DEF DecidesAsScoped
<1> QED
  BY <1>1, SeedTypes, PTL

-----------------------------------------------------------------------------
(* Parentheses.                                                            *)

\* What a token opens.
LEMMA OpensIs ==
  \A x : Opens(x) = IF x = "(" THEN 1 ELSE IF x = ")" THEN -1 ELSE 0
BY DEF Opens

\* The depth, token by token.
LEMMA DepthIs ==
  ASSUME NEW A, NEW t \in Seq(A)
  PROVE  /\ Depth(t, 0) = 0
         /\ \A i \in 0 .. Len(t) : Depth(t, i) \in Int
         /\ \A i \in 1 .. Len(t) : Depth(t, i) = Depth(t, i - 1) + Opens(t[i])
<1> DEFINE F == [n \in 1 .. Len(t) |-> [d \in Int |-> d + Opens(t[n])]]
           Is(g) == g = [n \in 0 .. Len(t) |-> IF n = 0 THEN 0 ELSE g[n - 1] + Opens(t[n])]
           open == CHOOSE g : Is(g)
<1>0. Len(t) \in Nat /\ 0 \in Int /\ \A x : Opens(x) \in Int
  BY OpensIs
<1>1. F \in [1 .. Len(t) -> [Int -> Int]]
  BY <1>0
<1>2. PICK f : Runs(f, Len(t), Int, 0, F)
  <2> HIDE DEF F
  <2> QED
    BY <1>0, <1>1, Recursion
<1>3. Is(f)
  <2>1. f \in [0 .. Len(t) -> Int] /\ f[0] = 0
    BY <1>2 DEF Runs
  <2>2. ASSUME NEW n \in 1 .. Len(t) PROVE f[n] = f[n - 1] + Opens(t[n])
    <3>1. f[n - 1] \in Int
      BY <2>1
    <3>2. f[n] = F[n][f[n - 1]]
      BY <1>2, Zenon DEF Runs
    <3> QED
      BY <3>1, <3>2
  <2>3. \A n \in 0 .. Len(t) : n # 0 => n \in 1 .. Len(t)
    OBVIOUS
  <2> QED
    BY <2>1, <2>2, <2>3
<1>4. Is(open)
  <2> HIDE DEF Is
  <2> QED
    BY <1>3, Zenon
<1>5. \A i : Depth(t, i) = open[i]
  BY DEF Depth
<1> HIDE DEF open, F
<1>6. open[0] = 0
  BY <1>4
<1>7. ASSUME NEW n \in 1 .. Len(t) PROVE open[n] = open[n - 1] + Opens(t[n])
  <2>1. n \in 0 .. Len(t) /\ n # 0
    OBVIOUS
  <2> QED
    BY <1>4, <2>1, Zenon
<1> DEFINE P == {n \in 0 .. Len(t) : open[n] \in Int}
<1>8. 0 \in P
  BY <1>6
<1>9. ASSUME NEW n \in 1 .. Len(t), n - 1 \in P PROVE n \in P
  BY <1>0, <1>7, <1>9
<1>10. 0 .. Len(t) \subseteq P
  <2> HIDE DEF P
  <2> QED
    BY <1>0, <1>8, <1>9, UpTo
<1> QED
  BY <1>5, <1>6, <1>7, <1>10

\* The same of texts.
LEMMA TokensDepth ==
  \A t \in Seq(Tokens) :
    /\ Depth(t, 0) = 0
    /\ \A i \in 0 .. Len(t) : Depth(t, i) \in Int
    /\ \A i \in 1 .. Len(t) : Depth(t, i) = Depth(t, i - 1) + Opens(t[i])
<1>1. ASSUME NEW t \in Seq(Tokens)
      PROVE  /\ Depth(t, 0) = 0
             /\ \A i \in 0 .. Len(t) : Depth(t, i) \in Int
             /\ \A i \in 1 .. Len(t) : Depth(t, i) = Depth(t, i - 1) + Opens(t[i])
  BY DepthIs
<1> QED
  BY <1>1, Zenon

\* What stands in a sequence as in another is as deep there.
LEMMA DepthWindow ==
  ASSUME NEW s \in Seq(Tokens), NEW t \in Seq(Tokens), NEW k \in Nat, k + Len(t) <= Len(s),
         \A i \in 1 .. Len(t) : s[k + i] = t[i]
  PROVE  \A i \in 0 .. Len(t) : Depth(s, k + i) = Depth(s, k) + Depth(t, i)
<1> DEFINE P == {i \in 0 .. Len(t) : Depth(s, k + i) = Depth(s, k) + Depth(t, i)}
<1>0. Len(t) \in Nat /\ Len(s) \in Nat
  OBVIOUS
<1>1. 0 \in P
  <2>1. k \in 0 .. Len(s) /\ k + 0 = k
    BY <1>0
  <2> QED
    BY <1>0, <2>1, TokensDepth
<1>2. ASSUME NEW i \in 1 .. Len(t), i - 1 \in P PROVE i \in P
  <2>1. k + i \in 1 .. Len(s) /\ (k + i) - 1 = k + (i - 1) /\ k \in 0 .. Len(s)
          /\ k + (i - 1) \in 0 .. Len(s) /\ i - 1 \in 0 .. Len(t) /\ i \in 0 .. Len(t)
    BY <1>0
  <2>2. Depth(s, k + i) = Depth(s, (k + i) - 1) + Opens(s[k + i])
    BY <2>1, TokensDepth
  <2>3. Depth(t, i) = Depth(t, i - 1) + Opens(t[i])
    BY TokensDepth
  <2>4. Depth(s, k + (i - 1)) = Depth(s, k) + Depth(t, i - 1)
    BY <1>2
  <2>5. Depth(s, k) \in Int /\ Depth(t, i - 1) \in Int
    BY <2>1, TokensDepth
  <2>6. Opens(t[i]) \in Int
    BY OpensIs
  <2> QED
    BY <2>1, <2>2, <2>3, <2>4, <2>5, <2>6
<1>3. 0 .. Len(t) \subseteq P
  <2> HIDE DEF P
  <2> QED
    BY <1>0, <1>1, <1>2, UpTo
<1> QED
  BY <1>3

\* All parentheses are closed, and none before it was opened.
Balanced(t) ==
  /\ t \in Seq(Tokens)
  /\ Depth(t, Len(t)) = 0
  /\ \A i \in 0 .. Len(t) : Depth(t, i) >= 0

\* What an operator may stand behind.
Operands == Idents \cup Numbers \cup {")"}

\* A text that is read as one.
Whole(t) ==
  /\ Balanced(t) /\ Len(t) >= 1
  /\ OuterOperators(t) = {} /\ OuterCommas(t) = {}
  /\ t[Len(t)] \in Operands

\* w is t with parentheses around it.
Wraps(w, t) ==
  /\ w \in Seq(Tokens) /\ Len(w) = Len(t) + 2 /\ w[1] = "(" /\ w[Len(t) + 2] = ")"
  /\ \A i \in 1 .. Len(t) : w[1 + i] = t[i]

\* No two of these are the same.
LEMMA Distinct ==
  /\ \A x \in Idents \cup Numbers : x \notin Signs /\ x \notin Operators /\ x \notin {"(", ")", ",", " "}
  /\ \A x \in Idents : x \notin Numbers
  /\ \A x \in Signs \cup Operators : x \notin {"(", ")", ",", " "}
  /\ \A x \in Signs \cup Operators : x \notin Operands
  /\ Signs \subseteq Tokens /\ Operators \subseteq Tokens /\ Operands \subseteq Tokens
  /\ Idents \subseteq Tokens /\ Numbers \subseteq Tokens /\ {"(", ")", ","} \subseteq Tokens
<1>1. \A x \in Signs \cup Operators : x \notin {"(", ")", ",", " "}
  BY DEF Signs, Operators, Comparing, Calculating
<1>2. /\ Idents \cap Numbers = {}
      /\ (Idents \cup Numbers) \cap (Signs \cup Operators \cup {"(", ")", ",", " "}) = {}
  BY TreesAssumption
<1> QED
  BY <1>1, <1>2 DEF Operands, Tokens

\* A text in parentheses is read as one.
LEMMA WrapIsWhole ==
  ASSUME NEW t, Balanced(t), NEW w, Wraps(w, t)
  PROVE  Whole(w) /\ Inside(w, 1) = t
<1>0. t \in Seq(Tokens) /\ w \in Seq(Tokens) /\ Len(t) \in Nat /\ Len(w) = Len(t) + 2
  BY DEF Balanced, Wraps
<1>1. Depth(w, 0) = 0 /\ Depth(w, 1) = 1
  <2>1. Depth(w, 0) = 0 /\ \A i \in 1 .. Len(w) : Depth(w, i) = Depth(w, i - 1) + Opens(w[i])
    BY <1>0, TokensDepth
  <2>2. 1 \in 1 .. Len(w)
    BY <1>0
  <2>3. Depth(w, 1) = Depth(w, 1 - 1) + Opens(w[1])
    BY <2>1, <2>2
  <2> QED
    BY <2>1, <2>3, OpensIs DEF Wraps
<1>2. \A i \in 0 .. Len(t) : Depth(w, 1 + i) = 1 + Depth(t, i)
  <2>1. \A i \in 0 .. Len(t) : Depth(w, 1 + i) = Depth(w, 1) + Depth(t, i)
    BY <1>0, DepthWindow DEF Wraps
  <2> QED
    BY <1>1, <2>1
<1>3. Depth(w, Len(t) + 2) = 0
  <2>1. Depth(w, 1 + Len(t)) = 1
    BY <1>0, <1>2, Len(t) \in 0 .. Len(t) DEF Balanced
  <2>2. Depth(w, Len(t) + 2) = Depth(w, (Len(t) + 2) - 1) + Opens(w[Len(t) + 2])
    BY <1>0, TokensDepth
  <2>3. (Len(t) + 2) - 1 = 1 + Len(t) /\ Opens(w[Len(t) + 2]) = -1
    BY <1>0, OpensIs DEF Wraps
  <2> QED
    BY <2>1, <2>2, <2>3
<1>4. ASSUME NEW i \in 1 .. Len(w) - 1 PROVE Depth(w, i) >= 1
  <2>1. i - 1 \in 0 .. Len(t) /\ 1 + (i - 1) = i
    BY <1>0
  <2>2. Depth(w, i) = 1 + Depth(t, i - 1) /\ Depth(t, i - 1) >= 0 /\ Depth(t, i - 1) \in Int
    <3>1. Depth(w, 1 + (i - 1)) = 1 + Depth(t, i - 1)
      BY <1>2, <2>1
    <3> QED
      BY <1>0, <2>1, <3>1, TokensDepth DEF Balanced
  <2> QED
    BY <2>2
<1>5. Balanced(w)
  <2>1. ASSUME NEW i \in 0 .. Len(w) PROVE Depth(w, i) >= 0
    <3>1. i = 0 \/ i = Len(t) + 2 \/ i \in 1 .. Len(w) - 1
      BY <1>0
    <3>2. i \in 1 .. Len(w) - 1 => Depth(w, i) >= 1 /\ Depth(w, i) \in Int
      BY <1>0, <1>4, TokensDepth
    <3> QED
      BY <1>1, <1>3, <3>1, <3>2
  <2> QED
    BY <1>0, <1>3, <2>1 DEF Balanced
<1>6. \A i \in DOMAIN w : Depth(w, i) = 0 => i = Len(w)
  <2>1. \A i \in DOMAIN w : i \in 1 .. Len(w) - 1 \/ i = Len(w)
    BY <1>0
  <2> QED
    BY <1>4, <2>1
<1>7. w[Len(w)] = ")" /\ ")" \in Operands
  BY <1>0 DEF Wraps, Operands
<1>8. OuterOperators(w) = {}
  <2>1. w[Len(w)] \notin Operators
    BY <1>7, Distinct
  <2> QED
    BY <1>0, <1>6, <2>1 DEF OuterOperators
<1>9. OuterCommas(w) = {}
  BY <1>0, <1>6, <1>7 DEF OuterCommas
<1>10. Inside(w, 1) = t
  <2> DEFINE u == SubSeq(w, 2, Len(w) - 1)
  <2>1. u \in Seq(Tokens) /\ Len(u) = Len(t) /\ \A i \in 1 .. Len(t) : u[i] = w[1 + i]
    BY <1>0
  <2> HIDE DEF u
  <2>2. u = t
    BY <1>0, <2>1, SeqEqual DEF Wraps
  <2> QED
    BY <2>2 DEF Inside, u
<1> QED
  BY <1>0, <1>5, <1>7, <1>8, <1>9, <1>10 DEF Whole

\* What x is.
Comma(x) == x = ","
Bracket(x) == x \in {"(", ")"}

\* Marks are told apart.
LEMMA MarksAre ==
  /\ \A x : ~Bracket(x) => Opens(x) = 0
  /\ \A x \in Idents \cup Numbers \cup Signs \cup Operators : ~Bracket(x) /\ ~Comma(x) /\ x \in Tokens
  /\ \A x : Comma(x) => ~Bracket(x) /\ x \in Tokens /\ x \notin Operators
  /\ \A x \in Signs \cup Operators : x \notin Operands
  /\ \A x \in Idents \cup Numbers : x \in Operands
<1>1. \A x : ~Bracket(x) => Opens(x) = 0
  BY OpensIs DEF Bracket
<1>2. \A x \in Idents \cup Numbers \cup Signs \cup Operators : ~Bracket(x) /\ ~Comma(x) /\ x \in Tokens
  BY Distinct, Zenon DEF Bracket, Comma
<1>3. "," \in Tokens /\ "," \notin Operators
  BY Distinct, Zenon
<1>4. \A x : Comma(x) => ~Bracket(x) /\ x \in Tokens /\ x \notin Operators
  BY <1>3 DEF Bracket, Comma
<1>5. \A x \in Signs \cup Operators : x \notin Operands
  BY Distinct, Zenon
<1>6. \A x \in Idents \cup Numbers : x \in Operands
  BY DEF Operands
<1> QED
  BY <1>1, <1>2, <1>4, <1>5, <1>6

\* Operators and commas outside of parentheses.
LEMMA OuterAre ==
  ASSUME NEW t
  PROVE  /\ \A i : i \in OuterCommas(t) <=> i \in DOMAIN t /\ Comma(t[i]) /\ Depth(t, i) = 0
         /\ \A i : i \in OuterOperators(t) <=>
              i \in 2 .. Len(t) /\ t[i] \in Operators /\ t[i - 1] \in Operands /\ Depth(t, i) = 0
BY Zenon DEF OuterCommas, OuterOperators, Comma, Operands

\* m is l and r with x between them.
Joins(m, l, x, r) ==
  /\ m \in Seq(Tokens) /\ Len(m) = Len(l) + 1 + Len(r) /\ m[Len(l) + 1] = x
  /\ \A i \in 1 .. Len(l) : m[i] = l[i]
  /\ \A i \in 1 .. Len(r) : m[Len(l) + 1 + i] = r[i]

\* The depth within a part of a text.
LEMMA TokensWindow ==
  \A s, t \in Seq(Tokens) : \A k \in Nat :
    k + Len(t) <= Len(s) /\ (\A i \in 1 .. Len(t) : s[k + i] = t[i]) =>
       \A i \in 0 .. Len(t) : Depth(s, k + i) = Depth(s, k) + Depth(t, i)
BY DepthWindow

\* Two balanced texts with a token between them are balanced.
LEMMA JoinedIs ==
  ASSUME NEW l, Balanced(l), NEW r, Balanced(r), NEW x, ~Bracket(x), NEW m, Joins(m, l, x, r)
  PROVE  /\ Balanced(m)
         /\ \A i \in 0 .. Len(l) : Depth(m, i) = Depth(l, i)
         /\ Depth(m, Len(l) + 1) = 0
         /\ \A i \in 0 .. Len(r) : Depth(m, Len(l) + 1 + i) = Depth(r, i)
         /\ Upto(m, Len(l) + 1) = l /\ Behind(m, Len(l) + 1) = r
<1>0. /\ l \in Seq(Tokens) /\ r \in Seq(Tokens) /\ m \in Seq(Tokens)
      /\ Len(l) \in Nat /\ Len(r) \in Nat /\ Len(m) = Len(l) + 1 + Len(r)
      /\ m[Len(l) + 1] = x
      /\ \A i \in 1 .. Len(l) : m[i] = l[i]
      /\ \A i \in 1 .. Len(r) : m[Len(l) + 1 + i] = r[i]
  <2>1. l \in Seq(Tokens) /\ r \in Seq(Tokens)
    BY Zenon DEF Balanced
  <2>2. Len(l) \in Nat /\ Len(r) \in Nat
    BY <2>1
  <2> QED
    BY <2>1, <2>2, Zenon DEF Joins
<1>1. Depth(m, 0) = 0 /\ \A i \in 1 .. Len(m) : Depth(m, i) = Depth(m, i - 1) + Opens(m[i])
  <2>1. m \in Seq(Tokens)
    BY DEF Joins
  <2> QED
    BY <2>1, TokensDepth
<1> DEFINE Window(k, t) ==
             k + Len(t) <= Len(m) /\ (\A i \in 1 .. Len(t) : m[k + i] = t[i]) =>
                \A i \in 0 .. Len(t) : Depth(m, k + i) = Depth(m, k) + Depth(t, i)
<1>w. \A k \in Nat, t \in Seq(Tokens) : Window(k, t)
  BY <1>0, TokensWindow, Zenon
<1>2. ASSUME NEW i \in 0 .. Len(l) PROVE Depth(m, i) = Depth(l, i)
  <2>1. \A j \in 0 .. Len(l) : Depth(m, 0 + j) = Depth(m, 0) + Depth(l, j)
    <3>1. 0 \in Nat /\ 0 + Len(l) <= Len(m) /\ \A j \in 1 .. Len(l) : m[0 + j] = l[j]
      BY <1>0
    <3> QED
      BY <1>0, <1>w, <3>1, Zenon
  <2>2. Depth(l, i) \in Int
    BY <1>0, TokensDepth
  <2>3. Depth(m, 0 + i) = Depth(m, 0) + Depth(l, i) /\ 0 + i = i
    BY <2>1
  <2> QED
    BY <1>1, <2>2, <2>3
<1>3. Depth(m, Len(l) + 1) = 0
  <2>1. Depth(m, Len(l)) = 0
    BY <1>0, <1>2 DEF Balanced
  <2>2. Len(l) + 1 \in 1 .. Len(m) /\ (Len(l) + 1) - 1 = Len(l)
    BY <1>0
  <2>3. Depth(m, Len(l) + 1) = Depth(m, (Len(l) + 1) - 1) + Opens(x)
    BY <1>0, <1>1, <2>2
  <2> QED
    BY <2>1, <2>2, <2>3, MarksAre
<1>4. ASSUME NEW i \in 0 .. Len(r) PROVE Depth(m, Len(l) + 1 + i) = Depth(r, i)
  <2>1. /\ Len(l) + 1 \in Nat /\ Len(l) + 1 + Len(r) <= Len(m)
        /\ \A j \in 1 .. Len(r) : m[Len(l) + 1 + j] = r[j]
    BY <1>0
  <2>2. \A j \in 0 .. Len(r) : Depth(m, Len(l) + 1 + j) = Depth(m, Len(l) + 1) + Depth(r, j)
    BY <1>0, <1>w, <2>1, Zenon
  <2>3. Depth(r, i) \in Int
    BY <1>0, TokensDepth
  <2> QED
    BY <1>3, <2>2, <2>3
<1>5. Balanced(m)
  <2>1. Depth(m, Len(m)) = 0
    BY <1>0, <1>4, Len(r) \in 0 .. Len(r) DEF Balanced
  <2>2. ASSUME NEW i \in 0 .. Len(m) PROVE Depth(m, i) >= 0
    <3>1. CASE i \in 0 .. Len(l)
      BY <1>2, <3>1 DEF Balanced
    <3>2. CASE i \notin 0 .. Len(l)
      <4>1. i - (Len(l) + 1) \in 0 .. Len(r) /\ Len(l) + 1 + (i - (Len(l) + 1)) = i
        BY <1>0, <3>2
      <4>2. Depth(m, Len(l) + 1 + (i - (Len(l) + 1))) = Depth(r, i - (Len(l) + 1))
        BY <1>4, <4>1
      <4> QED
        BY <4>1, <4>2 DEF Balanced
    <3> QED
      BY <3>1, <3>2
  <2> QED
    BY <1>0, <2>1, <2>2 DEF Balanced
<1>6. Upto(m, Len(l) + 1) = l
  <2> DEFINE u == SubSeq(m, 1, (Len(l) + 1) - 1)
  <2>1. u \in Seq(Tokens) /\ Len(u) = Len(l) /\ \A i \in 1 .. Len(l) : u[i] = m[i]
    BY <1>0
  <2> HIDE DEF u
  <2>2. u = l
    BY <1>0, <2>1, SeqEqual
  <2> QED
    BY <2>2 DEF Upto, u
<1>7. Behind(m, Len(l) + 1) = r
  <2> DEFINE u == SubSeq(m, Len(l) + 1 + 1, Len(m))
  <2>1. u \in Seq(Tokens) /\ Len(u) = Len(r) /\ \A i \in 1 .. Len(r) : u[i] = m[Len(l) + 1 + i]
    BY <1>0
  <2> HIDE DEF u
  <2>2. u = r
    BY <1>0, <2>1, SeqEqual
  <2> QED
    BY <2>2 DEF Behind, u
<1> QED
  BY <1>2, <1>3, <1>4, <1>5, <1>6, <1>7

\* A number or a name alone.
LEMMA WholeOne ==
  ASSUME NEW x \in Idents \cup Numbers
  PROVE  Whole(<<x>>)
<1>0. x \in Tokens /\ ~Bracket(x) /\ ~Comma(x) /\ x \in Operands /\ Opens(x) = 0
  BY MarksAre
<1> DEFINE w == <<x>>
<1>1. w \in Seq(Tokens) /\ Len(w) = 1 /\ w[1] = x
  BY <1>0
<1> HIDE DEF w
<1>2. Depth(w, 0) = 0 /\ Depth(w, 1) = 0
  <2>1. Depth(w, 1) = Depth(w, 1 - 1) + Opens(w[1]) /\ Depth(w, 0) = 0
    BY <1>1, 1 \in 1 .. Len(w), TokensDepth
  <2> QED
    BY <1>0, <1>1, <2>1
<1>3. \A i \in 0 .. Len(w) : i = 0 \/ i = 1
  BY <1>1
<1>4. Balanced(w)
  BY <1>1, <1>2, <1>3 DEF Balanced
<1>5. Whole(w)
  BY <1>0, <1>1, <1>4, OuterAre DEF Whole
<1> QED
  BY <1>5 DEF w

\* A sign or a name before what it belongs to.
LEMMA PrefixIsWhole ==
  ASSUME NEW v, Whole(v), NEW x \in Tokens, ~Bracket(x), ~Comma(x),
         v[1] \notin Operators \/ x \notin Operands
  PROVE  Whole(<<x>> \o v) /\ Behind(<<x>> \o v, 1) = v
<1> DEFINE w == <<x>> \o v
           e == <<>>
<1>0. v \in Seq(Tokens) /\ Balanced(v) /\ Len(v) \in Nat /\ Len(v) >= 1
  BY DEF Whole, Balanced
<1>1. Balanced(e)
  <2>1. e \in Seq(Tokens) /\ Len(e) = 0 /\ \A i \in 0 .. Len(e) : i = 0
    OBVIOUS
  <2>2. Depth(e, 0) = 0
    BY <2>1, TokensDepth
  <2> QED
    BY <2>1, <2>2 DEF Balanced
<1>2. Joins(w, e, x, v)
  BY <1>0 DEF Joins
<1>3. Len(e) = 0 /\ Len(w) = 1 + Len(v) /\ w \in Seq(Tokens) /\ w[1] = x
        /\ \A i \in 1 .. Len(v) : w[1 + i] = v[i]
  BY <1>0
<1>j. \A a, b, y, u : Balanced(a) /\ Balanced(b) /\ ~Bracket(y) /\ Joins(u, a, y, b) =>
        /\ Balanced(u) /\ \A i \in 0 .. Len(b) : Depth(u, Len(a) + 1 + i) = Depth(b, i)
        /\ Behind(u, Len(a) + 1) = b
  BY JoinedIs
<1> HIDE DEF w, e
<1>4. /\ Balanced(w) /\ \A i \in 0 .. Len(v) : Depth(w, Len(e) + 1 + i) = Depth(v, i)
      /\ Behind(w, Len(e) + 1) = v
  BY <1>0, <1>1, <1>2, <1>j, Zenon
<1>5. Behind(w, 1) = v /\ \A i \in 1 .. Len(v) : Depth(w, 1 + i) = Depth(v, i)
  BY <1>0, <1>3, <1>4
<1>6. OuterOperators(w) = {}
  <2> SUFFICES ASSUME NEW i \in 2 .. Len(w), w[i] \in Operators, w[i - 1] \in Operands,
                      Depth(w, i) = 0
               PROVE  FALSE
    BY OuterAre
  <2>1. i - 1 \in 1 .. Len(v) /\ 1 + (i - 1) = i
    BY <1>0, <1>3
  <2>2. v[i - 1] = w[i] /\ Depth(v, i - 1) = 0
    BY <1>3, <1>5, <2>1
  <2>3. CASE i = 2
    BY <1>3, <2>2, <2>3
  <2>4. CASE i # 2
    <3>1. i - 1 \in 2 .. Len(v) /\ (i - 1) - 1 \in 1 .. Len(v) /\ 1 + ((i - 1) - 1) = i - 1
      BY <2>1, <2>4
    <3>2. v[(i - 1) - 1] = w[i - 1]
      BY <1>3, <3>1
    <3>3. i - 1 \in OuterOperators(v)
      BY <2>2, <3>1, <3>2, OuterAre
    <3> QED
      BY <3>3 DEF Whole
  <2> QED
    BY <2>3, <2>4
<1>7. OuterCommas(w) = {}
  <2> SUFFICES ASSUME NEW i \in 1 .. Len(w), Comma(w[i]), Depth(w, i) = 0 PROVE FALSE
    BY <1>3, OuterAre
  <2>1. i - 1 \in 1 .. Len(v) /\ 1 + (i - 1) = i
    BY <1>0, <1>3
  <2>2. Comma(v[i - 1]) /\ Depth(v, i - 1) = 0
    BY <1>3, <1>5, <2>1
  <2>3. i - 1 \in OuterCommas(v)
    BY <1>0, <2>1, <2>2, OuterAre
  <2> QED
    BY <2>3 DEF Whole
<1>8. w[Len(w)] \in Operands /\ Len(w) >= 1
  <2>1. w[1 + Len(v)] = v[Len(v)]
    BY <1>0, <1>3
  <2> QED
    BY <1>0, <1>3, <2>1 DEF Whole
<1>9. Whole(w) /\ Behind(w, 1) = v
  <2>1. Balanced(w) /\ w \in Seq(Tokens) /\ Behind(w, 1) = v
    BY <1>3, <1>4, <1>5
  <2> QED
    BY <1>6, <1>7, <1>8, <2>1, Zenon DEF Whole
<1> QED
  BY <1>9 DEF w

\* An operator between its operands.
LEMMA InfixIs ==
  ASSUME NEW l, Whole(l), NEW r, Whole(r), NEW op \in Operators, NEW m, Joins(m, l, op, r)
  PROVE  /\ Balanced(m) /\ OuterOperators(m) = {Len(l) + 1} /\ OuterCommas(m) = {}
         /\ Upto(m, Len(l) + 1) = l /\ Behind(m, Len(l) + 1) = r
<1>0. /\ l \in Seq(Tokens) /\ r \in Seq(Tokens) /\ m \in Seq(Tokens)
      /\ Len(l) \in Nat /\ Len(r) \in Nat /\ Len(m) = Len(l) + 1 + Len(r)
      /\ m[Len(l) + 1] = op /\ Len(l) >= 1 /\ Len(r) >= 1
      /\ \A i \in 1 .. Len(l) : m[i] = l[i]
      /\ \A i \in 1 .. Len(r) : m[Len(l) + 1 + i] = r[i]
  BY DEF Balanced, Joins, Whole
<1>1. ~Bracket(op) /\ ~Comma(op) /\ op \notin Operands
  BY MarksAre
<1>2. /\ Balanced(m)
      /\ \A i \in 0 .. Len(l) : Depth(m, i) = Depth(l, i)
      /\ Depth(m, Len(l) + 1) = 0
      /\ \A i \in 0 .. Len(r) : Depth(m, Len(l) + 1 + i) = Depth(r, i)
      /\ Upto(m, Len(l) + 1) = l /\ Behind(m, Len(l) + 1) = r
  <2>1. Balanced(l) /\ Balanced(r) /\ ~Bracket(op)
    BY <1>1 DEF Whole
  <2> QED
    BY <2>1, JoinedIs
<1>3. Len(l) + 1 \in OuterOperators(m)
  <2>1. Len(l) + 1 \in 2 .. Len(m) /\ (Len(l) + 1) - 1 = Len(l) /\ m[Len(l)] = l[Len(l)]
    BY <1>0
  <2>2. m[(Len(l) + 1) - 1] \in Operands
    BY <2>1 DEF Whole
  <2> QED
    BY <1>0, <1>2, <2>1, <2>2, OuterAre
<1>4. ASSUME NEW i \in OuterOperators(m) PROVE i = Len(l) + 1
  <2>1. i \in 2 .. Len(m) /\ m[i] \in Operators /\ m[i - 1] \in Operands /\ Depth(m, i) = 0
    BY OuterAre
  <2>2. CASE i \in 1 .. Len(l)
    <3>1. i \in 2 .. Len(l) /\ i - 1 \in 1 .. Len(l)
      BY <2>1, <2>2, <1>0
    <3>2. l[i] = m[i] /\ l[i - 1] = m[i - 1] /\ Depth(l, i) = 0
      <4>1. i \in 0 .. Len(l)
        BY <1>0, <2>2
      <4> QED
        BY <1>0, <1>2, <2>1, <2>2, <3>1, <4>1, Zenon
    <3>3. i \in OuterOperators(l)
      BY <2>1, <3>1, <3>2, OuterAre, Zenon
    <3> QED
      BY <3>3 DEF Whole
  <2>3. CASE i > Len(l) + 1
    <3> DEFINE j == i - (Len(l) + 1)
    <3>1. j \in 1 .. Len(r) /\ Len(l) + 1 + j = i
      BY <1>0, <2>1, <2>3
    <3>2. CASE j = 1
      <4>1. m[i - 1] = op
        BY <1>0, <3>1, <3>2
      <4> QED
        BY <1>1, <2>1, <4>1
    <3>3. CASE j # 1
      <4>1. j \in 2 .. Len(r) /\ j - 1 \in 1 .. Len(r) /\ Len(l) + 1 + (j - 1) = i - 1
        BY <1>0, <2>1, <3>1, <3>3
      <4> HIDE DEF j
      <4>2. r[j] = m[i] /\ r[j - 1] = m[i - 1] /\ Depth(r, j) = 0
        <5>1. m[Len(l) + 1 + j] = r[j] /\ m[Len(l) + 1 + (j - 1)] = r[j - 1]
          BY <1>0, <3>1, <4>1
        <5>2. Depth(m, Len(l) + 1 + j) = Depth(r, j)
          BY <1>0, <1>2, <3>1
        <5> QED
          BY <2>1, <3>1, <4>1, <5>1, <5>2
      <4>3. j \in OuterOperators(r)
        BY <2>1, <4>1, <4>2, OuterAre
      <4> QED
        BY <4>3 DEF Whole
    <3> QED
      BY <3>2, <3>3
  <2> QED
    BY <1>0, <2>1, <2>2, <2>3
<1>5. OuterCommas(m) = {}
  <2> SUFFICES ASSUME NEW i \in 1 .. Len(m), Comma(m[i]), Depth(m, i) = 0 PROVE FALSE
    BY <1>0, OuterAre
  <2>1. CASE i \in 1 .. Len(l)
    <3>1. i \in OuterCommas(l)
      BY <1>0, <1>2, <2>1, OuterAre
    <3> QED
      BY <3>1 DEF Whole
  <2>2. CASE i > Len(l) + 1
    <3> DEFINE j == i - (Len(l) + 1)
    <3>1. j \in 1 .. Len(r) /\ Len(l) + 1 + j = i
      BY <1>0, <2>2
    <3> HIDE DEF j
    <3>2. Comma(r[j]) /\ Depth(r, j) = 0
      BY <1>0, <1>2, <3>1
    <3>3. j \in OuterCommas(r)
      BY <1>0, <3>1, <3>2, OuterAre
    <3> QED
      BY <3>3 DEF Whole
  <2> QED
    BY <1>0, <1>1, <2>1, <2>2
<1> QED
  BY <1>2, <1>3, <1>4, <1>5

\* One more argument behind others.
LEMMA ListingIs ==
  ASSUME NEW l, Balanced(l), NEW r, Whole(r), NEW c, Comma(c), NEW m, Joins(m, l, c, r)
  PROVE  /\ Balanced(m)
         /\ Len(l) + 1 \in OuterCommas(m) /\ \A i \in OuterCommas(m) : i <= Len(l) + 1
         /\ Upto(m, Len(l) + 1) = l /\ Behind(m, Len(l) + 1) = r
<1>0. /\ l \in Seq(Tokens) /\ r \in Seq(Tokens) /\ m \in Seq(Tokens)
      /\ Len(l) \in Nat /\ Len(r) \in Nat /\ Len(m) = Len(l) + 1 + Len(r)
      /\ m[Len(l) + 1] = c
      /\ \A i \in 1 .. Len(r) : m[Len(l) + 1 + i] = r[i]
  BY DEF Balanced, Joins, Whole
<1>1. /\ Balanced(m) /\ Depth(m, Len(l) + 1) = 0
      /\ \A i \in 0 .. Len(r) : Depth(m, Len(l) + 1 + i) = Depth(r, i)
      /\ Upto(m, Len(l) + 1) = l /\ Behind(m, Len(l) + 1) = r
  <2>1. Balanced(r) /\ ~Bracket(c)
    BY MarksAre DEF Whole
  <2> QED
    BY <2>1, JoinedIs
<1>2. Len(l) + 1 \in OuterCommas(m)
  BY <1>0, <1>1, OuterAre
<1>3. ASSUME NEW i \in OuterCommas(m) PROVE i <= Len(l) + 1
  <2>1. i \in 1 .. Len(m) /\ Comma(m[i]) /\ Depth(m, i) = 0
    BY <1>0, OuterAre
  <2> SUFFICES ASSUME i > Len(l) + 1 PROVE FALSE
    BY <1>0, <2>1
  <2> DEFINE j == i - (Len(l) + 1)
  <2>2. j \in 1 .. Len(r) /\ Len(l) + 1 + j = i
    BY <1>0, <2>1
  <2> HIDE DEF j
  <2>3. Comma(r[j]) /\ Depth(r, j) = 0
    BY <1>0, <1>1, <2>1, <2>2
  <2>4. j \in OuterCommas(r)
    BY <1>0, <2>2, <2>3, OuterAre
  <2> QED
    BY <2>4 DEF Whole
<1> QED
  BY <1>1, <1>2, <1>3

-----------------------------------------------------------------------------
(* How tokens are read.                                                    *)

\* A text read as one expression, and as one or many; h reads its parts.
ReadOne(h, t) ==
  IF t = <<>> THEN <<>>
  ELSE IF OuterOperators(t) # {} THEN
    Binary(t[SplitAt(t)], h[Upto(t, SplitAt(t))][FALSE], h[Behind(t, SplitAt(t))][FALSE])
  ELSE IF t[1] \in Signs   THEN Unary(t[1], h[Behind(t, 1)][FALSE])
  ELSE IF t[1] = "("       THEN h[Inside(t, 1)][FALSE]
  ELSE IF t[1] \in Numbers THEN Literal(t[1])
  ELSE IF Len(t) = 1       THEN Var(t[1])
  ELSE Call(t[1], h[Inside(t, 2)][TRUE])

ReadBody(h, t) ==
  [many \in BOOLEAN |->
    IF ~many                     THEN ReadOne(h, t)
    ELSE IF t = <<>>             THEN <<>>
    ELSE IF OuterCommas(t) = {}  THEN <<ReadOne(h, t)>>
    ELSE Append(h[Upto(t, Latest(OuterCommas(t)))][TRUE],
                h[Behind(t, Latest(OuterCommas(t)))][FALSE])]

\* Parts of a text.
LEMMA PartsAre ==
  ASSUME NEW t \in Seq(Tokens)
  PROVE  /\ \A i \in 1 .. Len(t) : /\ Upto(t, i) \in Seq(Tokens) /\ Len(Upto(t, i)) < Len(t)
                                   /\ Behind(t, i) \in Seq(Tokens) /\ Len(Behind(t, i)) < Len(t)
         /\ t # <<>> => Inside(t, 1) \in Seq(Tokens) /\ Len(Inside(t, 1)) < Len(t)
         /\ Len(t) > 1 => Inside(t, 2) \in Seq(Tokens) /\ Len(Inside(t, 2)) < Len(t)
         /\ t # <<>> => Len(t) >= 1
<1>1. ASSUME NEW i \in 1 .. Len(t)
      PROVE  /\ SubSeq(t, 1, i - 1) \in Seq(Tokens) /\ Len(SubSeq(t, 1, i - 1)) < Len(t)
             /\ SubSeq(t, i + 1, Len(t)) \in Seq(Tokens) /\ Len(SubSeq(t, i + 1, Len(t))) < Len(t)
  OBVIOUS
<1>2. ASSUME NEW k \in {1, 2}, k <= Len(t)
      PROVE  SubSeq(t, k + 1, Len(t) - 1) \in Seq(Tokens) /\ Len(SubSeq(t, k + 1, Len(t) - 1)) < Len(t)
  BY <1>2
<1>3. t # <<>> => Len(t) >= 1
  OBVIOUS
<1>4. Len(t) > 1 => 2 <= Len(t)
  OBVIOUS
<1> QED
  BY <1>1, <1>2, <1>3, <1>4, Zenon DEF Upto, Behind, Inside

\* The place a text is split at is one of the operators.
LEMMA SplitIs ==
  ASSUME NEW t \in Seq(Tokens), OuterOperators(t) # {}
  PROVE  SplitAt(t) \in OuterOperators(t) /\ SplitAt(t) \in 1 .. Len(t)
<1> DEFINE outer == OuterOperators(t)
           ranks == {Precedence(t[i]) : i \in outer}
           low == {i \in outer : \A j \in outer : Precedence(t[i]) <= Precedence(t[j])}
<1>1. outer \in SUBSET (1 .. Len(t)) /\ outer # {}
  BY OuterAre
<1>2. \A x : Precedence(x) \in Nat
  BY DEF Precedence
<1>3. SplitAt(t) = Latest(low)
  BY Zenon DEF SplitAt
<1> HIDE DEF outer
<1>4. ranks \in SUBSET Nat /\ ranks # {}
  BY <1>1, <1>2
<1>5. PICK r \in ranks : \A q \in ranks : r <= q
  <2> HIDE DEF ranks
  <2> QED
    BY <1>4, LeastNumber, Zenon
<1>6. PICK i \in outer : r = Precedence(t[i])
  BY <1>5
<1>7. i \in low
  BY <1>5, <1>6
<1>8. low \subseteq outer
  OBVIOUS
<1> HIDE DEF low, ranks
<1>9. Len(t) \in Nat /\ low \in SUBSET (1 .. Len(t)) /\ low # {}
  BY <1>1, <1>7, <1>8
<1>10. Latest(low) \in low
  BY <1>9, LatestIs, Zenon
<1> QED
  BY <1>1, <1>3, <1>8, <1>10 DEF outer

\* The last comma is one of the commas.
LEMMA LastCommaIs ==
  ASSUME NEW t \in Seq(Tokens), OuterCommas(t) # {}
  PROVE  /\ Latest(OuterCommas(t)) \in OuterCommas(t) /\ Latest(OuterCommas(t)) \in 1 .. Len(t)
         /\ \A i \in OuterCommas(t) : i <= Latest(OuterCommas(t))
<1>1. Len(t) \in Nat /\ OuterCommas(t) \in SUBSET (1 .. Len(t))
  BY OuterAre
<1> QED
  BY <1>1, LatestIs, Zenon

\* Only parts that are shorter are looked at.
LEMMA ReadAlike ==
  ASSUME NEW t \in Seq(Tokens), NEW g, NEW h,
         \A u \in Seq(Tokens) : Len(u) < Len(t) => g[u] = h[u]
  PROVE  ReadBody(g, t) = ReadBody(h, t)
<1>1. \A i \in 1 .. Len(t) : g[Upto(t, i)] = h[Upto(t, i)] /\ g[Behind(t, i)] = h[Behind(t, i)]
  BY PartsAre, Zenon
<1>2. t # <<>> => g[Inside(t, 1)] = h[Inside(t, 1)] /\ 1 \in 1 .. Len(t)
  <2>1. t # <<>> => g[Inside(t, 1)] = h[Inside(t, 1)]
    BY PartsAre, Zenon
  <2>2. t # <<>> => 1 \in 1 .. Len(t)
    OBVIOUS
  <2> QED
    BY <2>1, <2>2
<1>3. Len(t) > 1 => g[Inside(t, 2)] = h[Inside(t, 2)]
  BY PartsAre, Zenon
<1>4. t # <<>> /\ Len(t) # 1 => Len(t) > 1
  OBVIOUS
<1>5. OuterOperators(t) # {} => SplitAt(t) \in 1 .. Len(t)
  BY SplitIs
<1>6. OuterCommas(t) # {} => Latest(OuterCommas(t)) \in 1 .. Len(t)
  BY LastCommaIs
<1>7. ReadOne(g, t) = ReadOne(h, t)
  BY <1>1, <1>2, <1>3, <1>4, <1>5, Zenon DEF ReadOne
<1> QED
  BY <1>1, <1>6, <1>7, Zenon DEF ReadBody

Short(n) == {t \in Seq(Tokens) : Len(t) < n}

\* What all texts that are shorter than n are read as.
Reads(h, n) == h = [t \in Short(n) |-> ReadBody(h, t)]

\* Texts up to any length can be read.
LEMMA ShortRead ==
  ASSUME NEW n \in Nat
  PROVE  \E h : Reads(h, n)
<1> DEFINE P == {m \in 0 .. n : \E h : Reads(h, m)}
<1>1. 0 \in P
  <2> DEFINE e == [t \in {} |-> t]
  <2>1. Short(0) = {}
    BY DEF Short
  <2>2. e = [t \in {} |-> ReadBody(e, t)]
    OBVIOUS
  <2> HIDE DEF e
  <2>3. Reads(e, 0)
    BY <2>1, <2>2, Zenon DEF Reads
  <2> QED
    BY <2>3
<1>2. ASSUME NEW m \in 1 .. n, m - 1 \in P PROVE m \in P
  <2>1. PICK h : Reads(h, m - 1)
    BY <1>2
  <2> DEFINE g == [t \in Short(m) |-> ReadBody(h, t)]
  <2>2. ASSUME NEW t \in Short(m) PROVE ReadBody(g, t) = ReadBody(h, t)
    <3>1. ASSUME NEW u \in Seq(Tokens), Len(u) < Len(t) PROVE g[u] = h[u]
      <4>1. Len(u) \in Nat /\ Len(t) \in Nat /\ Len(t) < m /\ m \in Nat
        BY DEF Short
      <4>2. u \in Short(m) /\ u \in Short(m - 1)
        BY <3>1, <4>1 DEF Short
      <4>3. h[u] = ReadBody(h, u)
        BY <2>1, <4>2, Zenon DEF Reads
      <4> QED
        BY <4>2, <4>3, Zenon
    <3> HIDE DEF g
    <3>2. t \in Seq(Tokens)
      BY DEF Short
    <3> QED
      BY <3>1, <3>2, ReadAlike, Zenon
  <2>3. g = [t \in Short(m) |-> ReadBody(g, t)]
    BY <2>2, Zenon
  <2> HIDE DEF g
  <2>4. Reads(g, m)
    BY <2>3, Zenon DEF Reads
  <2> QED
    BY <2>4
<1>3. n \in 0 .. n
  OBVIOUS
<1> HIDE DEF P
<1>4. 0 .. n \subseteq P
  BY <1>1, <1>2, UpTo
<1> QED
  BY <1>3, <1>4 DEF P

\* They are read in one way only.
LEMMA ReadsAlike ==
  ASSUME NEW n \in Nat, NEW g, Reads(g, n), NEW m \in Nat, NEW h, Reads(h, m)
  PROVE  \A t \in Short(n) \cap Short(m) : g[t] = h[t]
<1> DEFINE bad == {t \in Short(n) \cap Short(m) : g[t] # h[t]}
<1>1. CASE bad # {}
  <2>0. bad \subseteq Seq(Tokens)
    BY DEF Short
  <2> DEFINE sizes == {Len(t) : t \in bad}
  <2>1. sizes \in SUBSET Nat /\ sizes # {}
    BY <1>1, <2>0
  <2>2. PICK r \in sizes : \A q \in sizes : r <= q
    <3> HIDE DEF sizes
    <3> QED
      BY <2>1, LeastNumber, Zenon
  <2>3. PICK t \in bad : r = Len(t)
    BY <2>2
  <2>4. t \in Seq(Tokens) /\ Len(t) \in Nat /\ Len(t) < n /\ Len(t) < m
    BY <2>3 DEF Short
  <2>5. ASSUME NEW u \in Seq(Tokens), Len(u) < Len(t) PROVE g[u] = h[u]
    <3>1. Len(u) \in Nat /\ Len(u) < n /\ Len(u) < m
      BY <2>4, <2>5
    <3>2. u \in Short(n) \cap Short(m)
      BY <3>1 DEF Short
    <3>3. ~(r <= Len(u))
      BY <2>3, <2>4, <2>5, <3>1
    <3>4. u \notin bad
      BY <2>2, <3>3
    <3> QED
      BY <3>2, <3>4
  <2>6. ReadBody(g, t) = ReadBody(h, t)
    BY <2>4, <2>5, ReadAlike, Zenon
  <2>7. g[t] = ReadBody(g, t) /\ h[t] = ReadBody(h, t) /\ g[t] # h[t]
    BY <2>3, Zenon DEF Reads
  <2> QED
    BY <2>6, <2>7, Zenon
<1> QED
  BY <1>1

\* Reading is well defined.
LEMMA ReadingIs == \A t \in Seq(Tokens) : Reading[t] = ReadBody(Reading, t)
<1> DEFINE Some(n) == CHOOSE h : Reads(h, n)
           R == [t \in Seq(Tokens) |-> Some(Len(t) + 1)[t]]
           Is(h) == h = [t \in Seq(Tokens) |-> ReadBody(h, t)]
           T == CHOOSE h : Is(h)
<1>1. \A n \in Nat : Reads(Some(n), n)
  BY ShortRead, Zenon
<1> HIDE DEF Some
<1>2. ASSUME NEW t \in Seq(Tokens) PROVE R[t] = ReadBody(R, t)
  <2> DEFINE h == Some(Len(t) + 1)
  <2>1. Len(t) + 1 \in Nat /\ t \in Short(Len(t) + 1)
    BY DEF Short
  <2>2. Reads(h, Len(t) + 1)
    BY <1>1, <2>1, Zenon
  <2>3. R[t] = h[t] /\ h[t] = ReadBody(h, t)
    BY <2>1, <2>2, Zenon DEF Reads
  <2> HIDE DEF h
  <2>4. ASSUME NEW u \in Seq(Tokens), Len(u) < Len(t) PROVE h[u] = R[u]
    <3>1. Len(u) + 1 \in Nat /\ u \in Short(Len(u) + 1) /\ u \in Short(Len(t) + 1)
      BY <2>4 DEF Short
    <3>2. R[u] = Some(Len(u) + 1)[u] /\ Reads(Some(Len(u) + 1), Len(u) + 1)
      BY <1>1, <3>1, Zenon
    <3>3. \A v \in Short(Len(t) + 1) \cap Short(Len(u) + 1) : h[v] = Some(Len(u) + 1)[v]
      <4>1. \A n, m \in Nat : \A a, b : Reads(a, n) /\ Reads(b, m) =>
               \A v \in Short(n) \cap Short(m) : a[v] = b[v]
        BY ReadsAlike
      <4> QED
        BY <2>1, <2>2, <3>1, <3>2, <4>1
    <3> QED
      BY <3>1, <3>2, <3>3
  <2> HIDE DEF R
  <2>5. ReadBody(h, t) = ReadBody(R, t)
    BY <2>4, ReadAlike, Zenon
  <2> QED
    BY <2>3, <2>5, Zenon
<1>3. Is(R)
  <2>1. R = [t \in Seq(Tokens) |-> R[t]]
    BY Zenon
  <2> HIDE DEF R
  <2> QED
    BY <1>2, <2>1, Zenon
<1> HIDE DEF R
<1>4. Is(T)
  <2> HIDE DEF Is
  <2> QED
    BY <1>3, Zenon
<1>5. Reading = T
  BY DEF Reading, ReadBody, ReadOne
<1> HIDE DEF T
<1> QED
  BY <1>4, <1>5, Zenon

-----------------------------------------------------------------------------
(* How C cuts a text into tokens.                                          *)

\* What a symbol is, and a text.
Blank(x) == x = " "
Minus(x) == x = "-"
Letters == Tokens \cup {" "}
TwoSigns(t) == IsPrefix(<<"-", "-">>, t)

\* The tokens of a text; h cuts its tail.
CBody(h, t) ==
  IF t = <<>>         THEN <<>>
  ELSE IF Blank(t[1]) THEN h[Tail(t)]
  ELSE IF TwoSigns(t) THEN <<"--">> \o h[Tail(Tail(t))]
  ELSE <<t[1]>> \o h[Tail(t)]

\* The letters of a text.
LEMMA LettersAre ==
  /\ Text = Seq(Letters)
  /\ \A x \in Letters : Blank(x) \/ x \in Tokens
  /\ \A x \in Tokens : ~Blank(x)
  /\ "--" \in Tokens /\ \A x : Blank(x) => x \in Letters
<1>1. \A x \in Tokens : ~Blank(x)
  <2>1. \A x \in Idents \cup Numbers : x # " "
    BY Distinct, Zenon
  <2>2. \A x \in Signs \cup Operators : x # " "
    BY Distinct, Zenon
  <2>3. \A x \in {"(", ")", ","} : x # " "
    OBVIOUS
  <2> QED
    BY <2>1, <2>2, <2>3, Zenon DEF Tokens, Blank
<1>2. "--" \in Tokens
  BY Zenon DEF Tokens, Signs
<1>3. Text = Seq(Letters) /\ \A x \in Letters : Blank(x) \/ x \in Tokens
  BY Zenon DEF Text, Letters, Blank
<1>4. \A x : Blank(x) => x \in Letters
  BY Zenon DEF Letters, Blank
<1> QED
  BY <1>1, <1>2, <1>3, <1>4, Zenon

\* What is behind the first token.
LEMMA BehindFirst ==
  ASSUME NEW t \in Text
  PROVE  /\ t # <<>> => /\ Len(t) >= 1 /\ t[1] \in Letters /\ Tail(t) \in Text /\ Len(Tail(t)) = Len(t) - 1
                        /\ \A i \in 1 .. Len(t) - 1 : Tail(t)[i] = t[i + 1]
         /\ TwoSigns(t) => /\ Len(t) >= 2 /\ t[1] = "-" /\ t[2] = "-"
                           /\ Tail(Tail(t)) \in Text /\ Len(Tail(Tail(t))) = Len(t) - 2
<1>0. t \in Seq(Letters) /\ Text = Seq(Letters)
  BY LettersAre
<1>1. ASSUME t # <<>>
      PROVE  /\ Len(t) >= 1 /\ t[1] \in Letters /\ Tail(t) \in Text /\ Len(Tail(t)) = Len(t) - 1
             /\ \A i \in 1 .. Len(t) - 1 : Tail(t)[i] = t[i + 1]
  BY <1>0, <1>1
<1>2. ASSUME TwoSigns(t)
      PROVE  /\ Len(t) >= 2 /\ t[1] = "-" /\ t[2] = "-"
             /\ Tail(Tail(t)) \in Text /\ Len(Tail(Tail(t))) = Len(t) - 2
  <2> DEFINE m == <<"-", "-">>
  <2>1. Len(m) = 2 /\ m[1] = "-" /\ m[2] = "-"
    OBVIOUS
  <2>2. Len(m) <= Len(t) /\ SubSeq(m, 1, Len(m)) = SubSeq(t, 1, Len(m))
    BY <1>2, Zenon DEF TwoSigns, IsPrefix
  <2>3. m = SubSeq(m, 1, 2)
    OBVIOUS
  <2> HIDE DEF m
  <2>4. Len(t) >= 2 /\ m = SubSeq(t, 1, 2)
    BY <1>0, <2>1, <2>2, <2>3
  <2>5. m[1] = t[1] /\ m[2] = t[2]
    BY <1>0, <2>4
  <2>6. Tail(Tail(t)) \in Seq(Letters) /\ Len(Tail(Tail(t))) = Len(t) - 2
    <3>1. Tail(t) \in Seq(Letters) /\ Len(Tail(t)) = Len(t) - 1
      BY <1>0, <2>4
    <3>2. \A u \in Seq(Letters) : Len(u) >= 1 => Tail(u) \in Seq(Letters) /\ Len(Tail(u)) = Len(u) - 1
      OBVIOUS
    <3>3. Len(Tail(t)) >= 1 /\ Len(t) \in Nat
      BY <1>0, <2>4, <3>1
    <3>4. Tail(Tail(t)) \in Seq(Letters) /\ Len(Tail(Tail(t))) = Len(Tail(t)) - 1
      BY <3>1, <3>2, <3>3, Zenon
    <3> QED
      BY <3>1, <3>3, <3>4
  <2>7. t[1] = "-" /\ t[2] = "-"
    BY <2>1, <2>5, Zenon
  <2> QED
    BY <1>0, <2>4, <2>6, <2>7, Zenon
<1> QED
  BY <1>1, <1>2, Zenon

\* CTokens is well defined.
LEMMA CTokensIs ==
  /\ CTokens \in [Text -> Seq(Tokens)]
  /\ \A t \in Text : CTokens[t] = CBody(CTokens, t)
<1> DEFINE A == Seq(Tokens)
           B(h, t) == CBody(h, t)
           F == [t \in Text |-> [h \in [Text -> A] |-> B(h, t)]]
           Is(h) == h = [t \in Text |-> B(h, t)]
           T == CHOOSE h : Is(h)
           rank == [t \in Text |-> Len(t)]
<1>0. \A t \in Text : Len(t) \in Nat /\ rank[t] = Len(t)
  BY LettersAre
<1>1. ASSUME NEW t \in Text, NEW h \in [Text -> A] PROVE B(h, t) \in A
  <2>1. <<>> \in A /\ <<"--">> \in A /\ \A x \in Tokens : <<x>> \in A
    BY LettersAre
  <2>2. CASE t = <<>>
    BY <2>1, <2>2 DEF CBody
  <2>3. CASE t # <<>>
    <3>1. Tail(t) \in Text /\ t[1] \in Letters /\ h[Tail(t)] \in A
      BY <2>3, BehindFirst
    <3>2. TwoSigns(t) => h[Tail(Tail(t))] \in A
      BY BehindFirst
    <3>3. ~Blank(t[1]) => <<t[1]>> \in A
      BY <2>1, <3>1, LettersAre
    <3>4. \A x, y \in A : x \o y \in A
      OBVIOUS
    <3> HIDE DEF A
    <3> QED
      BY <2>1, <2>3, <3>1, <3>2, <3>3, <3>4, Zenon DEF CBody
  <2> QED
    BY <2>2, <2>3
<1>2. ASSUME NEW t \in Text, NEW g, NEW h, \A u \in Text : Len(u) < Len(t) => g[u] = h[u]
      PROVE  B(g, t) = B(h, t)
  <2>1. t # <<>> => g[Tail(t)] = h[Tail(t)]
    <3>1. t # <<>> => Tail(t) \in Text /\ Len(Tail(t)) < Len(t)
      BY <1>0, BehindFirst
    <3> QED
      BY <1>2, <3>1, Zenon
  <2>2. TwoSigns(t) => g[Tail(Tail(t))] = h[Tail(Tail(t))]
    <3>1. TwoSigns(t) => Tail(Tail(t)) \in Text /\ Len(Tail(Tail(t))) < Len(t)
      BY <1>0, BehindFirst
    <3> QED
      BY <1>2, <3>1, Zenon
  <2> QED
    BY <2>1, <2>2, Zenon DEF CBody
<1>3. CTokens = T
  BY Zenon DEF CTokens, CBody, Blank, TwoSigns
<1> HIDE DEF B, Is, A
<1>4. PICK h : Obeys(h, Text, A, F)
  <2>1. F \in [Text -> [[Text -> A] -> A]]
    BY <1>1
  <2>2. LooksBelow(F, Text, A, rank)
    <3>1. ASSUME NEW t \in Text, NEW g \in [Text -> A], NEW h \in [Text -> A],
                 \A u \in Text : rank[u] < rank[t] => g[u] = h[u]
          PROVE  F[t][g] = F[t][h]
      <4>1. \A u \in Text : Len(u) < Len(t) => g[u] = h[u]
        BY <1>0, <3>1
      <4>2. B(g, t) = B(h, t)
        BY <1>2, <4>1, Zenon
      <4> QED
        BY <4>2
    <3> HIDE DEF F, rank
    <3> QED
      BY <3>1, Zenon DEF LooksBelow
  <2>3. <<>> \in A
    BY DEF A
  <2>4. rank \in [Text -> Nat]
    BY <1>0
  <2> HIDE DEF F, rank
  <2> QED
    BY <2>1, <2>2, <2>3, <2>4, RankRecursion
<1>5. h \in [Text -> A] /\ h = [t \in Text |-> B(h, t)]
  <2>1. h \in [Text -> A] /\ \A t \in Text : h[t] = F[t][h]
    BY <1>4, Zenon DEF Obeys
  <2>2. \A t \in Text : h[t] = B(h, t)
    BY <2>1
  <2> QED
    BY <2>1, <2>2
<1>6. T = [t \in Text |-> B(T, t)]
  BY <1>5, Zenon DEF Is
<1> HIDE DEF T
<1>7. ASSUME NEW n \in Nat PROVE \A t \in Text : Len(t) <= n => T[t] \in A
  <2> DEFINE P == {m \in 0 .. n : \A t \in Text : Len(t) <= m => T[t] \in A}
  <2>0. ASSUME NEW m \in 0 .. n, \A t \in Text : Len(t) < m => T[t] \in A PROVE m \in P
    <3> SUFFICES ASSUME NEW t \in Text, Len(t) <= m PROVE T[t] \in A
      OBVIOUS
    <3> DEFINE g == [u \in Text |-> IF T[u] \in A THEN T[u] ELSE <<>>]
    <3>1. g \in [Text -> A]
      BY DEF A
    <3>2. ASSUME NEW u \in Text, Len(u) < Len(t) PROVE g[u] = T[u]
      <4>1. Len(u) < m
        BY <1>0, <3>2
      <4> QED
        BY <2>0, <4>1
    <3> HIDE DEF g
    <3>3. B(T, t) = B(g, t)
      BY <1>2, <3>2, Zenon
    <3> QED
      BY <1>1, <1>6, <3>1, <3>3, Zenon
  <2>1. 0 \in P
    <3>1. \A t \in Text : ~(Len(t) < 0)
      BY <1>0
    <3> HIDE DEF P
    <3> QED
      BY <2>0, <3>1
  <2>2. ASSUME NEW m \in 1 .. n, m - 1 \in P PROVE m \in P
    <3>1. \A t \in Text : Len(t) < m => Len(t) <= m - 1
      BY <1>0
    <3>2. \A t \in Text : Len(t) < m => T[t] \in A
      BY <2>2, <3>1
    <3> HIDE DEF P
    <3> QED
      BY <2>0, <3>2
  <2>3. n \in 0 .. n
    OBVIOUS
  <2> HIDE DEF P
  <2>4. 0 .. n \subseteq P
    BY <2>1, <2>2, UpTo
  <2> QED
    BY <2>3, <2>4 DEF P
<1>8. \A t \in Text : T[t] \in A
  BY <1>0, <1>7
<1>9. T \in [Text -> A] /\ \A t \in Text : T[t] = B(T, t)
  BY <1>6, <1>8, Zenon
<1> QED
  BY <1>3, <1>9, Zenon DEF A, B

\* There are no two signs in a row in it.
Quiet(t) == \A i \in 1 .. Len(t) - 1 : ~(Minus(t[i]) /\ Minus(t[i + 1]))

\* Then C takes all of it but the blanks, one by one.
LEMMA CTokensAre ==
  \A t \in Text : Quiet(t) => CTokens[t] = Only(t, Tokens)
<1>0. \A t \in Text : t \in Seq(Letters) /\ Len(t) \in Nat
  BY LettersAre
<1>1. ASSUME NEW t \in Text, Quiet(t), t # <<>>
      PROVE  /\ Tail(t) \in Text /\ Quiet(Tail(t)) /\ Len(Tail(t)) < Len(t)
             /\ CTokens[t] = IF Blank(t[1]) THEN CTokens[Tail(t)] ELSE <<t[1]>> \o CTokens[Tail(t)]
             /\ Only(t, Tokens) = IF Blank(t[1]) THEN Only(Tail(t), Tokens)
                                  ELSE <<t[1]>> \o Only(Tail(t), Tokens)
  <2>1. /\ Len(t) >= 1 /\ t[1] \in Letters /\ Tail(t) \in Text /\ Len(Tail(t)) = Len(t) - 1
        /\ \A i \in 1 .. Len(t) - 1 : Tail(t)[i] = t[i + 1]
    BY <1>1, BehindFirst, Zenon
  <2>2. ~TwoSigns(t)
    <3>1. TwoSigns(t) => 1 \in 1 .. Len(t) - 1 /\ Minus(t[1]) /\ Minus(t[1 + 1])
      <4>1. TwoSigns(t) => Len(t) >= 2 /\ t[1] = "-" /\ t[2] = "-"
        BY BehindFirst, Zenon
      <4>2. Len(t) >= 2 => 1 \in 1 .. Len(t) - 1 /\ 1 + 1 = 2
        BY <1>0
      <4> QED
        BY <4>1, <4>2, Zenon DEF Minus
    <3> QED
      BY <1>1, <3>1, Zenon DEF Quiet
  <2>3. Quiet(Tail(t))
    <3>1. ASSUME NEW i \in 1 .. Len(Tail(t)) - 1
          PROVE  i + 1 \in 1 .. Len(t) - 1 /\ Tail(t)[i] = t[i + 1] /\ Tail(t)[i + 1] = t[(i + 1) + 1]
      BY <1>0, <2>1
    <3> QED
      BY <1>1, <3>1, Zenon DEF Quiet
  <2>4. CTokens[t] = IF Blank(t[1]) THEN CTokens[Tail(t)] ELSE <<t[1]>> \o CTokens[Tail(t)]
    BY <1>1, <2>2, CTokensIs, Zenon DEF CBody
  <2>5. Only(t, Tokens) = IF Head(t) \in Tokens THEN <<Head(t)>> \o Only(Tail(t), Tokens)
                          ELSE Only(Tail(t), Tokens)
    BY <1>0, <1>1, OnlyHeadTail
  <2>6. Head(t) = t[1] /\ (t[1] \in Tokens <=> ~Blank(t[1]))
    BY <1>0, <1>1, <2>1, LettersAre
  <2> QED
    BY <1>0, <2>1, <2>3, <2>4, <2>5, <2>6
<1>2. ASSUME NEW t \in Text, t = <<>> PROVE CTokens[t] = Only(t, Tokens)
  <2>1. CTokens[t] = <<>>
    BY <1>2, CTokensIs, Zenon DEF CBody
  <2>2. Only(<<>>, Tokens) = <<>>
    <3>1. <<>> \in Seq(Letters) /\ Range(<<>>) \cap Tokens = {}
      BY DEF Range
    <3> QED
      BY <3>1, OnlyAllOrNone
  <2> QED
    BY <1>2, <2>1, <2>2
<1>3. ASSUME NEW n \in Nat
      PROVE  \A t \in Text : Len(t) <= n /\ Quiet(t) => CTokens[t] = Only(t, Tokens)
  <2> DEFINE P == {m \in 0 .. n : \A t \in Text : Len(t) <= m /\ Quiet(t) => CTokens[t] = Only(t, Tokens)}
  <2>1. 0 \in P
    <3>1. \A t \in Text : Len(t) <= 0 => t = <<>>
      BY <1>0
    <3> QED
      BY <1>2, <3>1
  <2>2. ASSUME NEW m \in 1 .. n, m - 1 \in P PROVE m \in P
    <3> SUFFICES ASSUME NEW t \in Text, Len(t) <= m, Quiet(t) PROVE CTokens[t] = Only(t, Tokens)
      OBVIOUS
    <3>1. CASE t = <<>>
      BY <1>2, <3>1
    <3>2. CASE t # <<>>
      <4>1. /\ Tail(t) \in Text /\ Quiet(Tail(t)) /\ Len(Tail(t)) < Len(t)
            /\ CTokens[t] = IF Blank(t[1]) THEN CTokens[Tail(t)] ELSE <<t[1]>> \o CTokens[Tail(t)]
            /\ Only(t, Tokens) = IF Blank(t[1]) THEN Only(Tail(t), Tokens)
                                 ELSE <<t[1]>> \o Only(Tail(t), Tokens)
        BY <1>1, <3>2, Zenon
      <4>2. Len(Tail(t)) <= m - 1
        BY <1>0, <4>1
      <4>3. CTokens[Tail(t)] = Only(Tail(t), Tokens)
        BY <2>2, <4>1, <4>2
      <4> QED
        BY <4>1, <4>3, Zenon
    <3> QED
      BY <3>1, <3>2
  <2>3. n \in 0 .. n
    OBVIOUS
  <2> HIDE DEF P
  <2>4. 0 .. n \subseteq P
    BY <2>1, <2>2, UpTo
  <2> QED
    BY <2>3, <2>4 DEF P
<1> QED
  BY <1>0, <1>3

-----------------------------------------------------------------------------
(* What is written as a whole is read as it was.                           *)

\* Reading by its cases.
LEMMA ReadingOne ==
  ASSUME NEW t \in Seq(Tokens)
  PROVE  /\ Reading[t][FALSE] = ReadOne(Reading, t)
         /\ t = <<>> => Reading[t][TRUE] = <<>>
         /\ t # <<>> /\ OuterCommas(t) = {} => Reading[t][TRUE] = <<Reading[t][FALSE]>>
         /\ t # <<>> /\ OuterCommas(t) # {} =>
              Reading[t][TRUE] = Append(Reading[Upto(t, Latest(OuterCommas(t)))][TRUE],
                                        Reading[Behind(t, Latest(OuterCommas(t)))][FALSE])
<1>1. Reading[t] = ReadBody(Reading, t)
  BY ReadingIs
<1>2. Reading[t][FALSE] = ReadOne(Reading, t)
  BY <1>1 DEF ReadBody
<1>3. Reading[t][TRUE] =
        IF t = <<>>                  THEN <<>>
        ELSE IF OuterCommas(t) = {}  THEN <<ReadOne(Reading, t)>>
        ELSE Append(Reading[Upto(t, Latest(OuterCommas(t)))][TRUE],
                    Reading[Behind(t, Latest(OuterCommas(t)))][FALSE])
  BY <1>1 DEF ReadBody
<1> QED
  BY <1>2, <1>3, Zenon

\* t is read as the expression e, or as a list of expressions.
ReadBack(t, e) == Whole(t) /\ Reading[t][FALSE] = e
ReadList(t, list) == Balanced(t) /\ Reading[t][TRUE] = list

\* What a text is that is read as one.
LEMMA WholeIs ==
  ASSUME NEW t, Whole(t)
  PROVE  /\ t \in Seq(Tokens) /\ t # <<>> /\ Balanced(t) /\ Len(t) >= 1 /\ Len(t) \in Nat
         /\ OuterOperators(t) = {} /\ OuterCommas(t) = {}
<1>1. t \in Seq(Tokens) /\ Balanced(t) /\ Len(t) >= 1 /\ OuterOperators(t) = {} /\ OuterCommas(t) = {}
  BY DEF Whole, Balanced
<1> QED
  BY <1>1

\* A name or a number is read as such.
LEMMA LeafIsRead ==
  ASSUME NEW x \in Idents \cup Numbers
  PROVE  ReadBack(<<x>>, IF x \in Numbers THEN Literal(x) ELSE Var(x))
<1> DEFINE t == <<x>>
<1>1. Whole(t)
  BY WholeOne
<1>2. t[1] = x /\ Len(t) = 1
  OBVIOUS
<1>3. x \notin Signs /\ x # "("
  BY Distinct, Zenon
<1> HIDE DEF t
<1>4. Reading[t][FALSE] = ReadOne(Reading, t) /\ t # <<>> /\ OuterOperators(t) = {}
  BY <1>1, WholeIs, ReadingOne, Zenon
<1>5. Reading[t][FALSE] = IF x \in Numbers THEN Literal(x) ELSE Var(x)
  BY <1>2, <1>3, <1>4, Zenon DEF ReadOne
<1> QED
  BY <1>1, <1>5, Zenon DEF ReadBack, t

\* A sign and an operand are read as a unary expression.
LEMMA SignIsRead ==
  ASSUME NEW v, NEW e, ReadBack(v, e), NEW op \in Signs
  PROVE  ReadBack(<<op>> \o v, Unary(op, e))
<1> DEFINE t == <<op>> \o v
<1>0. Whole(v) /\ v \in Seq(Tokens) /\ Reading[v][FALSE] = e
  BY WholeIs, Zenon DEF ReadBack
<1>1. op \in Tokens /\ ~Bracket(op) /\ ~Comma(op) /\ op \notin Operands
  BY MarksAre
<1>2. Whole(t) /\ Behind(t, 1) = v
  BY <1>0, <1>1, PrefixIsWhole, Zenon
<1>3. t[1] = op
  BY <1>0, <1>1
<1> HIDE DEF t
<1>4. Reading[t][FALSE] = ReadOne(Reading, t) /\ t # <<>> /\ OuterOperators(t) = {}
  BY <1>2, WholeIs, ReadingOne, Zenon
<1>5. Reading[t][FALSE] = Unary(op, e)
  BY <1>0, <1>2, <1>3, <1>4, Zenon DEF ReadOne
<1> QED
  BY <1>2, <1>5, Zenon DEF ReadBack, t

\* An operation in parentheses is read as one.
LEMMA InfixIsRead ==
  ASSUME NEW l, NEW a, ReadBack(l, a), NEW r, NEW b, ReadBack(r, b), NEW op \in Operators,
         NEW m, Joins(m, l, op, r), NEW w, Wraps(w, m)
  PROVE  ReadBack(w, Binary(op, a, b))
<1>1. /\ Balanced(m) /\ OuterOperators(m) = {Len(l) + 1} /\ OuterCommas(m) = {}
      /\ Upto(m, Len(l) + 1) = l /\ Behind(m, Len(l) + 1) = r
  BY InfixIs DEF ReadBack
<1>2. m \in Seq(Tokens) /\ m[Len(l) + 1] = op /\ m # <<>>
  <2>1. m \in Seq(Tokens) /\ m[Len(l) + 1] = op
    BY Zenon DEF Joins
  <2>2. OuterOperators(<<>>) = {}
    <3>1. \A i : ~(i \in 2 .. Len(<<>>))
      OBVIOUS
    <3> QED
      BY <3>1, OuterAre
  <2>3. m # <<>>
    BY <1>1, <2>2, Zenon
  <2> QED
    BY <2>1, <2>3
<1>3. SplitAt(m) = Len(l) + 1
  BY <1>1, <1>2, SplitIs
<1>4. Reading[m][FALSE] = Binary(op, a, b)
  <2>1. Reading[m][FALSE] = ReadOne(Reading, m)
    BY <1>2, ReadingOne, Zenon
  <2>2. Reading[l][FALSE] = a /\ Reading[r][FALSE] = b
    BY Zenon DEF ReadBack
  <2>3. OuterOperators(m) # {}
    BY <1>1
  <2> QED
    BY <1>1, <1>2, <1>3, <2>1, <2>2, <2>3, Zenon DEF ReadOne
<1>5. Whole(w) /\ Inside(w, 1) = m
  BY <1>1, WrapIsWhole, Zenon
<1>6. w[1] = "(" /\ "(" \notin Signs
  BY Zenon, Distinct DEF Wraps
<1>7. Reading[w][FALSE] = ReadOne(Reading, w) /\ w # <<>> /\ OuterOperators(w) = {}
  BY <1>5, WholeIs, ReadingOne, Zenon
<1>8. Reading[w][FALSE] = Binary(op, a, b)
  BY <1>4, <1>5, <1>6, <1>7, Zenon DEF ReadOne
<1> QED
  BY <1>5, <1>8, Zenon DEF ReadBack

\* No arguments.
LEMMA NothingIsRead == ReadList(<<>>, <<>>)
<1>1. <<>> \in Seq(Tokens) /\ Len(<<>>) = 0 /\ \A i \in 0 .. 0 : i = 0
  OBVIOUS
<1>2. Depth(<<>>, 0) = 0
  BY <1>1, TokensDepth, Zenon
<1>3. Balanced(<<>>)
  BY <1>1, <1>2 DEF Balanced
<1>4. Reading[<<>>][TRUE] = <<>>
  BY <1>1, ReadingOne, Zenon
<1> QED
  BY <1>3, <1>4, Zenon DEF ReadList

\* One argument.
LEMMA FirstIsRead ==
  ASSUME NEW t, NEW e, ReadBack(t, e)
  PROVE  ReadList(t, <<e>>)
<1>1. t \in Seq(Tokens) /\ t # <<>> /\ Balanced(t) /\ OuterCommas(t) = {} /\ Reading[t][FALSE] = e
  BY WholeIs, Zenon DEF ReadBack
<1>2. Reading[t][TRUE] = <<Reading[t][FALSE]>>
  BY <1>1, ReadingOne, Zenon
<1> QED
  BY <1>1, <1>2, Zenon DEF ReadList

\* A comma and one more argument.
LEMMA NextIsRead ==
  ASSUME NEW l, NEW list, ReadList(l, list), NEW r, NEW e, ReadBack(r, e),
         NEW c, Comma(c), NEW m, Joins(m, l, c, r)
  PROVE  ReadList(m, Append(list, e))
<1>0. Balanced(l) /\ Reading[l][TRUE] = list /\ Whole(r) /\ Reading[r][FALSE] = e
  BY Zenon DEF ReadBack, ReadList
<1>1. /\ Balanced(m)
      /\ Len(l) + 1 \in OuterCommas(m) /\ \A i \in OuterCommas(m) : i <= Len(l) + 1
      /\ Upto(m, Len(l) + 1) = l /\ Behind(m, Len(l) + 1) = r
  BY <1>0, ListingIs
<1>2. m \in Seq(Tokens) /\ m # <<>>
  <2>1. m \in Seq(Tokens)
    BY Zenon DEF Joins
  <2>2. Len(l) + 1 \in 1 .. Len(m)
    BY <1>1, <2>1, OuterAre
  <2> QED
    BY <2>1, <2>2
<1>3. Latest(OuterCommas(m)) = Len(l) + 1
  <2>1. /\ Latest(OuterCommas(m)) \in OuterCommas(m) /\ Latest(OuterCommas(m)) \in 1 .. Len(m)
        /\ Len(l) + 1 <= Latest(OuterCommas(m))
    BY <1>1, <1>2, LastCommaIs
  <2>2. Latest(OuterCommas(m)) <= Len(l) + 1
    BY <1>1, <2>1
  <2>3. Len(l) \in Nat
    BY <1>0 DEF Balanced
  <2> QED
    BY <2>1, <2>2, <2>3
<1>4. Reading[m][TRUE] = Append(list, e)
  <2>1. OuterCommas(m) # {}
    BY <1>1
  <2>2. Reading[m][TRUE] = Append(Reading[Upto(m, Latest(OuterCommas(m)))][TRUE],
                                  Reading[Behind(m, Latest(OuterCommas(m)))][FALSE])
    BY <1>2, <2>1, ReadingOne, Zenon
  <2> QED
    BY <1>0, <1>1, <1>3, <2>2, Zenon
<1> QED
  BY <1>1, <1>4, Zenon DEF ReadList

\* A name and arguments in parentheses are read as a call.
LEMMA CallIsRead ==
  ASSUME NEW j, NEW args, ReadList(j, args), NEW name \in Idents, NEW v, Wraps(v, j)
  PROVE  ReadBack(<<name>> \o v, Call(name, args))
<1> DEFINE t == <<name>> \o v
<1>0. Balanced(j) /\ Reading[j][TRUE] = args /\ j \in Seq(Tokens) /\ Len(j) \in Nat
  BY DEF ReadList, Balanced
<1>1. Whole(v) /\ Inside(v, 1) = j
  BY <1>0, WrapIsWhole, Zenon
<1>2. name \in Tokens /\ ~Bracket(name) /\ ~Comma(name) /\ name \notin Signs /\ name # "("
        /\ name \notin Numbers
  <2>1. name \in Tokens /\ ~Bracket(name) /\ ~Comma(name)
    BY MarksAre
  <2>2. name \notin Signs /\ name # "(" /\ name \notin Numbers
    BY Distinct, Zenon
  <2> QED
    BY <2>1, <2>2, Zenon
<1>3. v[1] \notin Operators
  <2>1. v[1] = "("
    BY Zenon DEF Wraps
  <2>2. "(" \notin Operators
    BY Distinct, Zenon
  <2> QED
    BY <2>1, <2>2, Zenon
<1>4. v \in Seq(Tokens) /\ Len(v) = Len(j) + 2
  BY DEF Wraps
<1>5. Whole(t) /\ t \in Seq(Tokens)
  BY <1>1, <1>2, <1>3, PrefixIsWhole, WholeIs, Zenon
<1>6. t[1] = name /\ Len(t) = Len(v) + 1 /\ \A i \in 1 .. Len(v) : t[i + 1] = v[i]
  BY <1>2, <1>4
<1> HIDE DEF t
<1>7. Len(t) # 1
  BY <1>0, <1>4, <1>6
<1>8. Inside(t, 2) = j
  <2> DEFINE u == SubSeq(t, 2 + 1, Len(t) - 1)
             w == SubSeq(v, 1 + 1, Len(v) - 1)
  <2>1. u \in Seq(Tokens) /\ Len(u) = Len(j) /\ \A i \in 1 .. Len(j) : u[i] = t[i + 2]
    BY <1>0, <1>4, <1>5, <1>6
  <2>2. w \in Seq(Tokens) /\ Len(w) = Len(j) /\ \A i \in 1 .. Len(j) : w[i] = v[i + 1]
    BY <1>0, <1>4
  <2> HIDE DEF u, w
  <2>3. \A i \in 1 .. Len(j) : t[i + 2] = v[i + 1]
    <3>1. \A i \in 1 .. Len(j) : i + 1 \in 1 .. Len(v) /\ (i + 1) + 1 = i + 2
      BY <1>0, <1>4
    <3> QED
      BY <1>6, <3>1
  <2>4. u = w
    <3>1. \A i \in 1 .. Len(j) : u[i] = w[i]
      BY <2>1, <2>2, <2>3, Zenon
    <3> QED
      BY <2>1, <2>2, <3>1
  <2> QED
    BY <1>1, <2>4, Zenon DEF Inside, u, w
<1>9. Reading[t][FALSE] = ReadOne(Reading, t) /\ t # <<>> /\ OuterOperators(t) = {}
  BY <1>5, WholeIs, ReadingOne, Zenon
<1>10. Reading[t][FALSE] = Call(name, args)
  BY <1>0, <1>2, <1>6, <1>7, <1>8, <1>9, Zenon DEF ReadOne
<1> QED
  BY <1>5, <1>10, Zenon DEF ReadBack, t

-----------------------------------------------------------------------------
(* The text of an expression.                                              *)

\* The text of an expression; h has those of its parts.
EmitBody(h, e) ==
  IF e.kind = "binary"     THEN EmitBinary(e, h[e.lhs], h[e.rhs])
  ELSE IF e.kind = "unary" THEN <<e.op>> \o h[e.rhs]
  ELSE IF e.kind = "call"  THEN EmitCall(e, [i \in DOMAIN e.args |-> h[e.args[i]]])
  ELSE IF e.kind = "var"   THEN <<e.name>> ELSE <<e.value>>

\* Texts with a comma between them.
Pieces(texts) == [i \in DOMAIN texts |-> IF i = 1 THEN texts[i] ELSE <<",", " ">> \o texts[i]]

\* Symbols are texts.
LEMMA SymbolsAre ==
  /\ \A x \in Letters : <<x>> \in Text
  /\ \A x \in Tokens : x \in Letters
  /\ <<"(">> \in Text /\ <<")">> \in Text /\ <<",", " ">> \in Text
  /\ \A x \in Letters : <<" ", x, " ">> \in Text
  /\ \A s, t \in Text : s \o t \in Text
<1>1. /\ \A x \in Letters : <<x>> \in Text
      /\ \A x, y \in Letters : <<x, y>> \in Text
      /\ \A x, y, z \in Letters : <<x, y, z>> \in Text
      /\ \A s, t \in Text : s \o t \in Text
  BY LettersAre
<1>2. "(" \in Letters /\ ")" \in Letters /\ "," \in Letters /\ " " \in Letters
        /\ \A x \in Tokens : x \in Letters
  BY Zenon DEF Letters, Tokens
<1> QED
  BY <1>1, <1>2, Zenon

\* They are texts, and so is all of them.
LEMMA PiecesAre ==
  ASSUME NEW texts \in Seq(Text)
  PROVE  Pieces(texts) \in Seq(Text) /\ FlattenSeq(Pieces(texts)) \in Text
<1>1. ASSUME NEW i \in DOMAIN texts
      PROVE  (IF i = 1 THEN texts[i] ELSE <<",", " ">> \o texts[i]) \in Text
  <2>1. texts[i] \in Text
    OBVIOUS
  <2> QED
    BY <2>1, SymbolsAre, Zenon
<1>2. Pieces(texts) \in Seq(Text)
  <2> DEFINE p(i) == IF i = 1 THEN texts[i] ELSE <<",", " ">> \o texts[i]
  <2>0. DOMAIN texts = 1 .. Len(texts)
    OBVIOUS
  <2>1. \A i \in 1 .. Len(texts) : p(i) \in Text
    BY <1>1, <2>0, Zenon
  <2>2. Pieces(texts) = [i \in 1 .. Len(texts) |-> p(i)] /\ Len(texts) \in Nat
    BY DEF Pieces
  <2> HIDE DEF p
  <2>3. [i \in 1 .. Len(texts) |-> p(i)] \in Seq(Text)
    BY <2>1, <2>2
  <2> QED
    BY <2>2, <2>3, Zenon
<1>3. Text = Seq(Letters)
  BY LettersAre
<1> QED
  BY <1>2, <1>3, FlattenHolds

\* What is emitted is a text.
LEMMA EmitsText ==
  ASSUME NEW e \in Expr, NEW h \in [Expr -> Text]
  PROVE  EmitBody(h, e) \in Text
<1>0. Looks(e, Expr)
  BY ExprLooks
<1>1. CASE e.kind = "binary"
  <2>1. h[e.lhs] \in Text /\ h[e.rhs] \in Text /\ e.op \in Letters
    <3>1. e.lhs \in Expr /\ e.rhs \in Expr /\ e.op \in Operators
      BY <1>0, <1>1 DEF Looks
    <3>2. e.op \in Letters
      BY <3>1, MarksAre, SymbolsAre, Zenon
    <3> QED
      BY <3>1, <3>2
  <2>2. EmitBinary(e, h[e.lhs], h[e.rhs]) \in Text
    BY <2>1, SymbolsAre, Zenon DEF EmitBinary
  <2> QED
    BY <1>1, <2>2, Zenon DEF EmitBody
<1>2. CASE e.kind = "unary"
  <2>1. h[e.rhs] \in Text /\ e.op \in Letters
    <3>1. e.rhs \in Expr /\ e.op \in Signs
      BY <1>0, <1>2 DEF Looks
    <3>2. e.op \in Letters
      BY <3>1, MarksAre, SymbolsAre, Zenon
    <3> QED
      BY <3>1, <3>2
  <2> QED
    BY <1>2, <2>1, SymbolsAre DEF EmitBody
<1>3. CASE e.kind = "call"
  <2> DEFINE texts == [i \in DOMAIN e.args |-> h[e.args[i]]]
  <2>1. e.args \in Seq(Expr) /\ e.name \in Idents
    BY <1>0, <1>3 DEF Looks
  <2>2. texts \in Seq(Text)
    BY <2>1
  <2> HIDE DEF texts
  <2>3. FlattenSeq(Pieces(texts)) \in Text
    BY <2>2, PiecesAre
  <2>4. <<e.name, "(">> \in Text
    <3>1. e.name \in Letters /\ "(" \in Letters
      BY <2>1, MarksAre, SymbolsAre, Zenon DEF Letters, Tokens
    <3>2. \A x, y \in Letters : <<x, y>> \in Text
      BY LettersAre
    <3> QED
      BY <3>1, <3>2, Zenon
  <2>5. EmitCall(e, texts) \in Text
    BY <2>3, <2>4, SymbolsAre, Zenon DEF EmitCall, Pieces
  <2> QED
    BY <1>3, <2>5, Zenon DEF EmitBody, texts
<1>4. CASE e.kind = "var"
  <2>1. e.name \in Letters
    <3>1. e.name \in Idents
      BY <1>0, <1>4 DEF Looks
    <3> QED
      BY <3>1, MarksAre, SymbolsAre, Zenon
  <2> QED
    BY <1>4, <2>1, SymbolsAre DEF EmitBody
<1>5. CASE e.kind = "int"
  <2>1. e.value \in Letters
    <3>1. e.value \in Numbers
      BY <1>0, <1>5 DEF Looks
    <3> QED
      BY <3>1, MarksAre, SymbolsAre, Zenon
  <2> QED
    BY <1>5, <2>1, SymbolsAre DEF EmitBody
<1> QED
  BY <1>0, <1>1, <1>2, <1>3, <1>4, <1>5 DEF Looks

\* emit_expr is well defined.
LEMMA EmitExprIs ==
  /\ EmitExpr \in [Expr -> Text]
  /\ \A e \in Expr : EmitExpr[e] = EmitBody(EmitExpr, e)
<1> DEFINE B(h, x) == EmitBody(h, x)
           F == [x \in Expr |-> [h \in [Expr -> Text] |-> B(h, x)]]
           Is(h) == h = [x \in Expr |-> B(h, x)]
           T == CHOOSE h : Is(h)
<1>1. ASSUME NEW x \in Expr, NEW h \in [Expr -> Text] PROVE B(h, x) \in Text
  BY EmitsText
<1>2. ASSUME NEW x \in Expr, NEW g, NEW h, \A k \in Parts(x) : g[k] = h[k]
      PROVE  B(g, x) = B(h, x)
  <2>1. x.kind = "binary" => g[x.lhs] = h[x.lhs] /\ g[x.rhs] = h[x.rhs]
    BY <1>2 DEF Parts
  <2>2. x.kind = "unary" => g[x.rhs] = h[x.rhs]
    BY <1>2 DEF Parts
  <2>3. x.kind = "call" => [i \in DOMAIN x.args |-> g[x.args[i]]] = [i \in DOMAIN x.args |-> h[x.args[i]]]
    <3>1. x.kind = "call" => \A i \in DOMAIN x.args : x.args[i] \in Parts(x)
      BY DEF Parts, Range
    <3> QED
      BY <1>2, <3>1, Zenon
  <2> QED
    BY <2>1, <2>2, <2>3, Zenon DEF EmitBody
<1>3. EmitExpr = T
  BY Zenon DEF EmitExpr, EmitBody
<1> HIDE DEF B, Is
<1>4. PICK h : Obeys(h, Expr, Text, F)
  <2>1. F \in [Expr -> [[Expr -> Text] -> Text]]
    BY <1>1
  <2>2. \A e \in Expr : \A g, h \in [Expr -> Text] :
           (\A k \in Parts(e) : g[k] = h[k]) => F[e][g] = F[e][h]
    BY <1>2
  <2>3. <<>> \in Text
    BY LettersAre
  <2> HIDE DEF F
  <2> QED
    BY <2>1, <2>2, <2>3, ExprRecursion
<1>5. h = [x \in Expr |-> B(h, x)]
  BY <1>4 DEF Obeys
<1>6. T = [x \in Expr |-> B(T, x)]
  BY <1>5, Zenon DEF Is
<1> HIDE DEF T
<1>7. \A x \in Expr : T[x] \in Text
  <2> DEFINE P == {x \in Expr : T[x] \in Text}
             g == [x \in Expr |-> IF T[x] \in Text THEN T[x] ELSE <<>>]
  <2>0. g \in [Expr -> Text]
    BY LettersAre
  <2>1. ASSUME NEW e \in Expr, Parts(e) \subseteq P PROVE e \in P
    <3>1. \A k \in Parts(e) : g[k] = T[k]
      BY <2>1
    <3> HIDE DEF g
    <3>2. B(g, e) = B(T, e)
      BY <1>2, <3>1, Zenon
    <3>3. T[e] \in Text
      BY <1>1, <1>6, <2>0, <3>2, Zenon
    <3> QED
      BY <3>3
  <2> HIDE DEF P
  <2>2. Expr \subseteq P
    BY <2>1, ExprInduction
  <2> QED
    BY <2>2 DEF P
<1>8. T \in [Expr -> Text] /\ \A x \in Expr : T[x] = B(T, x)
  BY <1>6, <1>7, Zenon
<1> QED
  BY <1>3, <1>8, Zenon DEF B

-----------------------------------------------------------------------------
(* The text of an expression is read as that expression.                   *)

\* The tokens in a text.
Tok(t) == Only(t, Tokens)

\* Short sequences as joins.
LEMMA TwoAndThree ==
  ASSUME NEW x, NEW y, NEW z
  PROVE  <<x, y>> = <<x>> \o <<y>> /\ <<x, y, z>> = <<x, y>> \o <<z>>
<1> DEFINE A == {x, y, z}
           u == <<x, y>>
           v == <<x, y, z>>
           s == <<x>> \o <<y>>
           t == <<x, y>> \o <<z>>
<1>1. u \in Seq(A) /\ s \in Seq(A) /\ Len(u) = 2 /\ Len(s) = 2
        /\ u[1] = x /\ u[2] = y /\ s[1] = x /\ s[2] = y
  OBVIOUS
<1>2. v \in Seq(A) /\ t \in Seq(A) /\ Len(v) = 3 /\ Len(t) = 3
        /\ v[1] = x /\ v[2] = y /\ v[3] = z /\ t[1] = x /\ t[2] = y /\ t[3] = z
  OBVIOUS
<1> HIDE DEF A, u, v, s, t
<1>3. u = s
  <2>1. \A i \in 1 .. Len(u) : i = 1 \/ i = 2
    BY <1>1
  <2> QED
    BY <1>1, <2>1, SeqEqual
<1>4. v = t
  <2>1. \A i \in 1 .. Len(v) : i = 1 \/ i = 2 \/ i = 3
    BY <1>2
  <2> QED
    BY <1>2, <2>1, SeqEqual
<1> QED
  BY <1>3, <1>4 DEF u, v, s, t

\* The tokens of a text made of others.
LEMMA TokIs ==
  /\ \A t \in Text : Tok(t) \in Seq(Tokens)
  /\ \A s, t \in Text : Tok(s \o t) = Tok(s) \o Tok(t)
  /\ \A x \in Tokens : Tok(<<x>>) = <<x>>
  /\ \A b : Blank(b) => \A x \in Tokens : Tok(<<b, x, b>>) = <<x>> /\ Tok(<<x, b>>) = <<x>>
  /\ \A x, y \in Tokens : Tok(<<x, y>>) = <<x, y>>
<1>0. Text = Seq(Letters) /\ \A x \in Tokens : x \in Letters
  BY LettersAre, SymbolsAre
<1>1. \A t \in Text : Tok(t) \in Seq(Tokens)
  <2>1. ASSUME NEW t \in Seq(Letters) PROVE Tok(t) \in Seq(Tokens)
    <3>1. Tok(t) \in Seq(Letters) /\ Range(Tok(t)) = Range(t) \cap Tokens
      BY OnlyKeeps DEF Tok
    <3>2. \A i \in DOMAIN Tok(t) : Tok(t)[i] \in Tokens
      BY <3>1 DEF Range
    <3> QED
      BY <3>1, <3>2
  <2> QED
    BY <1>0, <2>1
<1>2. \A s, t \in Text : Tok(s \o t) = Tok(s) \o Tok(t)
  BY <1>0, OnlyConcat DEF Tok
<1>3. \A x \in Letters : Tok(<<x>>) = IF x \in Tokens THEN <<x>> ELSE <<>>
  BY OnlySingle DEF Tok
<1>4. \A x \in Tokens : Tok(<<x>>) = <<x>>
  BY <1>0, <1>3
<1>5. ASSUME NEW b, Blank(b) PROVE b \in Letters /\ Tok(<<b>>) = <<>> /\ <<b>> \in Text
  BY <1>3, <1>5, LettersAre, SymbolsAre
<1>6. ASSUME NEW x \in Letters, NEW y \in Letters PROVE Tok(<<x, y>>) = Tok(<<x>>) \o Tok(<<y>>)
  <2>1. <<x, y>> = <<x>> \o <<y>>
    BY TwoAndThree
  <2>2. <<x>> \in Text /\ <<y>> \in Text
    BY SymbolsAre
  <2>3. Tok(<<x>> \o <<y>>) = Tok(<<x>>) \o Tok(<<y>>)
    BY <1>2, <2>2, Zenon
  <2> QED
    BY <2>1, <2>3, Zenon
<1>7. ASSUME NEW x \in Letters, NEW y \in Letters, NEW z \in Letters
      PROVE  Tok(<<x, y, z>>) = Tok(<<x, y>>) \o Tok(<<z>>)
  <2>1. <<x, y, z>> = <<x, y>> \o <<z>>
    BY TwoAndThree
  <2>2. <<x, y>> \in Text /\ <<z>> \in Text
    <3>1. <<x, y>> \in Seq(Letters) /\ <<z>> \in Seq(Letters)
      OBVIOUS
    <3> QED
      BY <1>0, <3>1, Zenon
  <2>3. Tok(<<x, y>> \o <<z>>) = Tok(<<x, y>>) \o Tok(<<z>>)
    BY <1>2, <2>2, Zenon
  <2> QED
    BY <2>1, <2>3, Zenon
<1>8. ASSUME NEW b, Blank(b), NEW x \in Tokens
      PROVE  Tok(<<b, x, b>>) = <<x>> /\ Tok(<<x, b>>) = <<x>>
  <2>1. b \in Letters /\ x \in Letters /\ Tok(<<b>>) = <<>> /\ Tok(<<x>>) = <<x>>
    BY <1>0, <1>4, <1>5, <1>8
  <2>2. Tok(<<x, b>>) = <<x>>
    <3>1. Tok(<<x, b>>) = <<x>> \o <<>>
      BY <1>6, <2>1, Zenon
    <3> QED
      BY <3>1
  <2>3. Tok(<<b, x>>) = <<x>>
    <3>1. Tok(<<b, x>>) = <<>> \o <<x>>
      BY <1>6, <2>1, Zenon
    <3> QED
      BY <3>1
  <2>4. Tok(<<b, x, b>>) = <<x>> \o <<>>
    BY <1>7, <2>1, <2>3, Zenon
  <2> QED
    BY <2>2, <2>4
<1>9. \A x, y \in Tokens : Tok(<<x, y>>) = <<x, y>>
  <2>1. ASSUME NEW x \in Tokens, NEW y \in Tokens PROVE Tok(<<x, y>>) = <<x, y>>
    <3>1. Tok(<<x, y>>) = <<x>> \o <<y>>
      BY <1>0, <1>4, <1>6, Zenon
    <3>2. <<x, y>> = <<x>> \o <<y>>
      BY TwoAndThree
    <3> QED
      BY <3>1, <3>2, Zenon
  <2> QED
    BY <2>1
<1> QED
  BY <1>1, <1>2, <1>4, <1>8, <1>9, Zenon

\* Between two texts there are no two signs in a row.
Apart(s, t) == s = <<>> \/ t = <<>> \/ ~Minus(s[Len(s)]) \/ ~Minus(t[1])

\* Then there are none in both of them.
LEMMA QuietJoin ==
  ASSUME NEW s \in Text, NEW t \in Text, Quiet(s), Quiet(t), Apart(s, t)
  PROVE  s \o t \in Text /\ Quiet(s \o t)
<1>0. s \in Seq(Letters) /\ t \in Seq(Letters) /\ s \o t \in Text
  BY LettersAre, SymbolsAre
<1> DEFINE u == s \o t
<1>1. /\ u \in Seq(Letters) /\ Len(u) = Len(s) + Len(t) /\ Len(s) \in Nat /\ Len(t) \in Nat
      /\ \A i \in 1 .. Len(s) : u[i] = s[i]
      /\ \A i \in 1 .. Len(t) : u[Len(s) + i] = t[i]
  BY <1>0
<1> HIDE DEF u
<1>2. ASSUME NEW i \in 1 .. Len(u) - 1 PROVE ~(Minus(u[i]) /\ Minus(u[i + 1]))
  <2>1. CASE i < Len(s)
    <3>1. i \in 1 .. Len(s) - 1 /\ u[i] = s[i] /\ u[i + 1] = s[i + 1]
      BY <1>1, <2>1
    <3> QED
      BY <3>1 DEF Quiet
  <2>2. CASE i > Len(s)
    <3> DEFINE j == i - Len(s)
    <3>1. j \in 1 .. Len(t) - 1 /\ Len(s) + j = i /\ Len(s) + (j + 1) = i + 1 /\ j + 1 \in 1 .. Len(t)
      BY <1>1, <2>2
    <3> HIDE DEF j
    <3>2. u[i] = t[j] /\ u[i + 1] = t[j + 1]
      <4>1. j \in 1 .. Len(t) /\ u[Len(s) + j] = t[j] /\ u[Len(s) + (j + 1)] = t[j + 1]
        BY <1>1, <3>1
      <4> QED
        BY <3>1, <4>1
    <3> QED
      BY <3>1, <3>2 DEF Quiet
  <2>3. CASE i = Len(s)
    <3>1. Len(s) \in 1 .. Len(s) /\ 1 \in 1 .. Len(t)
      BY <1>1, <2>3
    <3>2. u[i] = s[Len(s)] /\ u[i + 1] = t[1] /\ s # <<>> /\ t # <<>>
      BY <1>0, <1>1, <2>3, <3>1
    <3> QED
      BY <3>2, Zenon DEF Apart
  <2> QED
    BY <1>1, <2>1, <2>2, <2>3
<1>3. Quiet(u)
  BY <1>2 DEF Quiet
<1> QED
  BY <1>0, <1>3 DEF u

\* A sequence does not end, and does not begin, with a sign.
LEMMA EndsIn ==
  ASSUME NEW s \in Text, NEW t \in Text, t # <<>>
  PROVE  /\ s \o t # <<>> /\ (s \o t)[Len(s \o t)] = t[Len(t)]
         /\ (t \o s)[1] = t[1] /\ t \o s # <<>>
<1>0. s \in Seq(Letters) /\ t \in Seq(Letters)
  BY LettersAre
<1> QED
  BY <1>0

\* Texts without a sign.
LEMMA PlainQuiet ==
  /\ \A x \in Letters : <<x>> \in Text /\ Quiet(<<x>>) /\ <<x>>[1] = x /\ <<x>>[Len(<<x>>)] = x
                        /\ <<x>> # <<>>
  /\ \A x, y \in Letters : ~Minus(x) \/ ~Minus(y) =>
       <<x, y>> \in Text /\ Quiet(<<x, y>>) /\ <<x, y>>[1] = x /\ <<x, y>>[Len(<<x, y>>)] = y
         /\ <<x, y>> # <<>>
  /\ \A x, y \in Letters : ~Minus(x) =>
       <<x, y, x>> \in Text /\ Quiet(<<x, y, x>>) /\ <<x, y, x>>[1] = x
         /\ <<x, y, x>>[Len(<<x, y, x>>)] = x /\ <<x, y, x>> # <<>>
<1>1. ASSUME NEW x \in Letters
      PROVE  <<x>> \in Text /\ Quiet(<<x>>) /\ <<x>>[1] = x /\ <<x>>[Len(<<x>>)] = x /\ <<x>> # <<>>
  BY LettersAre DEF Quiet
<1>2. ASSUME NEW x \in Letters, NEW y \in Letters, ~Minus(x) \/ ~Minus(y)
      PROVE  <<x, y>> \in Text /\ Quiet(<<x, y>>) /\ <<x, y>>[1] = x /\ <<x, y>>[Len(<<x, y>>)] = y
               /\ <<x, y>> # <<>>
  <2> DEFINE t == <<x, y>>
  <2>1. t \in Text /\ Len(t) = 2 /\ t[1] = x /\ t[2] = y
    BY LettersAre
  <2> HIDE DEF t
  <2>2. \A i \in 1 .. Len(t) - 1 : i = 1 /\ i + 1 = 2
    BY <2>1
  <2>3. Quiet(t)
    BY <1>2, <2>1, <2>2 DEF Quiet
  <2>4. t # <<>>
    BY <2>1
  <2>5. t \in Text /\ Quiet(t) /\ t[1] = x /\ t[Len(t)] = y /\ t # <<>>
    BY <2>1, <2>3, <2>4
  <2> QED
    BY <2>5 DEF t
<1>3. ASSUME NEW x \in Letters, NEW y \in Letters, ~Minus(x)
      PROVE  <<x, y, x>> \in Text /\ Quiet(<<x, y, x>>) /\ <<x, y, x>>[1] = x
               /\ <<x, y, x>>[Len(<<x, y, x>>)] = x /\ <<x, y, x>> # <<>>
  <2> DEFINE t == <<x, y, x>>
  <2>1. t \in Text /\ Len(t) = 3 /\ t[1] = x /\ t[2] = y /\ t[3] = x
    BY LettersAre
  <2> HIDE DEF t
  <2>2. \A i \in 1 .. Len(t) - 1 : (i = 1 /\ i + 1 = 2) \/ (i = 2 /\ i + 1 = 3)
    BY <2>1
  <2>3. Quiet(t)
    BY <1>3, <2>1, <2>2 DEF Quiet
  <2>4. t # <<>>
    BY <2>1
  <2>5. t \in Text /\ Quiet(t) /\ t[1] = x /\ t[Len(t)] = x /\ t # <<>>
    BY <2>1, <2>3, <2>4
  <2> QED
    BY <2>5 DEF t
<1> QED
  BY <1>1, <1>2, <1>3

\* Its text is read as the expression it was made of.
Faithful(e) ==
  /\ EmitExpr[e] # <<>> /\ Quiet(EmitExpr[e])
  /\ Minus(EmitExpr[e][1]) => e.kind = "unary" /\ e.op = "-"
  /\ ReadBack(Tok(EmitExpr[e]), e)

\* What is a minus and what is not.
LEMMA MinusIs ==
  /\ \A x \in Idents \cup Numbers : ~Minus(x)
  /\ \A x : Blank(x) => ~Minus(x)
  /\ ~Minus("(") /\ ~Minus(")") /\ ~Minus(",") /\ ~Minus(" ") /\ Blank(" ") /\ Comma(",")
  /\ "(" \in Tokens /\ ")" \in Tokens /\ "," \in Tokens /\ " " \in Letters
<1>1. \A x \in Idents \cup Numbers : ~Minus(x)
  BY Distinct, Zenon DEF Minus, Signs
<1>2. \A x : Blank(x) => ~Minus(x)
  BY DEF Blank, Minus
<1>3. ~Minus("(") /\ ~Minus(")") /\ ~Minus(",") /\ ~Minus(" ") /\ Blank(" ") /\ Comma(",")
  BY DEF Minus, Blank, Comma
<1>4. "(" \in Tokens /\ ")" \in Tokens /\ "," \in Tokens /\ " " \in Letters
  BY Zenon DEF Tokens, Letters
<1> QED
  BY <1>1, <1>2, <1>3, <1>4, Zenon

\* Of a name or a number.
LEMMA LeafFaithful ==
  ASSUME NEW e \in Expr, e.kind \in {"int", "var"}
  PROVE  Faithful(e)
<1>0. Looks(e, Expr) /\ EmitExpr[e] = EmitBody(EmitExpr, e)
  BY ExprLooks, EmitExprIs
<1> DEFINE x == IF e.kind = "var" THEN e.name ELSE e.value
<1>1. EmitExpr[e] = <<x>>
  BY <1>0 DEF EmitBody
<1>2. x \in Idents \cup Numbers /\ e = IF x \in Numbers THEN Literal(x) ELSE Var(x)
  <2>1. CASE e.kind = "var"
    <3>1. e.name \in Idents /\ e = Var(e.name)
      BY <1>0, <2>1 DEF Looks
    <3>2. e.name \notin Numbers
      BY <3>1, Distinct, Zenon
    <3> QED
      BY <2>1, <3>1, <3>2
  <2>2. CASE e.kind = "int"
    BY <1>0, <2>2 DEF Looks
  <2> QED
    BY <2>1, <2>2
<1> HIDE DEF x
<1>3. x \in Tokens /\ x \in Letters /\ ~Minus(x)
  BY <1>2, MarksAre, SymbolsAre, MinusIs, Zenon
<1>4. Tok(<<x>>) = <<x>>
  BY <1>3, TokIs, Zenon
<1>5. ReadBack(<<x>>, e)
  BY <1>2, LeafIsRead, Zenon
<1>6. Quiet(<<x>>) /\ <<x>>[1] = x /\ <<x>> # <<>>
  BY <1>3, PlainQuiet, Zenon
<1> QED
  BY <1>1, <1>3, <1>4, <1>5, <1>6, Zenon DEF Faithful

\* Of a sign and an operand, unless both start with a minus.
LEMMA SignFaithful ==
  ASSUME NEW e \in Expr, e.kind = "unary", Faithful(e.rhs), ~TwoMinus(e)
  PROVE  Faithful(e)
<1> DEFINE r == EmitExpr[e.rhs]
           op == e.op
           t == <<op>> \o r
<1>0. Looks(e, Expr) /\ EmitExpr[e] = EmitBody(EmitExpr, e)
  BY ExprLooks, EmitExprIs
<1>1. e.op \in Signs /\ e.rhs \in Expr /\ e = Unary(e.op, e.rhs)
  BY <1>0 DEF Looks
<1>2. r \in Text /\ r # <<>> /\ Quiet(r) /\ ReadBack(Tok(r), e.rhs)
        /\ (Minus(r[1]) => e.rhs.kind = "unary" /\ e.rhs.op = "-")
  BY <1>1, EmitExprIs DEF Faithful
<1>3. op \in Tokens /\ op \in Letters
  BY <1>1, MarksAre, SymbolsAre, Zenon
<1>4. EmitExpr[e] = t
  BY <1>0 DEF EmitBody
<1>5. ~Minus(op) \/ ~Minus(r[1])
  BY <1>2 DEF TwoMinus, Minus
<1>6. ReadBack(<<op>> \o Tok(r), e)
  BY <1>1, <1>2, SignIsRead, Zenon
<1>7. Tok(t) = <<op>> \o Tok(r)
  <2>1. <<op>> \in Text /\ Tok(<<op>>) = <<op>>
    BY <1>3, TokIs, SymbolsAre, Zenon
  <2> HIDE DEF r, op
  <2> QED
    BY <1>2, <2>1, TokIs, Zenon
<1>8. <<op>> \in Text /\ Quiet(<<op>>) /\ <<op>>[1] = op /\ <<op>>[Len(<<op>>)] = op /\ <<op>> # <<>>
  BY <1>3, PlainQuiet, Zenon
<1> HIDE DEF r
<1>9. Apart(<<op>>, r)
  BY <1>5, <1>8, Zenon DEF Apart
<1>10. Quiet(t)
  BY <1>2, <1>8, <1>9, QuietJoin, Zenon
<1>11. t # <<>> /\ t[1] = op
  BY <1>2, <1>8, EndsIn, Zenon
<1>12. Minus(t[1]) => e.kind = "unary" /\ e.op = "-"
  BY <1>11 DEF Minus
<1> HIDE DEF t, op
<1> QED
  BY <1>4, <1>6, <1>7, <1>10, <1>11, <1>12, Zenon DEF Faithful

\* Parentheses, blanks and an operator around and between.
LEMMA BinaryTokens ==
  ASSUME NEW l \in Seq(Tokens), NEW r \in Seq(Tokens), NEW op \in Tokens
  PROVE  LET m == (l \o <<op>>) \o r
             w == (((<<"(">> \o l) \o <<op>>) \o r) \o <<")">>
         IN Joins(m, l, op, r) /\ Wraps(w, m)
<1> DEFINE a == "("
           b == ")"
           m == (l \o <<op>>) \o r
           w == (((<<a>> \o l) \o <<op>>) \o r) \o <<b>>
<1>1. a = "(" /\ b = ")" /\ a \in Tokens /\ b \in Tokens
  BY MinusIs, Zenon
<1> HIDE DEF a, b
<1>0. a \in Tokens /\ b \in Tokens /\ Len(l) \in Nat /\ Len(r) \in Nat
  BY <1>1
<1>2. /\ m \in Seq(Tokens) /\ Len(m) = Len(l) + 1 + Len(r) /\ m[Len(l) + 1] = op
      /\ \A i \in 1 .. Len(l) : m[i] = l[i]
      /\ \A i \in 1 .. Len(r) : m[Len(l) + 1 + i] = r[i]
  OBVIOUS
<1> DEFINE u == ((<<a>> \o l) \o <<op>>) \o r
<1>3. /\ u \in Seq(Tokens) /\ Len(u) = Len(l) + 2 + Len(r) /\ u[1] = a
      /\ u[Len(l) + 2] = op
      /\ \A i \in 1 .. Len(l) : u[1 + i] = l[i]
      /\ \A i \in 1 .. Len(r) : u[Len(l) + 2 + i] = r[i]
  <2> DEFINE v == (<<a>> \o l) \o <<op>>
  <2>1. /\ v \in Seq(Tokens) /\ Len(v) = Len(l) + 2 /\ v[1] = a /\ v[Len(l) + 2] = op
        /\ \A i \in 1 .. Len(l) : v[1 + i] = l[i]
    <3> DEFINE x == <<a>> \o l
    <3>1. /\ x \in Seq(Tokens) /\ Len(x) = Len(l) + 1 /\ x[1] = a
          /\ \A i \in 1 .. Len(l) : x[1 + i] = l[i]
      BY <1>0
    <3>2. v = x \o <<op>>
      OBVIOUS
    <3> HIDE DEF v, x
    <3>3. /\ v \in Seq(Tokens) /\ Len(v) = Len(x) + 1 /\ v[Len(x) + 1] = op
          /\ \A i \in 1 .. Len(x) : v[i] = x[i]
      BY <3>1, <3>2
    <3>4. 1 \in 1 .. Len(x) /\ \A i \in 1 .. Len(l) : 1 + i \in 1 .. Len(x)
      BY <1>0, <3>1
    <3>5. Len(x) + 1 = Len(l) + 2
      BY <1>0, <3>1
    <3> QED
      BY <3>1, <3>3, <3>4, <3>5
  <2> HIDE DEF v
  <2>2. /\ v \o r \in Seq(Tokens) /\ Len(v \o r) = Len(v) + Len(r)
        /\ \A i \in 1 .. Len(v) : (v \o r)[i] = v[i]
        /\ \A i \in 1 .. Len(r) : (v \o r)[Len(v) + i] = r[i]
    <3>1. \A x, y \in Seq(Tokens) :
            /\ x \o y \in Seq(Tokens) /\ Len(x \o y) = Len(x) + Len(y)
            /\ \A i \in 1 .. Len(x) : (x \o y)[i] = x[i]
            /\ \A i \in 1 .. Len(y) : (x \o y)[Len(x) + i] = y[i]
      BY JoinIs
    <3> QED
      BY <2>1, <3>1, Zenon
  <2>3. u = v \o r
    BY DEF v
  <2> HIDE DEF u
  <2> QED
    BY <1>0, <2>1, <2>2, <2>3
<1>4. w = u \o <<b>>
  OBVIOUS
<1> HIDE DEF u, w, m
<1>5. /\ w \in Seq(Tokens) /\ Len(w) = Len(u) + 1 /\ w[Len(u) + 1] = b
      /\ \A i \in 1 .. Len(u) : w[i] = u[i]
  <2>1. u \in Seq(Tokens) /\ b \in Tokens
    BY <1>0, <1>3
  <2> QED
    BY <1>4, <2>1
<1>6. /\ w \in Seq(Tokens) /\ Len(w) = Len(m) + 2 /\ w[1] = a /\ w[Len(m) + 2] = b
  BY <1>0, <1>2, <1>3, <1>5
<1>7. ASSUME NEW i \in 1 .. Len(m) PROVE w[1 + i] = m[i]
  <2>1. i \in 1 .. Len(l) \/ i = Len(l) + 1 \/ \E j \in 1 .. Len(r) : i = Len(l) + 1 + j
    <3>0. i \in Int /\ i >= 1 /\ i <= Len(l) + 1 + Len(r)
      BY <1>0, <1>2
    <3>1. CASE i > Len(l) + 1
      <4>1. i - (Len(l) + 1) \in 1 .. Len(r) /\ i = Len(l) + 1 + (i - (Len(l) + 1))
        BY <1>0, <3>0, <3>1
      <4> QED
        BY <4>1, Zenon
    <3>2. CASE ~(i > Len(l) + 1)
      BY <1>0, <3>0, <3>2
    <3> QED
      BY <3>1, <3>2
  <2>2. 1 + i \in 1 .. Len(u) /\ w[1 + i] = u[1 + i]
    BY <1>0, <1>2, <1>3, <1>5
  <2>3. CASE i \in 1 .. Len(l)
    BY <1>2, <1>3, <2>2, <2>3
  <2>4. CASE i = Len(l) + 1
    <3>1. 1 + i = Len(l) + 2
      BY <1>0, <2>4
    <3> QED
      BY <1>2, <1>3, <2>2, <2>4, <3>1
  <2>5. ASSUME NEW j \in 1 .. Len(r), i = Len(l) + 1 + j PROVE w[1 + i] = m[i]
    <3>1. 1 + i = Len(l) + 2 + j
      BY <1>0, <2>5
    <3> QED
      BY <1>2, <1>3, <2>2, <2>5, <3>1
  <2> QED
    BY <2>1, <2>3, <2>4, <2>5
<1>8. Joins(m, l, op, r)
  BY <1>2, Zenon DEF Joins
<1>9. Wraps(w, m)
  BY <1>1, <1>6, <1>7, Zenon DEF Wraps
<1> QED
  BY <1>1, <1>8, <1>9, Zenon DEF m, w

\* Of an operation.
LEMMA InfixFaithful ==
  ASSUME NEW e \in Expr, e.kind = "binary", Faithful(e.lhs), Faithful(e.rhs)
  PROVE  Faithful(e)
<1> DEFINE l == EmitExpr[e.lhs]
           r == EmitExpr[e.rhs]
           op == e.op
           o == <<"(">>
           c == <<")">>
           mid == <<" ", op, " ">>
<1>0. Looks(e, Expr) /\ EmitExpr[e] = EmitBody(EmitExpr, e)
  BY ExprLooks, EmitExprIs
<1>1. op \in Operators /\ e.lhs \in Expr /\ e.rhs \in Expr /\ e = Binary(op, e.lhs, e.rhs)
  BY <1>0 DEF Looks
<1>2. /\ l \in Text /\ l # <<>> /\ Quiet(l) /\ ReadBack(Tok(l), e.lhs)
      /\ r \in Text /\ r # <<>> /\ Quiet(r) /\ ReadBack(Tok(r), e.rhs)
  BY <1>1, EmitExprIs DEF Faithful
<1>3. op \in Tokens /\ op \in Letters
  BY <1>1, MarksAre, SymbolsAre, Zenon
<1>4. EmitExpr[e] = (((o \o l) \o mid) \o r) \o c
  BY <1>0, Zenon DEF EmitBody, EmitBinary
<1>5. /\ o \in Text /\ Quiet(o) /\ o[1] = "(" /\ o[Len(o)] = "(" /\ o # <<>> /\ Tok(o) = <<"(">>
      /\ c \in Text /\ Quiet(c) /\ c[1] = ")" /\ c # <<>> /\ Tok(c) = <<")">>
  BY PlainQuiet, SymbolsAre, MinusIs, TokIs, Zenon
<1>6. /\ mid \in Text /\ Quiet(mid) /\ mid[1] = " " /\ mid[Len(mid)] = " " /\ mid # <<>>
      /\ Tok(mid) = <<op>>
  BY <1>3, PlainQuiet, MinusIs, TokIs, Zenon
<1> HIDE DEF l, r, o, c, mid
<1>7. /\ o \o l \in Text /\ Quiet(o \o l) /\ Tok(o \o l) = <<"(">> \o Tok(l)
      /\ (o \o l)[1] = "(" /\ o \o l # <<>>
  <2>1. Apart(o, l)
    BY <1>5, MinusIs, Zenon DEF Apart
  <2>2. Quiet(o \o l) /\ o \o l \in Text
    BY <1>2, <1>5, <2>1, QuietJoin, Zenon
  <2>3. Tok(o \o l) = <<"(">> \o Tok(l)
    BY <1>2, <1>5, TokIs, Zenon
  <2>4. (o \o l)[1] = "(" /\ o \o l # <<>>
    BY <1>2, <1>5, EndsIn, Zenon
  <2> QED
    BY <2>2, <2>3, <2>4
<1> DEFINE u == o \o l
<1> HIDE DEF u
<1>8. /\ u \o mid \in Text /\ Quiet(u \o mid) /\ Tok(u \o mid) = (<<"(">> \o Tok(l)) \o <<op>>
      /\ (u \o mid)[1] = "(" /\ u \o mid # <<>> /\ (u \o mid)[Len(u \o mid)] = " "
  <2>0. u \in Text /\ Quiet(u) /\ Tok(u) = <<"(">> \o Tok(l) /\ u[1] = "(" /\ u # <<>>
    BY <1>7 DEF u
  <2>1. Apart(u, mid)
    BY <1>6, MinusIs, Zenon DEF Apart
  <2>2. Quiet(u \o mid) /\ u \o mid \in Text
    BY <1>6, <2>0, <2>1, QuietJoin, Zenon
  <2>3. Tok(u \o mid) = (<<"(">> \o Tok(l)) \o <<op>>
    BY <1>6, <2>0, TokIs, Zenon
  <2>4. (u \o mid)[1] = "(" /\ u \o mid # <<>> /\ (u \o mid)[Len(u \o mid)] = " "
    BY <1>6, <2>0, EndsIn, Zenon
  <2> QED
    BY <2>2, <2>3, <2>4
<1> DEFINE v == u \o mid
<1> HIDE DEF v
<1>9. /\ v \o r \in Text /\ Quiet(v \o r)
      /\ Tok(v \o r) = ((<<"(">> \o Tok(l)) \o <<op>>) \o Tok(r)
      /\ (v \o r)[1] = "(" /\ v \o r # <<>>
  <2>0. v \in Text /\ Quiet(v) /\ Tok(v) = (<<"(">> \o Tok(l)) \o <<op>> /\ v[1] = "(" /\ v # <<>>
          /\ v[Len(v)] = " "
    BY <1>8 DEF v
  <2>1. Apart(v, r)
    BY <2>0, MinusIs, Zenon DEF Apart
  <2>2. Quiet(v \o r) /\ v \o r \in Text
    BY <1>2, <2>0, <2>1, QuietJoin, Zenon
  <2>3. Tok(v \o r) = ((<<"(">> \o Tok(l)) \o <<op>>) \o Tok(r)
    BY <1>2, <2>0, TokIs, Zenon
  <2>4. (v \o r)[1] = "(" /\ v \o r # <<>>
    BY <1>2, <2>0, EndsIn, Zenon
  <2> QED
    BY <2>2, <2>3, <2>4
<1> DEFINE w == v \o r
<1> HIDE DEF w
<1>10. /\ Quiet(w \o c) /\ (w \o c)[1] = "(" /\ w \o c # <<>>
       /\ Tok(w \o c) = (((<<"(">> \o Tok(l)) \o <<op>>) \o Tok(r)) \o <<")">>
  <2>0. /\ w \in Text /\ Quiet(w) /\ Tok(w) = ((<<"(">> \o Tok(l)) \o <<op>>) \o Tok(r)
        /\ w[1] = "(" /\ w # <<>>
    BY <1>9 DEF w
  <2>1. Apart(w, c)
    BY <1>5, MinusIs, Zenon DEF Apart
  <2>2. Quiet(w \o c)
    BY <1>5, <2>0, <2>1, QuietJoin, Zenon
  <2>3. Tok(w \o c) = (((<<"(">> \o Tok(l)) \o <<op>>) \o Tok(r)) \o <<")">>
    BY <1>5, <2>0, TokIs, Zenon
  <2>4. (w \o c)[1] = "(" /\ w \o c # <<>>
    BY <1>5, <2>0, EndsIn, Zenon
  <2> QED
    BY <2>2, <2>3, <2>4
<1>11. EmitExpr[e] = w \o c
  BY <1>4, Zenon DEF u, v, w
<1>12. Tok(l) \in Seq(Tokens) /\ Tok(r) \in Seq(Tokens)
  BY <1>2, TokIs, Zenon
<1>13. ReadBack(Tok(w \o c), e)
  <2> DEFINE m == (Tok(l) \o <<op>>) \o Tok(r)
  <2>1. Joins(m, Tok(l), op, Tok(r)) /\ Wraps(Tok(w \o c), m)
    BY <1>3, <1>10, <1>12, BinaryTokens, Zenon
  <2> HIDE DEF m
  <2>2. ReadBack(Tok(w \o c), Binary(op, e.lhs, e.rhs))
    BY <1>1, <1>2, <2>1, InfixIsRead, Zenon
  <2> QED
    BY <1>1, <2>2, Zenon
<1>14. ~Minus((w \o c)[1])
  BY <1>10, MinusIs, Zenon
<1> QED
  BY <1>10, <1>11, <1>13, <1>14, Zenon DEF Faithful

\* Arguments with commas between them are read as these arguments.
LEMMA ArgsFaithful ==
  ASSUME NEW args \in Seq(Expr), \A i \in DOMAIN args : Faithful(args[i])
  PROVE  LET texts == [i \in DOMAIN args |-> EmitExpr[args[i]]]
             flat  == FlattenSeq(Pieces(texts))
         IN flat \in Text /\ Quiet(flat) /\ ReadList(Tok(flat), args)
<1> DEFINE texts == [i \in DOMAIN args |-> EmitExpr[args[i]]]
           n == Len(args)
           sep == <<",", " ">>
           c == ","
           pieces == Pieces(texts)
<1>0. n \in Nat /\ DOMAIN args = 1 .. n /\ Text = Seq(Letters)
  BY LettersAre
<1>1. texts \in Seq(Text) /\ Len(texts) = n
  <2>1. \A i \in 1 .. n : EmitExpr[args[i]] \in Text
    BY <1>0, EmitExprIs
  <2>2. texts = [i \in 1 .. n |-> EmitExpr[args[i]]]
    BY <1>0
  <2> HIDE DEF texts
  <2> QED
    BY <1>0, <2>1, <2>2
<1>2. ASSUME NEW i \in 1 .. n
      PROVE  /\ args[i] \in Expr /\ texts[i] \in Text /\ Quiet(texts[i])
             /\ ReadBack(Tok(texts[i]), args[i])
             /\ pieces[i] = IF i = 1 THEN texts[i] ELSE sep \o texts[i]
  <2>1. args[i] \in Expr /\ texts[i] = EmitExpr[args[i]] /\ Faithful(args[i])
    BY <1>0
  <2>2. EmitExpr[args[i]] \in Text
    BY <2>1, EmitExprIs
  <2>3. pieces[i] = IF i = 1 THEN texts[i] ELSE sep \o texts[i]
    BY <1>0 DEF Pieces
  <2> QED
    BY <2>1, <2>2, <2>3, Zenon DEF Faithful
<1>3. pieces \in Seq(Text) /\ Len(pieces) = n
  <2>1. Pieces(texts) \in Seq(Text)
    BY <1>1, PiecesAre, Zenon
  <2>2. DOMAIN pieces = 1 .. n
    BY <1>0 DEF Pieces
  <2> HIDE DEF pieces, n
  <2>3. DOMAIN pieces = 1 .. Len(pieces) /\ pieces \in Seq(Text) /\ Len(pieces) \in Nat
    BY <2>1 DEF pieces
  <2> QED
    BY <1>0, <2>2, <2>3
<1>4. /\ sep \in Text /\ Quiet(sep) /\ sep # <<>> /\ sep[1] = "," /\ sep[Len(sep)] = " "
      /\ Tok(sep) = <<c>> /\ Comma(c) /\ c \in Tokens
  BY PlainQuiet, SymbolsAre, MinusIs, TokIs, Zenon
<1> HIDE DEF texts, sep, pieces, n
<1>5. PICK flat : Flattens(flat, pieces, Letters) /\ FlattenSeq(pieces) = flat[n]
  BY <1>0, <1>3, FlattenSteps
<1>6. /\ flat \in [0 .. n -> Text] /\ flat[0] = <<>>
      /\ \A i \in 1 .. n : flat[i] = flat[i - 1] \o pieces[i]
  BY <1>0, <1>3, <1>5 DEF Flattens
<1> HIDE DEF c
<1> DEFINE Good(i) == Quiet(flat[i]) /\ ReadList(Tok(flat[i]), SubSeq(args, 1, i))
           P == {i \in 0 .. n : Good(i)}
<1>7. Good(0)
  <2>1. Quiet(<<>>)
    <3>1. \A i \in 1 .. Len(<<>>) - 1 : FALSE
      OBVIOUS
    <3> QED
      BY <3>1 DEF Quiet
  <2>2. Tok(<<>>) = <<>>
    <3>1. <<>> \in Seq(Letters) /\ Range(<<>>) \cap Tokens = {}
      BY DEF Range
    <3> QED
      BY <3>1, OnlyAllOrNone DEF Tok
  <2>3. SubSeq(args, 1, 0) = <<>>
    OBVIOUS
  <2> QED
    BY <1>6, <2>1, <2>2, <2>3, NothingIsRead, Zenon
<1>8. ASSUME NEW i \in 1 .. n, Good(i - 1) PROVE Good(i)
  <2> DEFINE t == texts[i]
             e == args[i]
             f == flat[i - 1]
             list == SubSeq(args, 1, i - 1)
  <2>0. i - 1 \in 0 .. n /\ f \in Text
    BY <1>0, <1>6
  <2>1. /\ e \in Expr /\ t \in Text /\ Quiet(t) /\ ReadBack(Tok(t), e)
        /\ pieces[i] = IF i = 1 THEN t ELSE sep \o t
    BY <1>2
  <2>2. SubSeq(args, 1, i) = Append(list, e)
    BY <1>0
  <2>3. flat[i] = f \o pieces[i]
    BY <1>6
  <2>4. Quiet(f) /\ ReadList(Tok(f), list)
    BY <1>8
  <2> HIDE DEF t, f, list, e
  <2>5. CASE i = 1
    <3>1. f = <<>> /\ list = <<>>
      BY <1>6, <2>5 DEF f, list
    <3>2. flat[i] = t
      <4>1. t \in Seq(Letters) /\ flat[i] = <<>> \o t
        BY <1>0, <2>1, <2>3, <2>5, <3>1
      <4> QED
        BY <4>1
    <3>3. SubSeq(args, 1, i) = <<e>>
      BY <2>2, <3>1
    <3>4. ReadList(Tok(t), <<e>>)
      BY <2>1, FirstIsRead, Zenon
    <3> QED
      BY <2>1, <3>2, <3>3, <3>4, Zenon
  <2>6. CASE i # 1
    <3>1. /\ sep \o t \in Text /\ Quiet(sep \o t) /\ Tok(sep \o t) = <<c>> \o Tok(t)
          /\ sep \o t # <<>> /\ (sep \o t)[1] = ","
      <4>1. Apart(sep, t)
        BY <1>4, MinusIs, Zenon DEF Apart
      <4>2. sep \o t \in Text /\ Quiet(sep \o t)
        BY <1>4, <2>1, <4>1, QuietJoin, Zenon
      <4>3. Tok(sep \o t) = <<c>> \o Tok(t)
        BY <1>4, <2>1, TokIs, Zenon
      <4>4. sep \o t # <<>> /\ (sep \o t)[1] = ","
        BY <1>4, <2>1, EndsIn, Zenon
      <4> QED
        BY <4>2, <4>3, <4>4, Zenon
    <3> DEFINE u == sep \o t
    <3>2. flat[i] = f \o u
      BY <2>1, <2>3, <2>6
    <3> HIDE DEF u
    <3>3. u \in Text /\ Quiet(u) /\ Tok(u) = <<c>> \o Tok(t) /\ u # <<>> /\ u[1] = ","
      BY <3>1, Zenon DEF u
    <3>4. Apart(f, u)
      BY <3>3, MinusIs, Zenon DEF Apart
    <3>5. Quiet(f \o u) /\ Tok(f \o u) = Tok(f) \o Tok(u)
      BY <2>0, <2>4, <3>3, <3>4, QuietJoin, TokIs, Zenon
    <3>6. Tok(f) \in Seq(Tokens) /\ Tok(t) \in Seq(Tokens)
      BY <2>0, <2>1, TokIs, Zenon
    <3>7. \A l, r \in Seq(Tokens) : \A x \in Tokens : Joins(l \o (<<x>> \o r), l, x, r)
      <4> SUFFICES ASSUME NEW l \in Seq(Tokens), NEW r \in Seq(Tokens), NEW x \in Tokens
                   PROVE  Joins(l \o (<<x>> \o r), l, x, r)
        OBVIOUS
      <4> DEFINE y == <<x>> \o r
                 m == l \o y
      <4>1. y \in Seq(Tokens) /\ Len(y) = 1 + Len(r) /\ y[1] = x /\ \A k \in 1 .. Len(r) : y[1 + k] = r[k]
        OBVIOUS
      <4> HIDE DEF y
      <4>2. /\ m \in Seq(Tokens) /\ Len(m) = Len(l) + Len(y)
            /\ \A k \in 1 .. Len(l) : m[k] = l[k]
            /\ \A k \in 1 .. Len(y) : m[Len(l) + k] = y[k]
        <5>1. \A s, w \in Seq(Tokens) :
                /\ s \o w \in Seq(Tokens) /\ Len(s \o w) = Len(s) + Len(w)
                /\ \A k \in 1 .. Len(s) : (s \o w)[k] = s[k]
                /\ \A k \in 1 .. Len(w) : (s \o w)[Len(s) + k] = w[k]
          BY JoinIs
        <5> QED
          BY <4>1, <5>1, Zenon
      <4> HIDE DEF m
      <4>3. Len(l) \in Nat /\ Len(r) \in Nat
        OBVIOUS
      <4>4. Len(m) = Len(l) + 1 + Len(r) /\ m[Len(l) + 1] = x
        BY <4>1, <4>2, <4>3
      <4>5. ASSUME NEW k \in 1 .. Len(r) PROVE m[Len(l) + 1 + k] = r[k]
        <5>1. 1 + k \in 1 .. Len(y) /\ Len(l) + (1 + k) = Len(l) + 1 + k
          BY <4>1, <4>3
        <5>2. m[Len(l) + (1 + k)] = y[1 + k]
          BY <4>2, <5>1
        <5> QED
          BY <4>1, <5>1, <5>2
      <4>6. Joins(m, l, x, r)
        BY <4>2, <4>4, <4>5, Zenon DEF Joins
      <4> QED
        BY <4>6, Zenon DEF m, y
    <3>8. Joins(Tok(f \o u), Tok(f), c, Tok(t))
      <4>1. Joins(Tok(f) \o (<<c>> \o Tok(t)), Tok(f), c, Tok(t))
        BY <1>4, <3>6, <3>7, Zenon
      <4> QED
        BY <3>3, <3>5, <4>1, Zenon
    <3>9. ReadList(Tok(f \o u), Append(list, e))
      BY <1>4, <2>1, <2>4, <3>8, NextIsRead, Zenon
    <3> QED
      BY <2>2, <3>2, <3>5, <3>9, Zenon
  <2> QED
    BY <2>5, <2>6
<1>9. n \in P
  <2>1. 0 \in P
    BY <1>0, <1>7
  <2>2. ASSUME NEW i \in 1 .. n, i - 1 \in P PROVE i \in P
    <3>1. Good(i)
      BY <1>8, <2>2
    <3> HIDE DEF Good
    <3> QED
      BY <3>1
  <2>3. n \in 0 .. n
    BY <1>0
  <2> HIDE DEF P
  <2>4. 0 .. n \subseteq P
    BY <1>0, <2>1, <2>2, UpTo
  <2> QED
    BY <2>3, <2>4
<1>10. Quiet(flat[n]) /\ ReadList(Tok(flat[n]), SubSeq(args, 1, n))
  BY <1>9
<1>11. SubSeq(args, 1, n) = args
  BY <1>0 DEF n
<1>12. flat[n] \in Text
  BY <1>0, <1>6
<1> QED
  BY <1>5, <1>10, <1>11, <1>12, Zenon DEF pieces, texts

\* Of a call.
LEMMA CallFaithful ==
  ASSUME NEW e \in Expr, e.kind = "call", \A k \in Parts(e) : Faithful(k)
  PROVE  Faithful(e)
<1> DEFINE texts == [i \in DOMAIN e.args |-> EmitExpr[e.args[i]]]
           flat == FlattenSeq(Pieces(texts))
           o == "("
           c == ")"
           name == e.name
<1>0. Looks(e, Expr) /\ EmitExpr[e] = EmitBody(EmitExpr, e)
  BY ExprLooks, EmitExprIs
<1>1. name \in Idents /\ e.args \in Seq(Expr) /\ e = Call(name, e.args)
  BY <1>0 DEF Looks
<1>2. \A i \in DOMAIN e.args : Faithful(e.args[i])
  <2>1. \A i \in DOMAIN e.args : e.args[i] \in Parts(e)
    BY DEF Parts, Range
  <2> QED
    BY <2>1
<1>3. flat \in Text /\ Quiet(flat) /\ ReadList(Tok(flat), e.args)
  BY <1>1, <1>2, ArgsFaithful, Zenon
<1>4. EmitExpr[e] = (<<name, o>> \o flat) \o <<c>>
  BY <1>0, Zenon DEF EmitBody, EmitCall, Pieces
<1>5. name \in Tokens /\ name \in Letters /\ ~Minus(name)
  BY <1>1, MarksAre, SymbolsAre, MinusIs, Zenon
<1>6. o = "(" /\ c = ")" /\ o \in Tokens /\ c \in Tokens /\ o \in Letters /\ c \in Letters /\ ~Minus(o) /\ ~Minus(c)
  BY MinusIs, SymbolsAre, Zenon
<1> HIDE DEF o, c, flat, texts
<1> DEFINE a == <<name, o>>
           b == <<c>>
<1>7. /\ a \in Text /\ Quiet(a) /\ a # <<>> /\ a[1] = name /\ a[Len(a)] = o /\ Tok(a) = <<name, o>>
  <2>1. Tok(a) = <<name, o>>
    BY <1>5, <1>6, TokIs, Zenon
  <2>2. a \in Text /\ Quiet(a) /\ a # <<>> /\ a[1] = name /\ a[Len(a)] = o
    <3> HIDE DEF name
    <3> QED
      BY <1>5, <1>6, PlainQuiet, Zenon
  <2> QED
    BY <2>1, <2>2, Zenon
<1>8. b \in Text /\ Quiet(b) /\ b # <<>> /\ b[1] = c /\ Tok(b) = <<c>>
  BY <1>6, PlainQuiet, TokIs, Zenon
<1> HIDE DEF a, b
<1>9. /\ a \o flat \in Text /\ Quiet(a \o flat) /\ Tok(a \o flat) = <<name, o>> \o Tok(flat)
      /\ a \o flat # <<>> /\ (a \o flat)[1] = name
  <2>1. Apart(a, flat)
    BY <1>6, <1>7, Zenon DEF Apart
  <2>2. a \o flat \in Text /\ Quiet(a \o flat)
    BY <1>3, <1>7, <2>1, QuietJoin, Zenon
  <2>3. Tok(a \o flat) = <<name, o>> \o Tok(flat)
    BY <1>3, <1>7, TokIs, Zenon
  <2>4. a \o flat # <<>> /\ (a \o flat)[1] = name
    BY <1>3, <1>7, EndsIn, Zenon
  <2> QED
    BY <2>2, <2>3, <2>4, Zenon
<1> DEFINE u == a \o flat
<1> HIDE DEF u
<1>10. /\ Quiet(u \o b) /\ u \o b # <<>> /\ (u \o b)[1] = name
       /\ Tok(u \o b) = (<<name, o>> \o Tok(flat)) \o <<c>>
  <2>0. u \in Text /\ Quiet(u) /\ Tok(u) = <<name, o>> \o Tok(flat) /\ u # <<>> /\ u[1] = name
    BY <1>9, Zenon DEF u
  <2>1. Apart(u, b)
    BY <1>6, <1>8, Zenon DEF Apart
  <2>2. Quiet(u \o b)
    BY <1>8, <2>0, <2>1, QuietJoin, Zenon
  <2>3. Tok(u \o b) = (<<name, o>> \o Tok(flat)) \o <<c>>
    BY <1>8, <2>0, TokIs, Zenon
  <2>4. u \o b # <<>> /\ (u \o b)[1] = name
    BY <1>8, <2>0, EndsIn, Zenon
  <2> QED
    BY <2>2, <2>3, <2>4, Zenon
<1>11. EmitExpr[e] = u \o b
  BY <1>4, Zenon DEF u, a, b
<1> DEFINE j == Tok(flat)
           v == (<<o>> \o j) \o <<c>>
<1>12. j \in Seq(Tokens)
  BY <1>3, TokIs, Zenon
<1> HIDE DEF j
<1>13. Wraps(v, j)
  <2> DEFINE x == <<o>> \o j
  <2>1. /\ x \in Seq(Tokens) /\ Len(x) = Len(j) + 1 /\ x[1] = o
        /\ \A i \in 1 .. Len(j) : x[1 + i] = j[i]
    BY <1>6, <1>12
  <2>2. v = x \o <<c>>
    OBVIOUS
  <2> HIDE DEF v, x
  <2>3. /\ v \in Seq(Tokens) /\ Len(v) = Len(x) + 1 /\ v[Len(x) + 1] = c
        /\ \A i \in 1 .. Len(x) : v[i] = x[i]
    BY <1>6, <2>1, <2>2
  <2>4. Len(j) \in Nat /\ 1 \in 1 .. Len(x) /\ \A i \in 1 .. Len(j) : 1 + i \in 1 .. Len(x)
    BY <1>12, <2>1
  <2>5. Len(v) = Len(j) + 2 /\ v[1] = o /\ v[Len(j) + 2] = c /\ \A i \in 1 .. Len(j) : v[1 + i] = j[i]
    <3>1. Len(x) + 1 = Len(j) + 2
      BY <2>1, <2>4
    <3> QED
      BY <2>1, <2>3, <2>4, <3>1
  <2> QED
    BY <1>6, <2>3, <2>5, Zenon DEF Wraps
<1>14. (<<name, o>> \o j) \o <<c>> = <<name>> \o v
  <2> DEFINE x == <<name>>
             y == <<o>>
             z == <<c>>
  <2>1. <<name, o>> = x \o y
    BY TwoAndThree
  <2>2. \A s, t, w \in Seq(Tokens) : (s \o t) \o w = s \o (t \o w)
    BY TokensRegroup, Zenon
  <2>3. x \in Seq(Tokens) /\ y \in Seq(Tokens) /\ z \in Seq(Tokens)
    BY <1>5, <1>6
  <2> HIDE DEF x, y, z
  <2>4. y \o j \in Seq(Tokens)
    BY <1>12, <2>3
  <2>5. (x \o y) \o j = x \o (y \o j)
    BY <1>12, <2>2, <2>3, Zenon
  <2>6. (x \o (y \o j)) \o z = x \o ((y \o j) \o z)
    BY <2>2, <2>3, <2>4, Zenon
  <2>7. (<<name, o>> \o j) \o z = x \o ((y \o j) \o z)
    BY <2>1, <2>5, <2>6, Zenon
  <2> QED
    BY <2>7, Zenon DEF x, y, z
<1> HIDE DEF v
<1>15. ReadBack(<<name>> \o v, Call(name, e.args))
  BY <1>1, <1>3, <1>13, CallIsRead, Zenon DEF j
<1>16. ReadBack(Tok(u \o b), e)
  BY <1>1, <1>10, <1>14, <1>15, Zenon DEF j
<1>17. ~Minus((u \o b)[1])
  BY <1>5, <1>10, Zenon
<1> QED
  BY <1>10, <1>11, <1>16, <1>17, Zenon DEF Faithful

\* No minus is below a minus in it.
NoTwoMinus(e) == \A x \in Subexpressions(e) : ~TwoMinus(x)

\* By induction over the expression.
LEMMA AllFaithful == \A e \in Expr : NoTwoMinus(e) => Faithful(e)
<1> DEFINE P == {e \in Expr : NoTwoMinus(e) => Faithful(e)}
<1>1. ASSUME NEW e \in Expr, Parts(e) \subseteq P PROVE e \in P
  <2> SUFFICES ASSUME NoTwoMinus(e) PROVE Faithful(e)
    OBVIOUS
  <2>1. Looks(e, Expr) /\ Parts(e) \subseteq Expr
    BY ExprLooks
  <2>2. ~TwoMinus(e) /\ \A k \in Parts(e) : NoTwoMinus(k)
    <3>1. Subexpressions(e) = {e} \cup UNION {Subexpressions(y) : y \in Parts(e)}
      BY SubexpressionsAre
    <3>2. e \in Subexpressions(e) /\ \A k \in Parts(e) : Subexpressions(k) \subseteq Subexpressions(e)
      BY <3>1
    <3> QED
      BY <3>2 DEF NoTwoMinus
  <2>3. \A k \in Parts(e) : Faithful(k)
    BY <1>1, <2>2
  <2>4. CASE e.kind \in {"int", "var"}
    BY <2>4, LeafFaithful
  <2>5. CASE e.kind = "unary"
    <3>1. e.rhs \in Parts(e)
      BY <2>5 DEF Parts
    <3> QED
      BY <2>2, <2>3, <2>5, <3>1, SignFaithful
  <2>6. CASE e.kind = "binary"
    <3>1. e.lhs \in Parts(e) /\ e.rhs \in Parts(e)
      BY <2>6 DEF Parts
    <3> QED
      BY <2>3, <2>6, <3>1, InfixFaithful
  <2>7. CASE e.kind = "call"
    BY <2>3, <2>7, CallFaithful
  <2> QED
    BY <2>1, <2>4, <2>5, <2>6, <2>7 DEF Looks
<1> HIDE DEF P
<1>2. Expr \subseteq P
  BY <1>1, ExprInduction
<1> QED
  BY <1>2 DEF P

\* What is emitted for an expression is read as that expression.
LEMMA TreeKept ==
  ASSUME NEW e \in Expr, NoTwoMinus(e)
  PROVE  EmitExpr[e] \in Text /\ CTree[EmitExpr[e]] = e
<1>1. EmitExpr[e] \in Text
  BY EmitExprIs
<1>2. Faithful(e)
  BY AllFaithful
<1>3. CTokens[EmitExpr[e]] = Tok(EmitExpr[e])
  BY <1>1, <1>2, CTokensAre, Zenon DEF Faithful, Tok
<1>4. TreeOf(CTokens[EmitExpr[e]]) = e
  BY <1>2, <1>3, Zenon DEF Faithful, ReadBack, TreeOf
<1> QED
  BY <1>1, <1>4 DEF CTree

-----------------------------------------------------------------------------
(* The statements that are emitted.                                        *)

\* A statement with f of its expressions and h of its lists.
EachOf(f, h, s) ==
  IF s.kind = "while"   THEN [s EXCEPT !.cond = f[@], !.body = h[@]]
  ELSE IF s.kind = "if" THEN [s EXCEPT !.cond = f[@], !.body = h[@], !.else = h[@]]
  ELSE IF s.kind = "let" THEN [s EXCEPT !.init = f[@]]
  ELSE [s EXCEPT !.value = f[@]]

EachOver(f, h, list) == [i \in DOMAIN list |-> EachOf(f, h, list[i])]

\* What that is, kind by kind.
LEMMA EachOfIs ==
  ASSUME NEW f, NEW h
  PROVE  /\ \A name, type, init : EachOf(f, h, Let(name, type, init)) = Let(name, type, f[init])
         /\ \A name, value : EachOf(f, h, Assign(name, value)) = Assign(name, f[value])
         /\ \A value : EachOf(f, h, Return(value)) = Return(f[value])
         /\ \A call : EachOf(f, h, CallStmt(call)) = CallStmt(f[call])
         /\ \A cond, body : EachOf(f, h, While(cond, body)) = While(f[cond], h[body])
         /\ \A cond, body, hasElse, else :
              EachOf(f, h, If(cond, body, hasElse, else)) = If(f[cond], h[body], hasElse, h[else])
<1>1. ASSUME NEW name, NEW type, NEW init
      PROVE  EachOf(f, h, Let(name, type, init)) = Let(name, type, f[init])
  BY DEF EachOf, Let
<1>2. ASSUME NEW name, NEW value PROVE EachOf(f, h, Assign(name, value)) = Assign(name, f[value])
  BY DEF EachOf, Assign
<1>3. ASSUME NEW value PROVE EachOf(f, h, Return(value)) = Return(f[value])
  BY DEF EachOf, Return
<1>4. ASSUME NEW call PROVE EachOf(f, h, CallStmt(call)) = CallStmt(f[call])
  BY DEF EachOf, CallStmt
<1>5. ASSUME NEW cond, NEW body PROVE EachOf(f, h, While(cond, body)) = While(f[cond], h[body])
  BY DEF EachOf, While
<1>6. ASSUME NEW cond, NEW body, NEW hasElse, NEW else
      PROVE  EachOf(f, h, If(cond, body, hasElse, else)) = If(f[cond], h[body], hasElse, h[else])
  BY DEF EachOf, If
<1> QED
  BY <1>1, <1>2, <1>3, <1>4, <1>5, <1>6, Zenon

\* It looks like a statement again.
LEMMA EachLooks ==
  ASSUME NEW f, NEW h, NEW E, NEW G, NEW blocks, NEW more, NEW s,
         LooksStmt(s, E, blocks), \A x \in E : f[x] \in G, \A b \in blocks : h[b] \in more,
         h[<<>>] = <<>>
  PROVE  LooksStmt(EachOf(f, h, s), G, more)
<1>e1. \A name, type, init : EachOf(f, h, Let(name, type, init)) = Let(name, type, f[init])
  BY EachOfIs
<1>e2. \A name, value : EachOf(f, h, Assign(name, value)) = Assign(name, f[value])
  BY EachOfIs
<1>e3. \A value : EachOf(f, h, Return(value)) = Return(f[value])
  BY EachOfIs
<1>e4. \A call : EachOf(f, h, CallStmt(call)) = CallStmt(f[call])
  BY EachOfIs
<1>e5. \A cond, body : EachOf(f, h, While(cond, body)) = While(f[cond], h[body])
  BY EachOfIs
<1>e6. \A cond, body, hasElse, else :
         EachOf(f, h, If(cond, body, hasElse, else)) = If(f[cond], h[body], hasElse, h[else])
  BY EachOfIs
<1> DEFINE t == EachOf(f, h, s)
<1>1. CASE s.kind = "let" /\ s.name \in Idents /\ s.type \in Types /\ s.init \in E
             /\ s = Let(s.name, s.type, s.init)
  <2> DEFINE u == Let(s.name, s.type, f[s.init])
  <2>1. t = u
    <3> DEFINE v == Let(s.name, s.type, s.init)
    <3>1. EachOf(f, h, v) = u
      BY <1>e1, Zenon
    <3>2. s = v
      BY <1>1, Zenon
    <3> HIDE DEF v, u
    <3> QED
      BY <3>1, <3>2, Zenon
  <2>2. u.kind = "let" /\ u.name = s.name /\ u.type = s.type /\ u.init = f[s.init] /\ f[s.init] \in G
    BY <1>1 DEF Let
  <2>3. u = Let(u.name, u.type, u.init)
    BY <2>2, Zenon
  <2> HIDE DEF u, t
  <2> QED
    BY <1>1, <2>1, <2>2, <2>3, Zenon DEF LooksStmt, t
<1>2. CASE s.kind = "assign" /\ s.name \in Idents /\ s.value \in E /\ s = Assign(s.name, s.value)
  <2> DEFINE u == Assign(s.name, f[s.value])
  <2>1. t = u
    <3> DEFINE v == Assign(s.name, s.value)
    <3>1. EachOf(f, h, v) = u
      BY <1>e2, Zenon
    <3>2. s = v
      BY <1>2, Zenon
    <3> HIDE DEF v, u
    <3> QED
      BY <3>1, <3>2, Zenon
  <2>2. u.kind = "assign" /\ u.name = s.name /\ u.value = f[s.value] /\ f[s.value] \in G
    BY <1>2 DEF Assign
  <2>3. u = Assign(u.name, u.value)
    BY <2>2, Zenon
  <2> HIDE DEF u, t
  <2> QED
    BY <1>2, <2>1, <2>2, <2>3, Zenon DEF LooksStmt, t
<1>3. CASE s.kind = "return" /\ s.value \in E /\ s = Return(s.value)
  <2> DEFINE u == Return(f[s.value])
  <2>1. t = u
    <3> DEFINE v == Return(s.value)
    <3>1. EachOf(f, h, v) = u
      BY <1>e3, Zenon
    <3>2. s = v
      BY <1>3, Zenon
    <3> HIDE DEF v, u
    <3> QED
      BY <3>1, <3>2, Zenon
  <2>2. u.kind = "return" /\ u.value = f[s.value] /\ f[s.value] \in G
    BY <1>3 DEF Return
  <2>3. u = Return(u.value)
    BY <2>2, Zenon
  <2> HIDE DEF u, t
  <2> QED
    BY <1>3, <2>1, <2>2, <2>3, Zenon DEF LooksStmt, t
<1>4. CASE s.kind = "expr" /\ s.value \in E /\ s = CallStmt(s.value)
  <2> DEFINE u == CallStmt(f[s.value])
  <2>1. t = u
    <3> DEFINE v == CallStmt(s.value)
    <3>1. EachOf(f, h, v) = u
      BY <1>e4, Zenon
    <3>2. s = v
      BY <1>4, Zenon
    <3> HIDE DEF v, u
    <3> QED
      BY <3>1, <3>2, Zenon
  <2>2. u.kind = "expr" /\ u.value = f[s.value] /\ f[s.value] \in G
    BY <1>4 DEF CallStmt
  <2>3. u = CallStmt(u.value)
    BY <2>2, Zenon
  <2> HIDE DEF u, t
  <2> QED
    BY <1>4, <2>1, <2>2, <2>3, Zenon DEF LooksStmt, t
<1>5. CASE s.kind = "while" /\ s.cond \in E /\ s.body \in blocks /\ s = While(s.cond, s.body)
  <2> DEFINE u == While(f[s.cond], h[s.body])
  <2>1. t = u
    <3> DEFINE v == While(s.cond, s.body)
    <3>1. EachOf(f, h, v) = u
      BY <1>e5, Zenon
    <3>2. s = v
      BY <1>5, Zenon
    <3> HIDE DEF v, u
    <3> QED
      BY <3>1, <3>2, Zenon
  <2>2. u.kind = "while" /\ u.cond = f[s.cond] /\ u.body = h[s.body]
          /\ f[s.cond] \in G /\ h[s.body] \in more
    BY <1>5 DEF While
  <2>3. u = While(u.cond, u.body)
    BY <2>2, Zenon
  <2> HIDE DEF u, t
  <2> QED
    BY <2>1, <2>2, <2>3, Zenon DEF LooksStmt, t
<1>6. CASE s.kind = "if" /\ s.cond \in E /\ s.body \in blocks /\ s.hasElse \in BOOLEAN
             /\ s.else \in blocks /\ (~s.hasElse => s.else = <<>>)
             /\ s = If(s.cond, s.body, s.hasElse, s.else)
  <2> DEFINE u == If(f[s.cond], h[s.body], s.hasElse, h[s.else])
  <2>1. t = u
    <3> DEFINE v == If(s.cond, s.body, s.hasElse, s.else)
    <3>1. EachOf(f, h, v) = u
      BY <1>e6
    <3>2. s = v
      BY <1>6, Zenon
    <3> HIDE DEF v, u
    <3> QED
      BY <3>1, <3>2, Zenon
  <2>2. u.kind = "if" /\ u.cond = f[s.cond] /\ u.body = h[s.body] /\ u.hasElse = s.hasElse
          /\ u.else = h[s.else]
    BY DEF If
  <2>4. f[s.cond] \in G /\ h[s.body] \in more /\ h[s.else] \in more /\ (~s.hasElse => h[s.else] = <<>>)
    BY <1>6, Zenon
  <2>3. u = If(u.cond, u.body, u.hasElse, u.else)
    BY <2>2, Zenon
  <2> HIDE DEF u, t
  <2> QED
    BY <1>6, <2>1, <2>2, <2>3, <2>4, Zenon DEF LooksStmt, t
<1> QED
  BY <1>1, <1>2, <1>3, <1>4, <1>5, <1>6, Zenon DEF LooksStmt

\* EachBy as a function of the list.
EachFn(f, E) == [list \in Block(E) |-> EachBy(f, E, list)]

\* EachBy is well defined, and makes lists of statements of such lists.
LEMMA EachIs ==
  ASSUME NEW f, NEW E, E # {}, NEW G, \A x \in E : f[x] \in G
  PROVE  \A list \in Block(E) : /\ EachBy(f, E, list) \in Block(G)
                                /\ EachBy(f, E, list) = EachOver(f, EachFn(f, E), list)
<1> DEFINE D == Block(E)
           A == Block(G)
           B(h, x) == EachOver(f, h, x)
           C(h, x) == IF B(h, x) \in A THEN B(h, x) ELSE <<>>
           F == [x \in D |-> [h \in [D -> A] |-> C(h, x)]]
           Is(h) == h = [block \in Block(E) |->
        [i \in DOMAIN block |->
           LET s == block[i] IN
           IF s.kind = "while"   THEN [s EXCEPT !.cond = f[@], !.body = h[@]]
           ELSE IF s.kind = "if" THEN [s EXCEPT !.cond = f[@], !.body = h[@], !.else = h[@]]
           ELSE IF s.kind = "let" THEN [s EXCEPT !.init = f[@]]
           ELSE [s EXCEPT !.value = f[@]]]]
           T == CHOOSE h : Is(h)
<1>a. ASSUME NEW h PROVE Is(h) <=> h = [x \in D |-> B(h, x)]
  BY Zenon DEF EachOver, EachOf
<1>b. \A list : EachBy(f, E, list) = T[list]
  BY DEF EachBy
<1>0. G # {} /\ <<>> \in A /\ <<>> \in D
  BY DEF Block
<1> HIDE DEF Is, T
<1>2. ASSUME NEW x \in D, NEW g, NEW h, \A i \in DOMAIN x : \A b \in Inner(x[i]) : g[b] = h[b]
      PROVE  B(g, x) = B(h, x)
  <2>1. ASSUME NEW i \in DOMAIN x PROVE EachOf(f, g, x[i]) = EachOf(f, h, x[i])
    <3>1. x[i].kind = "while" => g[x[i].body] = h[x[i].body]
      BY <1>2 DEF Inner
    <3>2. x[i].kind = "if" => g[x[i].body] = h[x[i].body] /\ g[x[i].else] = h[x[i].else]
      BY <1>2 DEF Inner
    <3> QED
      BY <3>1, <3>2, Zenon DEF EachOf
  <2> QED
    BY <2>1, Zenon DEF EachOver
<1> HIDE DEF B, A, D
<1>1. ASSUME NEW x \in D, NEW h \in [D -> A] PROVE C(h, x) \in A
  BY <1>0
<1>3. PICK h : Obeys(h, D, A, F)
  <2>1. F \in [D -> [[D -> A] -> A]]
    <3> HIDE DEF C
    <3> QED
      BY <1>1
  <2>2. \A e \in D : \A g, h \in [D -> A] :
           (\A i \in DOMAIN e : \A b \in Inner(e[i]) : g[b] = h[b]) => F[e][g] = F[e][h]
    <3>1. ASSUME NEW e \in D, NEW g \in [D -> A], NEW h \in [D -> A],
                 \A i \in DOMAIN e : \A b \in Inner(e[i]) : g[b] = h[b]
          PROVE  C(g, e) = C(h, e)
      BY <1>2, <3>1, Zenon
    <3> HIDE DEF C
    <3> QED
      BY <3>1
  <2> HIDE DEF F
  <2> QED
    BY <1>0, <2>1, <2>2, BlockRecursion DEF D
<1>4. \A x \in D : h[x] = C(h, x)
  <2> HIDE DEF C
  <2> QED
    BY <1>3 DEF Obeys
<1>5. h \in [D -> A]
  BY <1>3 DEF Obeys
<1>h. h[<<>>] = <<>>
  <2>1. B(h, <<>>) = <<>>
    BY DEF B, EachOver
  <2> QED
    BY <1>0, <1>4, <2>1
<1>6. PICK S : LevelsOf(E, S) /\ Stmts(E) = S[Height]
  BY StmtsAre
<1>7. PICK R : LevelsOf(G, R) /\ Stmts(G) = R[Height]
  BY <1>0, StmtsAre
<1>8. Height \in Nat
  BY TreesAssumption
<1> DEFINE Good(n) == \A x \in Seq(S[n]) : B(h, x) \in Seq(R[n])
           P == {n \in 0 .. Height : Good(n)}
<1>9. ASSUME NEW n \in 0 .. Height PROVE Seq(S[n]) \subseteq D /\ Seq(R[n]) \subseteq A
  <2>1. S[n] \subseteq S[Height] /\ R[n] \subseteq R[Height]
    BY <1>6, <1>7, <1>8, LevelsLow
  <2> QED
    BY <1>6, <1>7, <2>1, SeqGrows DEF D, A, Block
<1>10. ASSUME NEW n \in 0 .. Height, \A b \in Seq(Lower(S, n)) : h[b] \in Seq(Lower(R, n))
       PROVE  Good(n)
  <2>1. n \in Nat /\ S[n] = StmtNodes(E, Lower(S, n)) /\ R[n] = StmtNodes(G, Lower(R, n))
    BY <1>6, <1>7, <1>8 DEF LevelsOf
  <2>2. ASSUME NEW s \in S[n] PROVE EachOf(f, h, s) \in R[n]
    <3>1. LooksStmt(s, E, Seq(Lower(S, n)))
      BY <2>1, NodesLookStmt
    <3>2. LooksStmt(EachOf(f, h, s), G, Seq(Lower(R, n)))
      BY <1>10, <1>h, <3>1, EachLooks
    <3> QED
      BY <2>1, <3>2, LooksOfStmtNodes
  <2>3. ASSUME NEW x \in Seq(S[n]) PROVE B(h, x) \in Seq(R[n])
    <3>1. \A i \in 1 .. Len(x) : EachOf(f, h, x[i]) \in R[n]
      BY <2>2
    <3>2. B(h, x) = [i \in 1 .. Len(x) |-> EachOf(f, h, x[i])] /\ Len(x) \in Nat
      BY DEF B, EachOver
    <3>3. [i \in 1 .. Len(x) |-> EachOf(f, h, x[i])] \in Seq(R[n])
      BY <3>1, <3>2
    <3> QED
      BY <3>2, <3>3, Zenon
  <2> QED
    BY <2>3
<1>11. 0 \in P
  <2>1. Lower(S, 0) = {} /\ Lower(R, 0) = {}
    BY DEF Lower
  <2>2. \A b \in Seq({}) : b = <<>>
    OBVIOUS
  <2>3. <<>> \in Seq({})
    OBVIOUS
  <2>4. \A b \in Seq(Lower(S, 0)) : h[b] \in Seq(Lower(R, 0))
    BY <1>h, <2>1, <2>2, <2>3, Zenon
  <2>5. 0 \in 0 .. Height
    BY <1>8
  <2>6. Good(0)
    BY <1>10, <2>4, <2>5, Zenon
  <2> QED
    BY <2>5, <2>6
<1>12. ASSUME NEW n \in 1 .. Height, n - 1 \in P PROVE n \in P
  <2>1. n \in 0 .. Height /\ n - 1 \in 0 .. Height /\ Lower(S, n) = S[n - 1] /\ Lower(R, n) = R[n - 1]
    BY <1>8 DEF Lower
  <2>2. ASSUME NEW b \in Seq(S[n - 1]) PROVE h[b] \in Seq(R[n - 1])
    <3>1. B(h, b) \in Seq(R[n - 1])
      BY <1>12
    <3>2. b \in D /\ B(h, b) \in A
      BY <1>9, <2>1, <3>1, Zenon
    <3>3. h[b] = B(h, b)
      BY <1>4, <3>2, Zenon
    <3> QED
      BY <3>1, <3>3
  <2> HIDE DEF Good
  <2>3. Good(n)
    BY <1>10, <2>1, <2>2, Zenon
  <2> QED
    BY <2>1, <2>3
<1>13. Good(Height)
  <2> HIDE DEF P, Good
  <2>1. 0 .. Height \subseteq P
    BY <1>8, <1>11, <1>12, UpTo
  <2>2. Height \in P
    BY <1>8, <2>1
  <2> QED
    BY <2>2 DEF P
<1>14. \A x \in D : B(h, x) \in A
  BY <1>6, <1>7, <1>13 DEF D, A, Block
<1>15. h = [x \in D |-> B(h, x)]
  <2>1. \A x \in D : h[x] = B(h, x)
    BY <1>4, <1>14, Zenon
  <2> QED
    BY <1>5, <2>1
<1>16. T = [x \in D |-> B(T, x)] 
  BY <1>15, <1>a, Zenon DEF T
<1>17. ASSUME NEW g, g = [x \in D |-> B(g, x)]
       PROVE  \A x \in D : g[x] = h[x]
  <2> DEFINE Q == {x \in D : g[x] = h[x]}
  <2>1. ASSUME NEW x \in D, \A i \in DOMAIN x : Inner(x[i]) \subseteq Q PROVE x \in Q
    <3>1. B(g, x) = B(h, x)
      BY <1>2, <2>1
    <3>2. g[x] = B(g, x) /\ h[x] = B(h, x)
      BY <1>15, <1>17, Zenon
    <3> QED
      BY <3>1, <3>2
  <2> HIDE DEF Q
  <2>2. D \subseteq Q
    BY <2>1, BlockInduction DEF D
  <2> QED
    BY <2>2 DEF Q
<1>18. \A x \in D : T[x] \in A /\ T[x] = B(T, x)
  BY <1>5, <1>16, <1>17, Zenon
<1>19. EachFn(f, E) = T
  <2>1. \A x \in D : EachFn(f, E)[x] = T[x]
    BY <1>b DEF EachFn, D
  <2>2. EachFn(f, E) = [x \in D |-> EachBy(f, E, x)]
    BY DEF EachFn, D
  <2>3. [x \in D |-> EachBy(f, E, x)] = [x \in D |-> T[x]]
    BY <1>b
  <2>4. T = [x \in D |-> T[x]]
    BY <1>16, Zenon
  <2> QED
    BY <2>2, <2>3, <2>4, Zenon
<1> QED
  BY <1>b, <1>18, <1>19 DEF A, D, B

\* A statement is given back if its expression and its lists are.
LEMMA GivenBack ==
  ASSUME NEW f, NEW g, NEW h, NEW k, NEW E, NEW blocks, NEW s, LooksStmt(s, E, blocks),
         g[f[Expression(s)]] = Expression(s),
         s.kind \in {"while", "if"} => k[h[s.body]] = s.body,
         s.kind = "if" => k[h[s.else]] = s.else
  PROVE  EachOf(g, k, EachOf(f, h, s)) = s
<1> DEFINE Twice(t) == EachOf(g, k, EachOf(f, h, t))
<1>a. \A name, type, init : EachOf(f, h, Let(name, type, init)) = Let(name, type, f[init])
  BY DEF EachOf, Let
<1>b. \A name, type, init : EachOf(g, k, Let(name, type, init)) = Let(name, type, g[init])
  BY DEF EachOf, Let
<1>1. CASE s.kind = "let" /\ s = Let(s.name, s.type, s.init)
  <2>1. \A name, type, init : Twice(Let(name, type, init)) = Let(name, type, g[f[init]])
    BY <1>a, <1>b
  <2>2. g[f[s.init]] = s.init
    BY <1>1 DEF Expression
  <2> HIDE DEF Twice
  <2>3. Twice(Let(s.name, s.type, s.init)) = Let(s.name, s.type, s.init)
    BY <2>1, <2>2
  <2> DEFINE v == Let(s.name, s.type, s.init)
  <2>4. Twice(v) = v /\ s = v
    BY <1>1, <2>3, Zenon
  <2> HIDE DEF v
  <2> QED
    BY <2>4, Zenon DEF Twice
<1>2. CASE s.kind = "assign" /\ s = Assign(s.name, s.value)
  <2>1. \A name, value : Twice(Assign(name, value)) = Assign(name, g[f[value]])
    <3>1. \A name, value : EachOf(f, h, Assign(name, value)) = Assign(name, f[value])
      BY EachOfIs
    <3>2. \A name, value : EachOf(g, k, Assign(name, value)) = Assign(name, g[value])
      BY EachOfIs
    <3> QED
      BY <3>1, <3>2
  <2>2. g[f[s.value]] = s.value
    BY <1>2 DEF Expression
  <2> HIDE DEF Twice
  <2>3. Twice(Assign(s.name, s.value)) = Assign(s.name, s.value)
    BY <2>1, <2>2
  <2> DEFINE v == Assign(s.name, s.value)
  <2>4. Twice(v) = v /\ s = v
    BY <1>2, <2>3, Zenon
  <2> HIDE DEF v
  <2> QED
    BY <2>4, Zenon DEF Twice
<1>3. CASE s.kind = "return" /\ s = Return(s.value)
  <2>1. \A value : Twice(Return(value)) = Return(g[f[value]])
    <3>1. \A value : EachOf(f, h, Return(value)) = Return(f[value])
      BY EachOfIs
    <3>2. \A value : EachOf(g, k, Return(value)) = Return(g[value])
      BY EachOfIs
    <3> QED
      BY <3>1, <3>2
  <2>2. g[f[s.value]] = s.value
    BY <1>3 DEF Expression
  <2> HIDE DEF Twice
  <2>3. Twice(Return(s.value)) = Return(s.value)
    BY <2>1, <2>2
  <2> DEFINE v == Return(s.value)
  <2>4. Twice(v) = v /\ s = v
    BY <1>3, <2>3, Zenon
  <2> HIDE DEF v
  <2> QED
    BY <2>4, Zenon DEF Twice
<1>4. CASE s.kind = "expr" /\ s = CallStmt(s.value)
  <2>1. \A value : Twice(CallStmt(value)) = CallStmt(g[f[value]])
    <3>1. \A value : EachOf(f, h, CallStmt(value)) = CallStmt(f[value])
      BY EachOfIs
    <3>2. \A value : EachOf(g, k, CallStmt(value)) = CallStmt(g[value])
      BY EachOfIs
    <3> QED
      BY <3>1, <3>2
  <2>2. g[f[s.value]] = s.value
    BY <1>4 DEF Expression
  <2> HIDE DEF Twice
  <2>3. Twice(CallStmt(s.value)) = CallStmt(s.value)
    BY <2>1, <2>2
  <2> DEFINE v == CallStmt(s.value)
  <2>4. Twice(v) = v /\ s = v
    BY <1>4, <2>3, Zenon
  <2> HIDE DEF v
  <2> QED
    BY <2>4, Zenon DEF Twice
<1>5. CASE s.kind = "while" /\ s = While(s.cond, s.body)
  <2>1. \A cond, body : Twice(While(cond, body)) = While(g[f[cond]], k[h[body]])
    <3>1. \A cond, body : EachOf(f, h, While(cond, body)) = While(f[cond], h[body])
      BY EachOfIs
    <3>2. \A cond, body : EachOf(g, k, While(cond, body)) = While(g[cond], k[body])
      BY EachOfIs
    <3> QED
      BY <3>1, <3>2
  <2>2. g[f[s.cond]] = s.cond /\ k[h[s.body]] = s.body
    BY <1>5 DEF Expression
  <2> HIDE DEF Twice
  <2>3. Twice(While(s.cond, s.body)) = While(s.cond, s.body)
    BY <2>1, <2>2
  <2> DEFINE v == While(s.cond, s.body)
  <2>4. Twice(v) = v /\ s = v
    BY <1>5, <2>3, Zenon
  <2> HIDE DEF v
  <2> QED
    BY <2>4, Zenon DEF Twice
<1>6. CASE s.kind = "if" /\ s = If(s.cond, s.body, s.hasElse, s.else)
  <2>1. \A cond, body, hasElse, else :
          Twice(If(cond, body, hasElse, else)) = If(g[f[cond]], k[h[body]], hasElse, k[h[else]])
    <3>1. \A cond, body, hasElse, else :
            EachOf(f, h, If(cond, body, hasElse, else)) = If(f[cond], h[body], hasElse, h[else])
      BY EachOfIs
    <3>2. \A cond, body, hasElse, else :
            EachOf(g, k, If(cond, body, hasElse, else)) = If(g[cond], k[body], hasElse, k[else])
      BY EachOfIs
    <3> QED
      BY <3>1, <3>2
  <2>2. g[f[s.cond]] = s.cond /\ k[h[s.body]] = s.body /\ k[h[s.else]] = s.else
    BY <1>6 DEF Expression
  <2> HIDE DEF Twice
  <2>3. Twice(If(s.cond, s.body, s.hasElse, s.else)) = If(s.cond, s.body, s.hasElse, s.else)
    BY <2>1, <2>2
  <2> DEFINE v == If(s.cond, s.body, s.hasElse, s.else)
  <2>4. Twice(v) = v /\ s = v
    BY <1>6, <2>3, Zenon
  <2> HIDE DEF v
  <2> QED
    BY <2>4, Zenon DEF Twice
<1> QED
  BY <1>1, <1>2, <1>3, <1>4, <1>5, <1>6, Zenon DEF LooksStmt

\* No expression in some places has a minus below a minus.
Plain(places) == \A x \in places : NoTwoMinus(Expression(x.s))

\* What is emitted for a list of statements is read as that list.
LEMMA BlockKept ==
  \A list \in Block(Expr) : \A outer \in Scope :
    Plain(Placed(list, outer)) => EachBy(CTree, Text, EachBy(EmitExpr, Expr, list)) = list
<1> DEFINE C == {CTree[t] : t \in Text}
           h == EachFn(EmitExpr, Expr)
           k == EachFn(CTree, Text)
           P == {list \in Block(Expr) : \A outer \in Scope : Plain(Placed(list, outer)) => k[h[list]] = list}
<1>1. Text # {} /\ Expr # {}
  <2>1. Text = Seq(Letters)
    BY LettersAre
  <2>2. <<>> \in Text
    BY <2>1
  <2> QED
    BY <2>2, SomeExpr
<1>2. /\ \A list \in Block(Expr) : /\ EachBy(EmitExpr, Expr, list) \in Block(Text)
                                   /\ EachBy(EmitExpr, Expr, list) = EachOver(EmitExpr, h, list)
  BY <1>1, EmitExprIs, EachIs
<1>3. \A list \in Block(Text) : EachBy(CTree, Text, list) = EachOver(CTree, k, list)
  <2>1. \A t \in Text : CTree[t] \in C
    OBVIOUS
  <2> HIDE DEF C, k
  <2> QED
    BY <1>1, <2>1, EachIs DEF k
<1>4. /\ \A list \in Block(Expr) : h[list] \in Block(Text) /\ h[list] = EachOver(EmitExpr, h, list)
      /\ \A list \in Block(Text) : k[list] = EachOver(CTree, k, list)
  BY <1>2, <1>3 DEF EachFn
<1>5. \A list \in Block(Expr) : EachBy(CTree, Text, EachBy(EmitExpr, Expr, list)) = k[h[list]]
  BY <1>2 DEF EachFn
<1> HIDE DEF h, k
<1>6. ASSUME NEW list \in Block(Expr), \A i \in DOMAIN list : Inner(list[i]) \subseteq P
      PROVE  list \in P
  <2> SUFFICES ASSUME NEW outer \in Scope, Plain(Placed(list, outer)) PROVE k[h[list]] = list
    OBVIOUS
  <2>1. ASSUME NEW i \in DOMAIN list
        PROVE  EachOf(CTree, k, EachOf(EmitExpr, h, list[i])) = list[i]
    <3> DEFINE s == list[i]
    <3>1. LooksStmt(s, Expr, Block(Expr))
      BY InnerBlocks
    <3>2. NoTwoMinus(Expression(s))
      <4>1. Here(list, i, outer) \in Placed(list, outer)
        BY PlacedHolds
      <4>2. Here(list, i, outer).s = s
        BY DEF Here
      <4> QED
        BY <4>1, <4>2, Zenon DEF Plain
    <3>3. Expression(s) \in Expr
      BY <3>1 DEF LooksStmt, Expression
    <3>4. CTree[EmitExpr[Expression(s)]] = Expression(s)
      BY <3>2, <3>3, TreeKept
    <3>5. ASSUME NEW n \in DOMAIN Blocks(s)
          PROVE  k[h[Blocks(s)[n]]] = Blocks(s)[n]
      <4>1. Blocks(s)[n] \in P
        BY <1>6, InnerBlocks
      <4>2. ScopeAt(list, i, outer, n) \in Scope
        BY HereIs
      <4>3. Placed(Blocks(s)[n], ScopeAt(list, i, outer, n)) \subseteq Placed(list, outer)
        BY PlacedHolds
      <4>4. Plain(Placed(Blocks(s)[n], ScopeAt(list, i, outer, n)))
        BY <4>3, Zenon DEF Plain
      <4> QED
        BY <4>1, <4>2, <4>4
    <3>6. s.kind = "while" => Blocks(s) = <<s.body>>
      BY WithinIs
    <3>7. s.kind = "if" => Blocks(s) = <<s.body, s.else>>
      BY WithinIs
    <3> HIDE DEF s, P
    <3>8. s.kind = "while" => k[h[s.body]] = s.body
      <4>1. s.kind = "while" => 1 \in DOMAIN Blocks(s) /\ Blocks(s)[1] = s.body
        BY <3>6
      <4> QED
        BY <3>5, <4>1, Zenon
    <3>9. s.kind = "if" => k[h[s.body]] = s.body /\ k[h[s.else]] = s.else
      <4>1. s.kind = "if" => /\ 1 \in DOMAIN Blocks(s) /\ Blocks(s)[1] = s.body
                             /\ 2 \in DOMAIN Blocks(s) /\ Blocks(s)[2] = s.else
        BY <3>7
      <4> QED
        BY <3>5, <4>1, Zenon
    <3>10. EachOf(CTree, k, EachOf(EmitExpr, h, s)) = s
      BY <3>1, <3>4, <3>8, <3>9, GivenBack
    <3> QED
      BY <3>10 DEF s
  <2>2. h[list] = [i \in DOMAIN list |-> EachOf(EmitExpr, h, list[i])] /\ h[list] \in Block(Text)
    BY <1>4 DEF EachOver
  <2>3. k[h[list]] = [i \in DOMAIN h[list] |-> EachOf(CTree, k, h[list][i])]
    BY <1>4, <2>2 DEF EachOver
  <2>4. DOMAIN h[list] = DOMAIN list /\ \A i \in DOMAIN list : h[list][i] = EachOf(EmitExpr, h, list[i])
    BY <2>2
  <2>5. k[h[list]] = [i \in DOMAIN list |-> list[i]]
    BY <2>1, <2>3, <2>4
  <2>6. list = [i \in DOMAIN list |-> list[i]]
    BY DEF Block
  <2> QED
    BY <2>5, <2>6, Zenon
<1> HIDE DEF P
<1>7. Block(Expr) \subseteq P
  BY <1>1, <1>6, BlockInduction
<1> QED
  BY <1>5, <1>7 DEF P

-----------------------------------------------------------------------------
(* The functions of the C program.                                         *)

\* What C reads for a function.
CFn(fn) == [EmitFn(fn) EXCEPT !.body = EachBy(CTree, Text, @)]

CParams(fn) == IF fn.name = "main" /\ ~fn.extern THEN <<>> ELSE fn.params

\* The function, but for the parameters of main.
LEMMA CFnIs ==
  ASSUME NEW fn \in Function(Expr), Plain(Statements(fn))
  PROVE  /\ CFn(fn) \in Function(Expr)
         /\ CFn(fn).name = fn.name /\ CFn(fn).ret = fn.ret /\ CFn(fn).extern = fn.extern
         /\ CFn(fn).body = fn.body /\ CFn(fn).params = CParams(fn)
<1>1. /\ fn.params \in Seq(Variable) /\ fn.body \in Block(Expr)
      /\ fn = [name |-> fn.name, params |-> fn.params, ret |-> fn.ret, extern |-> fn.extern,
               body |-> fn.body]
      /\ fn.name \in Idents /\ fn.ret \in Types /\ fn.extern \in BOOLEAN
  BY DEF Function
<1>2. Entry(fn) \in Scope
  BY EntryIs
<1>3. EachBy(CTree, Text, EachBy(EmitExpr, Expr, fn.body)) = fn.body
  BY <1>1, <1>2, BlockKept DEF Statements
<1>4. CParams(fn) \in Seq(Variable)
  BY <1>1 DEF CParams
<1>5. EmitFn(fn) = [name |-> fn.name, params |-> CParams(fn), ret |-> fn.ret, extern |-> fn.extern,
                    body |-> EachBy(EmitExpr, Expr, fn.body)]
  <2>1. ASSUME NEW params, NEW body
        PROVE  [fn EXCEPT !.params = params, !.body = body]
                 = [name |-> fn.name, params |-> params, ret |-> fn.ret, extern |-> fn.extern,
                    body |-> body]
    <3> DEFINE r == [fn EXCEPT !.params = params]
               t == [r EXCEPT !.body = body]
    <3>1. [fn EXCEPT !.params = params, !.body = body] = t
      OBVIOUS
    <3>2. r = [name |-> fn.name, params |-> params, ret |-> fn.ret, extern |-> fn.extern,
               body |-> fn.body]
      BY <1>1
    <3> HIDE DEF r
    <3>3. t = [name |-> fn.name, params |-> params, ret |-> fn.ret, extern |-> fn.extern,
               body |-> body]
      BY <3>2
    <3> QED
      BY <3>1, <3>3, Zenon
  <2>2. EmitFn(fn) = [fn EXCEPT !.params = CParams(fn), !.body = EachBy(EmitExpr, Expr, fn.body)]
    BY DEF EmitFn, CParams
  <2> QED
    BY <2>1, <2>2, Zenon
<1>6. CFn(fn) = [name |-> fn.name, params |-> CParams(fn), ret |-> fn.ret, extern |-> fn.extern,
                 body |-> EachBy(CTree, Text, EachBy(EmitExpr, Expr, fn.body))]
  <2> DEFINE emitted == EmitFn(fn)
  <2>1. CFn(fn) = [emitted EXCEPT !.body = EachBy(CTree, Text, emitted.body)]
    BY DEF CFn
  <2> QED
    BY <1>5, <2>1
<1>7. CFn(fn) = [name |-> fn.name, params |-> CParams(fn), ret |-> fn.ret, extern |-> fn.extern,
                 body |-> fn.body]
  BY <1>3, <1>6, Zenon
<1> QED
  BY <1>1, <1>4, <1>7 DEF Function

\* The C program is made of them.
LEMMA CFnsAre ==
  ASSUME NEW fns \in Seq(Function(Expr))
  PROVE  LET c == CProgram(Emitted(fns))
         IN /\ Range(c) = {CFn(fn) : fn \in Range(fns)}
            /\ \A x \in Range(c) : \E i \in DOMAIN c : c[i] = x
<1> DEFINE first  == Only(fns, {fn \in Range(fns) : fn.extern})
           second == Bodies(fns)
           order  == first \o second
           c      == CProgram(Emitted(fns))
<1>1. /\ first \in Seq(Function(Expr)) /\ second \in Seq(Function(Expr))
      /\ Range(first) = Range(fns) \cap {fn \in Range(fns) : fn.extern}
      /\ Range(second) = Range(fns) \cap {fn \in Range(fns) : ~fn.extern}
  BY OnlyKeeps DEF Bodies
<1>2. Range(order) = Range(fns) /\ order \in Seq(Function(Expr))
  <2>1. Range(first \o second) = Range(first) \cup Range(second)
    <3> HIDE DEF first, second
    <3> QED
      BY <1>1, RangeOfJoin
  <2>2. \A fn \in Range(fns) : fn \in Range(first) \cup Range(second)
    BY <1>1
  <2>3. Range(first) \cup Range(second) \subseteq Range(fns)
    BY <1>1
  <2>4. order \in Seq(Function(Expr))
    <3> HIDE DEF first, second
    <3> QED
      BY <1>1
  <2> HIDE DEF first, second
  <2> QED
    BY <2>1, <2>2, <2>3, <2>4
<1>3. Emitted(fns) = [i \in DOMAIN order |-> EmitFn(order[i])]
  BY Zenon DEF Emitted
<1> HIDE DEF order
<1>4. c = [i \in DOMAIN order |-> CFn(order[i])]
  BY <1>3 DEF CProgram, CFn
<1> HIDE DEF c
<1>5. Range(c) = {CFn(order[i]) : i \in DOMAIN order}
  BY <1>4 DEF Range
<1>6. Range(order) = {order[i] : i \in DOMAIN order}
  BY DEF Range
<1>7. {CFn(order[i]) : i \in DOMAIN order} = {CFn(fn) : fn \in Range(order)}
  BY <1>6
<1>8. \A x \in Range(c) : \E i \in DOMAIN c : c[i] = x
  BY DEF Range
<1> QED
  BY <1>2, <1>5, <1>7, <1>8 DEF c

-----------------------------------------------------------------------------
(* What is left of a scope.                                                *)

\* What the one says of a name, the other says, too, if it says anything.
Fewer(less, env) == \A name \in Idents : less[name] = Nowhere \/ less[name] = env[name]

\* The same statement in the same place, with less in scope.
Pair(x, y) == x.at = y.at /\ x.s = y.s /\ Fewer(y.env, x.env)

\* Two lists of places with the same statements, the second with less in scope.
Paired(places, others) ==
  /\ \A x \in places : \E y \in others : Pair(x, y)
  /\ \A y \in others : \E x \in places : Pair(x, y)

\* Behind the same statements there is still less in scope.
LEMMA FewerAfter ==
  ASSUME NEW list \in Block(Expr), NEW k \in 0 .. Len(list), NEW wide \in Scope, NEW narrow \in Scope,
         wide.at = narrow.at, Fewer(narrow.env, wide.env)
  PROVE  Fewer(After(list, k, narrow), After(list, k, wide))
<1>1. ASSUME NEW name \in Idents
      PROVE  \/ After(list, k, narrow)[name] = Nowhere
             \/ After(list, k, narrow)[name] = After(list, k, wide)[name]
  <2> DEFINE lets == {i \in 1 .. k : list[i].kind = "let" /\ list[i].name = name}
  <2>1. CASE lets = {}
    <3>1. After(list, k, narrow)[name] = narrow.env[name] /\ After(list, k, wide)[name] = wide.env[name]
      BY <2>1 DEF After
    <3> QED
      BY <3>1 DEF Fewer
  <2>2. CASE lets # {}
    <3>1. /\ After(list, k, narrow)[name] =
               [at |-> Append(narrow.at, Latest(lets)), type |-> list[Latest(lets)].type]
          /\ After(list, k, wide)[name] =
               [at |-> Append(wide.at, Latest(lets)), type |-> list[Latest(lets)].type]
      BY <2>2 DEF After
    <3> HIDE DEF lets
    <3> QED
      BY <3>1, Zenon
  <2> QED
    BY <2>1, <2>2
<1> QED
  BY <1>1 DEF Fewer

\* A list of statements in two scopes, the second with less in it.
LEMMA PairedPlaces ==
  \A list \in Block(Expr) : \A wide, narrow \in Scope :
    wide.at = narrow.at /\ Fewer(narrow.env, wide.env) => Paired(Placed(list, wide), Placed(list, narrow))
<1> DEFINE P == {list \in Block(Expr) : \A wide, narrow \in Scope :
    wide.at = narrow.at /\ Fewer(narrow.env, wide.env) => Paired(Placed(list, wide), Placed(list, narrow))}
<1>1. ASSUME NEW list \in Block(Expr), \A i \in DOMAIN list : Inner(list[i]) \subseteq P
      PROVE  list \in P
  <2> SUFFICES ASSUME NEW wide \in Scope, NEW narrow \in Scope,
                      wide.at = narrow.at, Fewer(narrow.env, wide.env)
               PROVE  Paired(Placed(list, wide), Placed(list, narrow))
    OBVIOUS
  <2>1. ASSUME NEW i \in DOMAIN list
        PROVE  Fewer(After(list, i - 1, narrow), After(list, i - 1, wide))
    <3>1. i - 1 \in 0 .. Len(list)
      BY DEF Block
    <3> QED
      BY <3>1, FewerAfter
  <2>2. ASSUME NEW i \in DOMAIN list PROVE Pair(Here(list, i, wide), Here(list, i, narrow))
    BY <2>1 DEF Pair, Here
  <2>3. ASSUME NEW i \in DOMAIN list, NEW n \in DOMAIN Blocks(list[i])
        PROVE  Paired(Placed(Blocks(list[i])[n], ScopeAt(list, i, wide, n)),
                      Placed(Blocks(list[i])[n], ScopeAt(list, i, narrow, n)))
    <3>1. Blocks(list[i])[n] \in P
      BY <1>1, InnerBlocks
    <3>2. ScopeAt(list, i, wide, n) \in Scope /\ ScopeAt(list, i, narrow, n) \in Scope
      BY HereIs
    <3>3. /\ ScopeAt(list, i, wide, n).at = ScopeAt(list, i, narrow, n).at
          /\ Fewer(ScopeAt(list, i, narrow, n).env, ScopeAt(list, i, wide, n).env)
      BY <2>1 DEF ScopeAt
    <3> QED
      BY <3>1, <3>2, <3>3
  <2>4. ASSUME NEW x \in Placed(list, wide) PROVE \E y \in Placed(list, narrow) : Pair(x, y)
    <3>1. PICK i \in DOMAIN list :
             \/ x = Here(list, i, wide)
             \/ \E n \in DOMAIN Blocks(list[i]) :
                  x \in Placed(Blocks(list[i])[n], ScopeAt(list, i, wide, n))
      BY PlacedHolds
    <3>2. CASE x = Here(list, i, wide)
      BY <2>2, <3>2, PlacedHolds
    <3>3. CASE \E n \in DOMAIN Blocks(list[i]) :
                 x \in Placed(Blocks(list[i])[n], ScopeAt(list, i, wide, n))
      <4>1. PICK n \in DOMAIN Blocks(list[i]) :
                 x \in Placed(Blocks(list[i])[n], ScopeAt(list, i, wide, n))
        BY <3>3
      <4>2. PICK y \in Placed(Blocks(list[i])[n], ScopeAt(list, i, narrow, n)) : Pair(x, y)
        BY <2>3, <4>1 DEF Paired
      <4> QED
        BY <4>2, PlacedHolds
    <3> QED
      BY <3>1, <3>2, <3>3
  <2>5. ASSUME NEW y \in Placed(list, narrow) PROVE \E x \in Placed(list, wide) : Pair(x, y)
    <3>1. PICK i \in DOMAIN list :
             \/ y = Here(list, i, narrow)
             \/ \E n \in DOMAIN Blocks(list[i]) :
                  y \in Placed(Blocks(list[i])[n], ScopeAt(list, i, narrow, n))
      BY PlacedHolds
    <3>2. CASE y = Here(list, i, narrow)
      BY <2>2, <3>2, PlacedHolds
    <3>3. CASE \E n \in DOMAIN Blocks(list[i]) :
                 y \in Placed(Blocks(list[i])[n], ScopeAt(list, i, narrow, n))
      <4>1. PICK n \in DOMAIN Blocks(list[i]) :
                 y \in Placed(Blocks(list[i])[n], ScopeAt(list, i, narrow, n))
        BY <3>3
      <4>2. PICK x \in Placed(Blocks(list[i])[n], ScopeAt(list, i, wide, n)) : Pair(x, y)
        BY <2>3, <4>1 DEF Paired
      <4> QED
        BY <4>2, PlacedHolds
    <3> QED
      BY <3>1, <3>2, <3>3
  <2> QED
    BY <2>4, <2>5 DEF Paired
<1> HIDE DEF P
<1>2. Block(Expr) \subseteq P
  BY <1>1, BlockInduction, SomeExpr
<1> QED
  BY <1>2 DEF P

\* What is in scope in C, where a function starts.
LEMMA FewerAtEntry ==
  ASSUME NEW fn \in Function(Expr), NEW c \in Function(Expr), c.params = CParams(fn)
  PROVE  Fewer(Entry(c).env, Entry(fn).env) /\ Entry(c).at = Entry(fn).at
<1>1. Entry(c).at = Entry(fn).at
  BY DEF Entry
<1>2. CASE c.params = fn.params
  <2>1. Entry(c) = Entry(fn)
    BY <1>2 DEF Entry
  <2> QED
    BY <1>1, <2>1 DEF Fewer
<1>3. CASE c.params = <<>>
  <2>1. ASSUME NEW name \in Idents PROVE Entry(c).env[name] = Nowhere
    BY <1>3 DEF Entry
  <2> QED
    BY <1>1, <2>1 DEF Fewer
<1> QED
  BY <1>2, <1>3 DEF CParams

\* The names a statement uses are identifiers.
LEMMA UsesAre ==
  ASSUME NEW s, LooksStmt(s, Expr, Block(Expr))
  PROVE  Expression(s) \in Expr /\ Uses(s) \subseteq Idents
           /\ (s.kind = "let" => Uses(s) = NamesIn(s.init))
<1>1. Expression(s) \in Expr
  BY DEF LooksStmt, Expression
<1>2. NamesIn(Expression(s)) \subseteq Idents
  BY <1>1, NamesAre
<1>3. s.kind = "assign" => s.name \in Idents
  BY DEF LooksStmt
<1>4. s.kind = "let" => Expression(s) = s.init
  BY DEF Expression
<1> QED
  BY <1>1, <1>2, <1>3, <1>4 DEF Uses

\* What a statement says in its place.
Meant(x, inC) ==
  [at |-> x.at, s |-> Own(x.s), means |-> [name \in Uses(x.s) |-> Sees(x, inC)[name].at]]

\* A statement whose names C finds means in C what it means.
LEMMA MeantAlike ==
  ASSUME NEW x \in Place, NEW y \in Place, Pair(x, y), ~OwnName(x.s),
         \A name \in Uses(y.s) : Sees(y, TRUE)[name] # Nowhere
  PROVE  Meant(x, FALSE) = Meant(y, TRUE)
<1>1. x.at = y.at /\ x.s = y.s /\ Fewer(y.env, x.env)
  BY DEF Pair
<1>2. y.env \in Environment /\ y.s \in Stmts(Expr)
  BY DEF Place
<1>3. LooksStmt(y.s, Expr, Block(Expr))
  BY <1>2, SomeExpr, StmtLooks
<1>a. Uses(y.s) \subseteq Idents /\ (y.s.kind = "let" => Uses(y.s) = NamesIn(y.s.init))
  <2> DEFINE s == y.s
  <2>1. LooksStmt(s, Expr, Block(Expr))
    BY <1>3
  <2> HIDE DEF s
  <2>2. Uses(s) \subseteq Idents /\ (s.kind = "let" => Uses(s) = NamesIn(s.init))
    BY <2>1, UsesAre
  <2> QED
    BY <2>2 DEF s
<1>4. ASSUME NEW name \in Uses(y.s) PROVE Sees(x, FALSE)[name] = Sees(y, TRUE)[name]
  <2>1. name \in Idents
    BY <1>a
  <2>2. Sees(x, FALSE)[name] = x.env[name]
    BY DEF Sees
  <2>3. Sees(y, TRUE)[name] = y.env[name]
    <3>1. CASE y.s.kind = "let"
      <4>1. y.s.name \notin NamesIn(y.s.init)
        BY <1>1, <3>1 DEF OwnName
      <4>2. name # y.s.name
        BY <1>a, <3>1, <4>1
      <4>3. Sees(y, TRUE) = [y.env EXCEPT ![y.s.name] = [at |-> y.at, type |-> y.s.type]]
        BY <3>1 DEF Sees
      <4>4. y.env = [i \in Idents |-> y.env[i]]
        BY <1>2 DEF Environment
      <4> QED
        BY <2>1, <4>2, <4>3, <4>4
    <3>2. CASE y.s.kind # "let"
      BY <3>2 DEF Sees
    <3> QED
      BY <3>1, <3>2
  <2>4. y.env[name] # Nowhere
    BY <2>3
  <2> QED
    BY <1>1, <2>1, <2>2, <2>3, <2>4 DEF Fewer
<1>5. [name \in Uses(x.s) |-> Sees(x, FALSE)[name].at] = [name \in Uses(y.s) |-> Sees(y, TRUE)[name].at]
  BY <1>1, <1>4
<1> QED
  BY <1>1, <1>5, Zenon DEF Meant

\* A function says in C what it says.
LEMMA SaysAlike ==
  ASSUME NEW fn \in Function(Expr), NEW c \in Function(Expr),
         c.body = fn.body, c.params = CParams(fn), AllBound(c, TRUE),
         \A x \in Statements(fn) : ~OwnName(x.s)
  PROVE  Says(fn, FALSE) = Says(c, TRUE)
<1>1. fn.body \in Block(Expr) /\ Entry(fn) \in Scope /\ Entry(c) \in Scope
  <2>1. fn.body \in Block(Expr)
    BY DEF Function
  <2> QED
    BY <2>1, EntryIs
<1>2. Paired(Statements(fn), Statements(c))
  <2>1. Fewer(Entry(c).env, Entry(fn).env) /\ Entry(c).at = Entry(fn).at
    BY FewerAtEntry
  <2> QED
    BY <1>1, <2>1, PairedPlaces DEF Statements
<1>3. Statements(fn) \subseteq Place /\ Statements(c) \subseteq Place
  BY <1>1, PlacedIs DEF Statements
<1>4. ASSUME NEW x \in Statements(fn), NEW y \in Statements(c), Pair(x, y)
      PROVE  Meant(x, FALSE) = Meant(y, TRUE)
  <2>1. x \in Place /\ y \in Place
    BY <1>3
  <2>2. ~OwnName(x.s) /\ \A name \in Uses(y.s) : Sees(y, TRUE)[name] # Nowhere
    BY Zenon DEF AllBound
  <2> QED
    BY <1>4, <2>1, <2>2, MeantAlike
<1>5. /\ Says(fn, FALSE) = {Meant(x, FALSE) : x \in Statements(fn)}
      /\ Says(c, TRUE) = {Meant(x, TRUE) : x \in Statements(c)}
  BY Zenon DEF Says, Meant
<1>6. {Meant(x, FALSE) : x \in Statements(fn)} = {Meant(x, TRUE) : x \in Statements(c)}
  <2>1. \A x \in Statements(fn) : \E y \in Statements(c) : Meant(x, FALSE) = Meant(y, TRUE)
    BY <1>2, <1>4 DEF Paired
  <2>2. \A y \in Statements(c) : \E x \in Statements(fn) : Meant(x, FALSE) = Meant(y, TRUE)
    BY <1>2, <1>4 DEF Paired
  <2> QED
    BY <2>1, <2>2
<1> QED
  BY <1>5, <1>6, Zenon

\* A C program that compiles says what the functions say it was made from.
LEMMA ProgramKept ==
  ASSUME NEW fns \in Seq(Function(Expr)), CCompiles(CProgram(Emitted(fns))),
         \A i \in DOMAIN fns : TrueToC(fns[i])
  PROVE  SaysTheSame(fns, CProgram(Emitted(fns)))
<1> DEFINE c == CProgram(Emitted(fns))
           Meaning(fn, inC) ==
             [name |-> fn.name, extern |-> fn.extern, ret |-> fn.ret, says |-> Says(fn, inC),
              params |-> IF fn.name = "main" THEN <<>> ELSE fn.params]
<1>1. /\ Range(c) = {CFn(fn) : fn \in Range(fns)}
      /\ \A x \in Range(c) : \E i \in DOMAIN c : c[i] = x
  BY CFnsAre
<1>2. \A i \in DOMAIN c : AllBound(c[i], TRUE)
  BY Zenon DEF CCompiles
<1> HIDE DEF c
<1>3. ASSUME NEW fn \in Range(fns) PROVE fn \in Function(Expr) /\ TrueToC(fn)
  BY DEF Range
<1>4. ASSUME NEW fn \in Range(fns) PROVE Meaning(fn, FALSE) = Meaning(CFn(fn), TRUE)
  <2>1. fn \in Function(Expr) /\ TrueToC(fn)
    BY <1>3
  <2>2. Plain(Statements(fn)) /\ \A x \in Statements(fn) : ~OwnName(x.s)
    BY <2>1, Zenon DEF TrueToC, Plain, NoTwoMinus
  <2>3. /\ CFn(fn) \in Function(Expr)
        /\ CFn(fn).name = fn.name /\ CFn(fn).ret = fn.ret /\ CFn(fn).extern = fn.extern
        /\ CFn(fn).body = fn.body /\ CFn(fn).params = CParams(fn)
    BY <2>1, <2>2, CFnIs
  <2>4. AllBound(CFn(fn), TRUE)
    <3>1. CFn(fn) \in Range(c)
      BY <1>1
    <3> QED
      BY <1>1, <1>2, <3>1, Zenon
  <2>5. Says(fn, FALSE) = Says(CFn(fn), TRUE)
    BY <2>1, <2>2, <2>3, <2>4, SaysAlike
  <2>6. fn.name # "main" => CFn(fn).params = fn.params
    BY <2>3 DEF CParams
  <2> QED
    BY <2>3, <2>5, <2>6, Zenon
<1>5. SaysTheSame(fns, c) <=> {Meaning(fn, FALSE) : fn \in Range(fns)} = {Meaning(fn, TRUE) : fn \in Range(c)}
  BY Zenon DEF SaysTheSame
<1> HIDE DEF Meaning
<1>6. {Meaning(fn, FALSE) : fn \in Range(fns)} = {Meaning(fn, TRUE) : fn \in Range(c)}
  BY <1>1, <1>4
<1> QED
  BY <1>5, <1>6 DEF c

\* Every executable made of a text was made of one the C compiler takes.
ExesTaken == \A path \in Outs : exe[path] \in Texts => CTakes(exe[path])

\* Every step keeps it.
LEMMA TakenStep == SeedInv /\ ExesTaken /\ [SeedNext]_seedVars => ExesTaken'
<1> SUFFICES ASSUME SeedInv, ExesTaken, [SeedNext]_seedVars PROVE ExesTaken'
  OBVIOUS
<1>1. CASE exe' = exe
  BY <1>1 DEF ExesTaken
<1>2. ASSUME NEW p \in Procs, Compile(p) PROVE ExesTaken'
  <2>1. PICK c : /\ c = Garbled \/ (c \in Texts /\ CTakes(c))
                 /\ exe' = [exe EXCEPT ![OutOf(p)] = c]
    BY <1>2 DEF Compile
  <2>2. Garbled \notin Texts
    BY DriverAssumption
  <2> QED
    BY <2>1, <2>2 DEF ExesTaken, SeedInv, SeedTypeOK
<1>3. exe' = exe \/ \E p \in Procs : Compile(p)
  BY DEF SeedNext, seedVars, Usage, ReadFails, Read, Allocate, ParseDone, CheckDone, OpenC, OpenCFails,
         CloseC, CompileFails, Crash
<1> QED
  BY <1>1, <1>2, <1>3

\* emit_c.c writes expressions as text and C reads them again, with a grammar,
\* a lexer and scopes of its own.  For all programs, of any size and depth: the C
\* program an executable was made from has the operands and the declarations of
\* the text it was made from, but where a minus is below a minus or a variable
\* is named in its own initializer.
THEOREM CSaysTheSame == SeedSpec => []SameMeaning
<1>1. SeedInit => ExesTaken
  BY DriverAssumption DEF SeedInit, ExesTaken
<1>2. SeedInv /\ ExesTaken => SameMeaning
  <2> SUFFICES ASSUME SeedInv, ExesTaken, NEW p \in Procs, exe[OutOf(p)] \in Texts
               PROVE  MeaningKept(exe[OutOf(p)])
    BY DEF SameMeaning
  <2> DEFINE text == exe[OutOf(p)]
  <2>1. text \in Texts /\ CTakes(text)
    <3>1. OutOf(p) \in Outs
      BY DEF SeedInv, SeedTypeOK, Commands, OutOf
    <3> QED
      BY <3>1 DEF ExesTaken
  <2> HIDE DEF text
  <2>2. Fns(text) \in Seq(Function(Expr)) /\ CCompiles(COf(text))
    BY <2>1, CompilerAssumption
  <2>3. (\A i \in DOMAIN Fns(text) : TrueToC(Fns(text)[i])) => SaysTheSame(Fns(text), COf(text))
    BY <2>2, ProgramKept DEF COf
  <2>4. MeaningKept(text)
    BY <2>3, Zenon DEF MeaningKept
  <2> QED
    BY <2>4 DEF text
<1> QED
  BY <1>1, <1>2, InitInv, StepInv, TakenStep, PTL DEF SeedSpec
=============================================================================
