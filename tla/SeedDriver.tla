------------------------------ MODULE SeedDriver ------------------------------
(***************************************************************************)
(* aegc0 from its command line to its exit status (driver.c): read, parse, *)
(* check, write the C file, have it compiled.  Several processes run at a  *)
(* time, each a command of its own; unless told otherwise they write one   *)
(* and the same C file.                                                    *)
(*                                                                         *)
(* Parser, check and C compiler are what SeedParser, SeedBackend and       *)
(* SeedMeaning say; here they are functions of the text.  What is done to  *)
(* a process's own memory is not seen by another: while one of them        *)
(* allocates, the others stand still.  A C file is shorter than a buffer   *)
(* of the C library, and written when it is closed.                        *)
(***************************************************************************)
EXTENDS SeedArena, Sequences

CONSTANTS Procs,
          Texts,          \* the texts there are
          Outs, CPaths,   \* the paths of executables and of C files
          Jobs,           \* what the processes may be asked to do, together
          Accepts(_),     \* of a text: the parser noted no error
          Checked(_),     \* the check found no fault
          CTakes(_),      \* the C that is emitted for it compiles and links
          ParseAllocs(_), SemaAllocs(_),   \* what is asked of the arena meanwhile
          Kinds, Size,    \* of the objects in the arena
          Align,          \* their alignment
          Absent, Empty, Garbled,    \* no file; one just opened; one cut or mixed
          Windows,        \* a second compiler is tried
          MayCrash, DiskMayFill

Commands == [usage : BOOLEAN, text : Texts, out : Outs, cpath : CPaths]
Requests == [kind : Kinds, n : Nat \ {0}]

ASSUME DriverAssumption ==
  /\ Jobs \subseteq [Procs -> Commands]
  /\ \A text \in Texts :
       /\ Accepts(text) \in BOOLEAN /\ Checked(text) \in BOOLEAN
       /\ ParseAllocs(text) \in Seq(Requests) /\ SemaAllocs(text) \in Seq(Requests)
  /\ Size \in [Kinds -> Nat \ {0}] /\ Align \in Nat \ {0}
  /\ {Absent, Empty, Garbled} \cap Texts = {}
  /\ Absent # Empty /\ Absent # Garbled /\ Empty # Garbled

VARIABLES
  job,     \* what each process was asked to do
  stage,   \* how far it is
  rc,      \* its exit status
  arena,   \* its arena
  todo,    \* what it will ask of it before its stage ends
  cfile,   \* the C files
  exe,     \* the executables, each the text it was made from
  cut      \* history: the disk was full when the process closed its C file

seedVars == <<job, stage, rc, arena, todo, cfile, exe, cut>>

TextOf(p)  == job[p].text
OutOf(p)   == job[p].out
CPathOf(p) == job[p].cpath

SeedInit ==
  /\ job \in Jobs
  /\ stage = [p \in Procs |-> "start"]
  /\ rc = [p \in Procs |-> 0]
  /\ arena = [p \in Procs |-> EmptyArena]
  /\ todo = [p \in Procs |-> <<>>]
  /\ cfile = [path \in CPaths |-> Absent]
  /\ exe = [path \in Outs |-> Absent]
  /\ cut = [p \in Procs |-> FALSE]

GoTo(p, next) == stage' = [stage EXCEPT ![p] = next]

Exit(p, status) ==
  /\ GoTo(p, "done")
  /\ rc' = [rc EXCEPT ![p] = status]

\* No process is in the middle of its allocations.
Calm == \A p \in Procs : todo[p] = <<>>

-----------------------------------------------------------------------------
\* A command line that makes no sense.
Usage(p) ==
  /\ stage[p] = "start" /\ Calm
  /\ job[p].usage
  /\ Exit(p, 2)
  /\ UNCHANGED <<job, arena, todo, cfile, exe, cut>>

\* read_file fails, or the text is there and the parser starts.
ReadFails(p) ==
  /\ stage[p] = "start" /\ Calm
  /\ ~job[p].usage
  /\ Exit(p, 1)
  /\ UNCHANGED <<job, arena, todo, cfile, exe, cut>>

Read(p) ==
  /\ stage[p] = "start" /\ Calm
  /\ ~job[p].usage
  /\ GoTo(p, "parse")
  /\ todo' = [todo EXCEPT ![p] = ParseAllocs(TextOf(p))]
  /\ UNCHANGED <<job, rc, arena, cfile, exe, cut>>

\* arena_alloc, called by the parser or the check.
Allocate(p) ==
  /\ stage[p] \in {"parse", "check"}
  /\ todo[p] # <<>>
  /\ LET asked == Head(todo[p])
     IN arena' \in {[arena EXCEPT ![p] = a] :
                      a \in Allocated(arena[p], Size[asked.kind] * asked.n, Align)}
  /\ todo' = [todo EXCEPT ![p] = Tail(@)]
  /\ UNCHANGED <<job, stage, rc, cfile, exe, cut>>

\* What comes of work on the tree: anything, where the tree is read through
\* pointers to a block that is gone.
Outcomes(p, sound, all) == IF Dangling(arena[p]) THEN all ELSE {sound}

\* parse_program returns; had_error ends the command.
ParseDone(p) ==
  /\ stage[p] = "parse" /\ Calm
  /\ \E accepted \in Outcomes(p, Accepts(TextOf(p)), BOOLEAN) :
       IF accepted
       THEN /\ GoTo(p, "check") /\ UNCHANGED rc
            /\ todo' = [todo EXCEPT ![p] = SemaAllocs(TextOf(p))]
       ELSE Exit(p, 1) /\ UNCHANGED todo
  /\ UNCHANGED <<job, arena, cfile, exe, cut>>

\* Mutant: what the check says is not looked at.
CheckIgnored(p) ==
  /\ stage[p] = "check" /\ Calm
  /\ GoTo(p, "emit")
  /\ UNCHANGED <<job, rc, arena, todo, cfile, exe, cut>>

\* sema_check_program returns.
CheckDone(p) ==
  /\ stage[p] = "check" /\ Calm
  /\ \E ok \in Outcomes(p, Checked(TextOf(p)), BOOLEAN) :
       IF ok THEN GoTo(p, "emit") /\ UNCHANGED rc ELSE Exit(p, 1)
  /\ UNCHANGED <<job, arena, todo, cfile, exe, cut>>

\* emit_c_program: fopen empties the file ...
OpenC(p) ==
  /\ stage[p] = "emit" /\ Calm
  /\ cfile' = [cfile EXCEPT ![CPathOf(p)] = Empty]
  /\ GoTo(p, "write")
  /\ UNCHANGED <<job, rc, arena, todo, exe, cut>>

\* ... or fails ...
OpenCFails(p) ==
  /\ stage[p] = "emit" /\ Calm
  /\ Exit(p, 1)
  /\ UNCHANGED <<job, arena, todo, cfile, exe, cut>>

\* ... and fclose, whose result is not looked at, writes it: over what another
\* process has written there, or not all of it.
CloseC(p) ==
  /\ stage[p] = "write" /\ Calm
  /\ \E full \in IF DiskMayFill THEN BOOLEAN ELSE {FALSE} :
       LET mixed == full \/ cfile[CPathOf(p)] # Empty IN
       /\ \E text \in Outcomes(p, TextOf(p), {TextOf(p), Garbled}) :
            cfile' = [cfile EXCEPT ![CPathOf(p)] = IF mixed THEN Garbled ELSE text]
       /\ cut' = [cut EXCEPT ![p] = @ \/ full]
  /\ GoTo(p, "compile")
  /\ UNCHANGED <<job, rc, arena, todo, exe>>

\* The compiler takes what it finds in the C file ...
Compile(p) ==
  /\ stage[p] \in {"compile", "again"} /\ Calm
  /\ LET c == cfile[CPathOf(p)] IN
     /\ \/ c = Garbled
        \/ c \in Texts /\ CTakes(c)
     /\ exe' = [exe EXCEPT ![OutOf(p)] = c]
  /\ Exit(p, 0)
  /\ UNCHANGED <<job, arena, todo, cfile, cut>>

\* ... or fails, or is not there; on Windows another one is tried.
CompileFails(p) ==
  /\ stage[p] \in {"compile", "again"} /\ Calm
  /\ IF Windows /\ stage[p] = "compile" THEN GoTo(p, "again") /\ UNCHANGED rc
     ELSE Exit(p, 1)
  /\ UNCHANGED <<job, arena, todo, cfile, exe, cut>>

\* The process is killed, or ends reading through a pointer to nowhere.
Crash(p) ==
  /\ stage[p] \notin {"done", "killed"} /\ Calm
  /\ MayCrash \/ Dangling(arena[p])
  /\ GoTo(p, "killed")
  /\ UNCHANGED <<job, rc, arena, todo, cfile, exe, cut>>

SeedNext ==
  \E p \in Procs :
    \/ Usage(p) \/ ReadFails(p) \/ Read(p) \/ Allocate(p) \/ ParseDone(p) \/ CheckDone(p)
    \/ OpenC(p) \/ OpenCFails(p) \/ CloseC(p) \/ Compile(p) \/ CompileFails(p) \/ Crash(p)

SeedSpec == SeedInit /\ [][SeedNext]_seedVars

-----------------------------------------------------------------------------
(* Properties.                                                             *)

Stages == {"start", "parse", "check", "emit", "write", "compile", "again", "done", "killed"}

SeedTypeOK ==
  /\ job \in [Procs -> Commands]
  /\ stage \in [Procs -> Stages]
  /\ rc \in [Procs -> 0 .. 2]
  /\ arena \in [Procs -> Arenas]
  /\ todo \in [Procs -> Seq(Requests)]
  /\ cfile \in [CPaths -> Texts \cup {Absent, Empty, Garbled}]
  /\ exe \in [Outs -> Texts \cup {Absent, Garbled}]
  /\ cut \in [Procs -> BOOLEAN]

\* Objects of one block lie apart, inside of what the block holds.
ObjectsApart(a) ==
  /\ a.len <= a.cap
  /\ \A o \in a.objects : 0 <= o.start /\ o.start + o.size <= a.len
  /\ \A o, q \in a.objects : o # q /\ o.block = q.block =>
       o.start + o.size <= q.start \/ q.start + q.size <= o.start

\* The parser and the check keep pointers into the arena across allocations.
\* Whatever they ask for and however realloc behaves: objects do not overlap,
\* and no pointer goes astray before the first block is used up.
MemoryIsSound ==
  \A p \in Procs :
    /\ ObjectsApart(arena[p])
    /\ Dangling(arena[p]) => arena[p].len > FirstBlock

\* Nobody else was told to write the same files.
Private(p) ==
  \A q \in Procs \ {p} :
    ~job[q].usage => OutOf(q) # OutOf(p) /\ CPathOf(q) # CPathOf(p)

\* Success means that the executable was made of the text that was given, and
\* that parser, check and compiler all took it: for a text that fits the first
\* block of the arena, paths no other command uses, and a disk that was not
\* full when the C file was closed.
BuildsOwnProgram ==
  \A p \in Procs :
    stage[p] = "done" /\ rc[p] = 0 /\ Private(p) /\ ~cut[p] /\ arena[p].len <= FirstBlock =>
      /\ exe[OutOf(p)] = TextOf(p)
      /\ Accepts(TextOf(p)) /\ Checked(TextOf(p)) /\ CTakes(TextOf(p))
=============================================================================
