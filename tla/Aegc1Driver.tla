----------------------------- MODULE Aegc1Driver -----------------------------
(***************************************************************************)
(* The driver of aegc1 (driver/main.c, build_graph.c): commands that may   *)
(* overlap, as in a parallel build.  Each writes outputs of its own; all   *)
(* of them rewrite build/aegc1.buildgraph.                                 *)
(*                                                                         *)
(* The build graph is shorter than one buffer of the C library, paths are  *)
(* shorter than 512 characters, and no input is named like a word of the   *)
(* name of another.  The reports written to build/, which nothing reads    *)
(* and whose results are ignored, are left out.                            *)
(***************************************************************************)
EXTENDS Aegc1Frontend

CONSTANTS Procs,
          Paths, Names,  \* the inputs; what a node of the build graph may be named
          Blank,         \* the names with a blank in them
          Ends,          \* what a line may begin with that lost the beginning of a name
          Scrap,         \* a line that lost all of its name
          Word,          \* a hash, a number, the first word of a name: it names no input
          Programs,      \* what each of the inputs may hold
          Tasks,         \* what each process may be asked to do
          Hash,          \* hash_source_cheap, for every program
          GraphCap,      \* nodes of a build graph: 1024
          Earlier,       \* the path and hash of each earlier build, in order
          DevResearch,   \* the build has NPRT_DEV_RESEARCH
          MayCrash,      \* a command may be killed
          MaxCompiles    \* bound: commands started

Outputs == {"ir", "c", "obj", "bin"}

ASSUME DriverAssumption ==
  /\ Paths \subseteq Names /\ Blank \subseteq Names
  /\ Word \in Names \ (Paths \cup Blank) /\ Scrap \in Names \ (Paths \cup Blank)
  /\ Ends \in [Names -> SUBSET Names] /\ Ends[Word] \subseteq {Word} /\ Ends[Scrap] = {}
  /\ \A name \in Names : \A end \in Ends[name] : Ends[end] \subseteq Ends[name]
  /\ GraphCap \in Nat \ {0} /\ MaxCompiles \in Nat
  /\ Earlier \in Seq([path : Paths \ Blank, hash : Range(Hash)])
  /\ \A path \in Paths : Programs[path] \subseteq SourceTexts
  /\ DevResearch \in BOOLEAN /\ MayCrash \in BOOLEAN
  /\ \A p \in Procs : \A t \in Tasks[p] :
       /\ t.path \in Paths /\ t.wants \subseteq Outputs
       /\ t.protect \in BOOLEAN /\ t.research \in BOOLEAN

VARIABLES
  graph,      \* the lines of the build graph file
  outputs,    \* of each process: what its command did to the output files
  stage,      \* how far each command is
  task,       \* what it was asked to do
  hash,       \* src_hash
  nodes,      \* its A1BuildGraph
  program,    \* the text it read, while it is checked
  ir,         \* its A1IrModule, likewise
  ok,         \* the variable ok of main
  exit,       \* the exit status of the last command of each process, and why
  started,    \* how much of the bound is used
  ledger,     \* history: what saving each build in its turn would have left
  compiled,   \* history: how often each path was recorded, and its hashes
  disturbed,  \* history: something came between a load and its save
  mixed,      \* history: two commands had the file open, or a name had a blank
  full        \* history: the disk was full when a command closed an output

graphVars == <<graph, nodes, ledger, compiled, disturbed, mixed>>
driverVars == <<graphVars, outputs, stage, task, hash, program, ir, ok, exit,
                started, full>>

None == [path |-> "none"]
Exit(code, reason) == [code |-> code, reason |-> reason]

-----------------------------------------------------------------------------
(* The build graph.                                                        *)

Node(path, h, version) == [path |-> path, hash |-> h, version |-> version]

\* Mutant: the last node that fits is not read.
LoadsFewer(lines) == {SubSeq(lines, 1, IF Len(lines) >= GraphCap THEN GraphCap - 1 ELSE Len(lines))}

Unreadable == Blank \cup {Scrap}

\* What a line may be read as once words and fields are out of step: %lu takes
\* the digits a name begins with, and the rest of it is the next word.
OutOfStep(line) ==
  {Node(Word, 0, 0)} \cup
  {[line EXCEPT !.path = name] : name \in ({line.path} \cup Ends[line.path]) \ Unreadable}

\* a1_build_graph_load: from a line whose name has a blank or is lost the words
\* are out of step, and a field that is no number ends the load.
Loads(lines) ==
  LET bad == {i \in DOMAIN lines : lines[i].path \in Unreadable}
      upto == IF bad = {} THEN Len(lines) ELSE Min(bad) - 1
      read == SubSeq(lines, 1, IF upto > GraphCap THEN GraphCap ELSE upto)
      astray == UNION {OutOfStep(lines[i]) : i \in upto + 1 .. Len(lines)}
  IN {read \o more : more \in UNION {[1 .. n -> astray] : n \in 0 .. GraphCap - Len(read)}}

\* Mutant: only the beginnings of the paths are compared.
RecordedByPrefix(g, path, h) ==
  IF g # <<>> THEN [g EXCEPT ![1].hash = h, ![1].version = @ + 1]
  ELSE <<Node(path, h, 1)>>

\* a1_build_graph_record
Recorded(g, path, h) ==
  LET same == {i \in DOMAIN g : g[i].path = path}
  IN IF same # {}
     THEN [g EXCEPT ![Min(same)] = Node(path, h, @.version + 1)]
     ELSE IF Len(g) < GraphCap THEN Append(g, Node(path, h, 1)) ELSE g

\* What is left of a line whose beginning was overwritten.
Torn(line) == {[line EXCEPT !.path = name] : name \in Ends[line.path] \cup {Scrap}}

\* Closing a file writes from its beginning; what another writer put behind
\* the end stays, from the middle of a line on if the lines differ in length.
Overlaid(old, new) ==
  {new} \cup
  UNION {LET rest == SubSeq(old, k + 1, Len(old))
         IN {new \o rest} \cup {new \o <<line>> \o rest : line \in Torn(old[k])} : k \in DOMAIN old}

\* What earlier builds left, and how often each path was among them.
EarlierGraph == FoldLeft(LAMBDA g, b : Recorded(g, b.path, b.hash), <<>>, Earlier)

EarlierBuilds ==
  [path \in Paths |->
     LET builds == {i \in DOMAIN Earlier : Earlier[i].path = path}
     IN [times |-> Cardinality(builds), hashes |-> {Earlier[i].hash : i \in builds}]]

Hashes == {0} \cup Range(Hash) \cup {Hash[g] : g \in UNION {Programs[path] : path \in Paths}}
Line == [path : Names, hash : Hashes, version : Nat]
Builds == [times : Nat, hashes : SUBSET Hashes]

\* Builds that ran alone, one after the other, keep a graph of this kind.
ASSUME EarlierAssumption ==
  /\ EarlierGraph \in Seq(Line) /\ Len(EarlierGraph) <= GraphCap
  /\ EarlierBuilds \in [Paths -> Builds]
  /\ \A i \in DOMAIN EarlierGraph :
       LET line == EarlierGraph[i] IN
       /\ line.path \in Paths \ Blank
       /\ line.hash \in EarlierBuilds[line.path].hashes
       /\ line.version <= EarlierBuilds[line.path].times

-----------------------------------------------------------------------------
DriverInit ==
  /\ graph = EarlierGraph /\ ledger = EarlierGraph
  /\ nodes = [p \in Procs |-> <<>>]
  /\ compiled = EarlierBuilds
  /\ disturbed = FALSE /\ mixed = FALSE /\ full = [p \in Procs |-> FALSE]
  /\ outputs = [p \in Procs |-> [k \in Outputs |-> "untouched"]]
  /\ stage = [p \in Procs |-> "idle"]
  /\ task = [p \in Procs |-> None]
  /\ hash = [p \in Procs |-> 0]
  /\ program = [p \in Procs |-> None]
  /\ ir = [p \in Procs |-> <<>>]
  /\ ok = [p \in Procs |-> TRUE]
  /\ exit = [p \in Procs |-> Exit(0, "none")]
  /\ started = 0

Goto(p, s) == stage' = [stage EXCEPT ![p] = s]

\* A command starts.
Begin(p) ==
  /\ stage[p] = "idle" /\ started < MaxCompiles
  /\ started' = started + 1
  /\ \E t \in Tasks[p] : task' = [task EXCEPT ![p] = t]
  /\ outputs' = [outputs EXCEPT ![p] = [k \in Outputs |-> "untouched"]]
  /\ Goto(p, "started")
  /\ full' = [full EXCEPT ![p] = FALSE]
  /\ exit' = [exit EXCEPT ![p] = Exit(0, "none")]
  /\ UNCHANGED <<graphVars, hash, program, ir, ok>>

\* main returns.
Return(p, code, reason) ==
  /\ Goto(p, "idle")
  /\ exit' = [exit EXCEPT ![p] = Exit(code, reason)]
  /\ nodes' = [nodes EXCEPT ![p] = <<>>]
  /\ hash' = [hash EXCEPT ![p] = 0]
  /\ program' = [program EXCEPT ![p] = None]
  /\ ir' = [ir EXCEPT ![p] = <<>>]
  /\ ok' = [ok EXCEPT ![p] = TRUE]
  /\ UNCHANGED <<task, started>>

AsksForOutput(t) == t.wants \cap {"c", "obj"} # {}

\* nprt_authorize_research: only a build with the feature grants a token, and
\* not always; main asks for one only if a purpose is given.
MayRun(t) == t.research => DevResearch

\* nprt_extension_lookup does not know the extension of the input.
UnknownExtension(p) == Return(p, 2, "extension")

\* No output is asked for; or the extension is unknown, the research gate
\* grants nothing, or the input cannot be read.
Refuse(p) ==
  /\ stage[p] = "started"
  /\ IF ~AsksForOutput(task[p]) THEN Return(p, 2, "usage")
     ELSE \/ UnknownExtension(p)
          \/ task[p].research /\ Return(p, 1, "research")
          \/ MayRun(task[p]) /\ Return(p, 1, "read")
  /\ UNCHANGED <<graph, ledger, compiled, disturbed, mixed, outputs, full>>

\* The input is read and hashed.
Read(p) ==
  /\ stage[p] = "started"
  /\ AsksForOutput(task[p]) /\ MayRun(task[p])
  /\ \E h \in {Hash[g] : g \in Programs[task[p].path]} : hash' = [hash EXCEPT ![p] = h]
  /\ Goto(p, "read")
  /\ UNCHANGED <<graphVars, outputs, task, program, ir, ok, exit, started, full>>

Saving(p) == stage[p] \in {"loaded", "opened"}

\* a1_build_graph_load, and a1_build_graph_record.
LoadGraph(p) ==
  /\ stage[p] = "read"
  /\ \E g \in Loads(graph) :
       nodes' = [nodes EXCEPT ![p] = Recorded(g, task[p].path, hash[p])]
  /\ disturbed' = (disturbed \/ task[p].path \in Blank \/ \E q \in Procs : Saving(q))
  /\ mixed' = (mixed \/ task[p].path \in Blank)
  /\ Goto(p, "loaded")
  /\ UNCHANGED <<graph, ledger, compiled, outputs, task, hash, program, ir, ok,
                 exit, started, full>>

\* a1_build_graph_save: fopen empties the file ...
OpenGraph(p) ==
  /\ stage[p] = "loaded"
  /\ graph' = <<>>
  /\ mixed' = (mixed \/ \E q \in Procs : stage[q] = "opened")
  /\ Goto(p, "opened")
  /\ UNCHANGED <<nodes, ledger, compiled, disturbed, outputs, task, hash, program,
                 ir, ok, exit, started, full>>

\* ... or fails, which main ignores.
OpenGraphFails(p) ==
  /\ stage[p] = "loaded"
  /\ Goto(p, "recorded")
  /\ nodes' = [nodes EXCEPT ![p] = <<>>]
  /\ UNCHANGED <<graph, ledger, compiled, disturbed, mixed, outputs, task, hash, program,
                 ir, ok, exit, started, full>>

CloseGraph(p) ==
  /\ stage[p] = "opened"
  /\ graph' \in Overlaid(graph, nodes[p])
  /\ ledger' = Recorded(ledger, task[p].path, hash[p])
  /\ compiled' = [compiled EXCEPT ![task[p].path] =
       [times |-> @.times + 1, hashes |-> @.hashes \cup {hash[p]}]]
  /\ nodes' = [nodes EXCEPT ![p] = <<>>]
  /\ Goto(p, "recorded")
  /\ UNCHANGED <<disturbed, mixed, outputs, task, hash, program, ir, ok, exit, started,
                 full>>

-----------------------------------------------------------------------------
(* Compiling.                                                              *)

\* From a1_parse_module to a1_ir_validate nothing is shared or written.
Check(p) ==
  /\ stage[p] = "recorded"
  /\ \E g \in Programs[task[p].path] :
       /\ Hash[g] = hash[p]
       /\ program' = [program EXCEPT ![p] = g]
       /\ ir' = [ir EXCEPT ![p] = Protected(Lowered(Parsed(g).items), task[p].protect)]
  /\ Goto(p, "checked")
  /\ UNCHANGED <<graphVars, outputs, task, hash, ok, exit, started, full>>

Reject(p) ==
  /\ stage[p] = "checked"
  /\ Verdict(program[p]) # "accepted"
  /\ Return(p, 1, Verdict(program[p]))
  /\ UNCHANGED <<graph, ledger, compiled, disturbed, mixed, outputs, full>>

Accept(p) ==
  /\ stage[p] = "checked"
  /\ Verdict(program[p]) = "accepted"
  /\ Goto(p, "ir")
  /\ program' = [program EXCEPT ![p] = None]
  /\ ir' = [ir EXCEPT ![p] = <<>>]
  /\ UNCHANGED <<graphVars, outputs, task, hash, ok, exit, started, full>>

\* The outputs in their order; only the object looks at ok before it is
\* written, and only with an object there is a link.
After(k) == CASE k = "ir" -> "c" [] k = "c" -> "obj" [] k = "obj" -> "bin" [] k = "bin" -> "end"

\* The stage of a command that has an output open.
Within == [ir |-> "in ir", c |-> "in c", obj |-> "in obj", bin |-> "in bin"]

Due(p, k) ==
  /\ k \in task[p].wants
  /\ k \in {"obj", "bin"} => ok[p]
  /\ k = "bin" => "obj" \in task[p].wants

Write(p, k, state, result) ==
  /\ outputs' = [outputs EXCEPT ![p][k] = state]
  /\ ok' = [ok EXCEPT ![p] = result]
  /\ UNCHANGED <<graphVars, task, hash, program, ir, exit, started>>

\* Mutant: an output that cannot be opened is passed over.
OpenOutputForgiving(p, k) ==
  /\ stage[p] = k /\ k # "bin" /\ Due(p, k)
  /\ \/ Write(p, k, "cut", ok[p]) /\ Goto(p, Within[k])
     \/ Write(p, k, outputs[p][k], TRUE) /\ Goto(p, After(k))
  /\ UNCHANGED full

\* fopen empties the file, or fails.
OpenOutput(p, k) ==
  /\ stage[p] = k /\ k # "bin" /\ Due(p, k)
  /\ \/ Write(p, k, "cut", ok[p]) /\ Goto(p, Within[k])
     \/ Write(p, k, outputs[p][k], FALSE) /\ Goto(p, After(k))
  /\ UNCHANGED full

\* fclose: whether the disk was full is not looked at.  What the dump said is
\* overwritten by what the emitter says.
CloseOutput(p, k) ==
  /\ stage[p] = Within[k]
  /\ \/ Write(p, k, "whole", TRUE) /\ UNCHANGED full
     \/ Write(p, k, "cut", TRUE) /\ full' = [full EXCEPT ![p] = TRUE]
  /\ Goto(p, After(k))

\* system(cmd) runs the linker to its end.
Link(p) ==
  /\ stage[p] = "bin" /\ Due(p, "bin")
  /\ \/ Write(p, "bin", "whole", TRUE)
     \/ \E left \in {outputs[p].bin, "cut"} : Write(p, "bin", left, FALSE)
  /\ Goto(p, "end")
  /\ UNCHANGED full

PassOver(p, k) ==
  /\ stage[p] = k /\ ~Due(p, k)
  /\ Goto(p, After(k))
  /\ UNCHANGED <<graphVars, outputs, task, hash, program, ir, ok, exit, started, full>>

Finish(p) ==
  /\ stage[p] = "end"
  /\ Return(p, IF ok[p] THEN 0 ELSE 1, "done")
  /\ UNCHANGED <<graph, ledger, compiled, disturbed, mixed, outputs, full>>

\* A command is killed: nobody relies on what it wrote, but for the graph.
Crash(p) ==
  /\ MayCrash /\ stage[p] # "idle"
  /\ disturbed' = (disturbed \/ stage[p] = "opened")
  /\ Return(p, 137, "killed")
  /\ outputs' = [outputs EXCEPT ![p] = [k \in Outputs |-> "untouched"]]
  /\ full' = [full EXCEPT ![p] = FALSE]
  /\ UNCHANGED <<graph, ledger, compiled, mixed>>

DriverNext ==
  \E p \in Procs :
    \/ Begin(p) \/ Refuse(p) \/ Read(p) \/ LoadGraph(p) \/ OpenGraph(p)
    \/ OpenGraphFails(p) \/ CloseGraph(p) \/ Check(p) \/ Reject(p) \/ Accept(p)
    \/ Link(p) \/ Finish(p) \/ Crash(p)
    \/ \E k \in Outputs : OpenOutput(p, k) \/ CloseOutput(p, k) \/ PassOver(p, k)

DriverSpec == DriverInit /\ [][DriverNext]_driverVars

-----------------------------------------------------------------------------
(* Properties.                                                             *)

\* tests/aegc1/compiler_1_0/build_core_expected.txt: the build graph persists.
\* As long as loads and saves of different commands do not come between one
\* another, no save is cut off and no path has a blank, the file is what the
\* commands would have left one after the other, whether or not their programs
\* were accepted and however their outputs failed.
GraphIsExact ==
  ~disturbed /\ (\A p \in Procs : stage[p] # "opened") => graph = ledger

\* A line of this name may have been written for path, and torn since.
MayBeOf(name, path) == name = path \/ name \in Ends[path]

\* tests/aegc1/compiler_1_0/build_core_expected.txt: the build graph persists.
\* However commands are killed and overwrite what others saved in between, no
\* line has a hash its input never had or counts builds that were not made;
\* once two commands wrote at the same time a line may be torn, and then its
\* hash is still one of an input whose name ends as the line begins.
GraphNeverInvents ==
  \A i \in DOMAIN graph : LET line == graph[i] IN
    /\ line.path \notin {Word, Scrap} =>
         \E path \in Paths : MayBeOf(line.path, path) /\ line.hash \in compiled[path].hashes
    /\ ~mixed =>
         /\ line.path \in Paths /\ line.hash \in compiled[line.path].hashes
         /\ line.version <= compiled[line.path].times

\* A command that reports success has written every output it was asked for,
\* unless a disk was full; a dump that cannot be written is forgotten where C
\* is emitted after it.  A command that rejects its input has touched none.
SuccessMeansBuilt ==
  \A p \in Procs : stage[p] = "idle" =>
    /\ exit[p] = Exit(0, "done") /\ ~full[p] =>
         \A k \in task[p].wants :
           \/ outputs[p][k] = "whole"
           \/ k = "ir" /\ "c" \in task[p].wants
           \/ k = "bin" /\ "obj" \notin task[p].wants
    /\ exit[p].reason \notin {"none", "done", "killed"} =>
         \A k \in Outputs : outputs[p][k] = "untouched"

Checked(p) == stage[p] = "checked"

\* The checks before the lowering leave one thing to the validation of the IR
\* that follows: an async function with an attribute.  What is accepted has a
\* function to put into an object file.
GatesSuffice ==
  \A p \in Procs : Checked(p) =>
    CASE Verdict(program[p]) = "ir" ->
           \E c \in Range(program[p].chunks) : c.form = "fn" /\ c.async /\ c.attrs
      [] Verdict(program[p]) = "accepted" -> Assembled(ir[p]) # <<>>
      [] OTHER -> TRUE

\* Everything that goes into the emitted C went through the protection passes,
\* unless they are turned off, and nothing else did.
EmittedIsProtected ==
  \A p \in Procs : Checked(p) =>
    \A fn \in Range(ir[p]) : fn.protected <=> task[p].protect /\ fn \in Range(EmittedC(ir[p]))

\* No item needs what follows it to end.
EndsByItself(c) ==
  /\ c.form # "junk"
  /\ \/ c.ends = "semi"
     \/ c.ends \in {"body", "empty"}
          /\ \/ c.form = "fn"
             \/ c.form \in {"struct", "enum"} /\ ~c.arrow /\ ~c.where

\* Where each item ends by itself, every one is parsed; whether the program is
\* accepted does not depend on their order, and a feature word fewer, as in a
\* comment, never makes an accepted program unacceptable.
VerdictIsStable ==
  \A p \in Procs : Checked(p) =>
    LET g == program[p] IN
    /\ (\A c \in Range(g.chunks) : EndsByItself(c)) =>
         /\ Len(Parsed(g).items) = Len(g.chunks)
         /\ Verdict([g EXCEPT !.chunks = Reverse(@)]) = "accepted" <=> Verdict(g) = "accepted"
    /\ Verdict(g) = "accepted" =>
         \A w \in g.words : Verdict([g EXCEPT !.words = @ \ {w}]) = "accepted"
=============================================================================
