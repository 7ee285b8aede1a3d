-------------------------- MODULE Aegc1DriverProofs --------------------------
(***************************************************************************)
(* Theorems about Aegc1Driver, for any processes, inputs, programs and     *)
(* capacity of the build graph.                                            *)
(***************************************************************************)
EXTENDS Aegc1Driver, DataLemmas

-----------------------------------------------------------------------------
(* Minima.                                                                 *)

\* A set of numbers that is not empty has a least one, which Min chooses.
LEMMA Least ==
  ASSUME NEW S \in SUBSET Nat, S # {}
  PROVE  Min(S) \in S /\ \A y \in S : Min(S) <= y
BY LeastNumber DEF Min

-----------------------------------------------------------------------------
(* The build graph as a sequence of lines.                                 *)

\* What a line is made of.
LEMMA LineAt ==
  ASSUME NEW g \in Seq(Line), NEW i \in DOMAIN g
  PROVE  g[i] \in Line /\ g[i].version \in Nat /\ g[i].path \in Names
<1>1. g[i] \in Line
  OBVIOUS
<1> QED
  BY <1>1 DEF Line

\* Recording replaces the first line of that path, or adds a line; all other
\* lines stay.
LEMMA RecordedLines ==
  ASSUME NEW g \in Seq(Line), NEW path \in Paths, NEW h \in Hashes
  PROVE  /\ Recorded(g, path, h) \in Seq(Line)
         /\ \A i \in DOMAIN Recorded(g, path, h) :
              LET line == Recorded(g, path, h)[i] IN
              \/ i \in DOMAIN g /\ line = g[i]
              \/ line = Node(path, h, 1)
              \/ i \in DOMAIN g /\ g[i].path = path /\ line = Node(path, h, g[i].version + 1)
         /\ Len(g) <= GraphCap => Len(Recorded(g, path, h)) <= GraphCap
<1> DEFINE same == {i \in DOMAIN g : g[i].path = path}
           new == Recorded(g, path, h)
<1>0. Node(path, h, 1) \in Line /\ path \in Names
  BY DriverAssumption DEF Node, Line
<1>1. CASE same # {}
  <2> DEFINE m == Min(same)
  <2>1. m \in same
    BY <1>1, Least, same \in SUBSET Nat
  <2> HIDE DEF m
  <2>2. m \in DOMAIN g /\ g[m] \in Line /\ g[m].path = path
    BY <2>1
  <2>3. Node(path, h, g[m].version + 1) \in Line
    BY <1>0, <2>2 DEF Node, Line
  <2>4. new = [g EXCEPT ![m] = Node(path, h, @.version + 1)]
    BY <1>1 DEF Recorded, m
  <2> QED
    BY <2>2, <2>3, <2>4
<1>2. CASE same = {}
  BY <1>0, <1>2, DriverAssumption DEF Recorded
<1> QED
  BY <1>1, <1>2

\* What is read out of step, or left of a line, has the hash and the version of
\* that line and a name that ends as its name does.
LEMMA PartOfLine ==
  ASSUME NEW line \in Line, NEW part \in OutOfStep(line) \cup Torn(line)
  PROVE  /\ part \in Line
         /\ \/ part.path \in {Word, Scrap}
            \/ part.hash = line.hash /\ part.path \in {line.path} \cup Ends[line.path]
<1>1. line.path \in Names /\ Ends[line.path] \subseteq Names /\ Word \in Names /\ Scrap \in Names
  BY DriverAssumption DEF Line
<1>2. CASE part = Node(Word, 0, 0)
  BY <1>1, <1>2 DEF Node, Line, Hashes
<1>3. ASSUME NEW name \in {line.path} \cup Ends[line.path] \cup {Scrap},
             part = [line EXCEPT !.path = name]
      PROVE  /\ part \in Line /\ part.path = name /\ part.hash = line.hash
  BY <1>1, <1>3 DEF Line
<1> QED
  BY <1>2, <1>3 DEF OutOfStep, Torn

\* Two pieces of a file make one.
LEMMA LinesJoined ==
  ASSUME NEW s \in Seq(Line), NEW t \in Seq(Line)
  PROVE  s \o t \in Seq(Line) /\ Len(s \o t) = Len(s) + Len(t)
OBVIOUS

\* What a command reads are lines of the file, and words out of step; only the
\* lines where every name can be read.
LEMMA LoadsLines ==
  ASSUME NEW lines \in Seq(Line), NEW g \in Loads(lines)
  PROVE  /\ g \in Seq(Line)
         /\ \A i \in DOMAIN g : \E k \in DOMAIN lines : g[i] \in {lines[k]} \cup OutOfStep(lines[k])
         /\ (\A k \in DOMAIN lines : lines[k].path \notin Unreadable) =>
              \A i \in DOMAIN g : i \in DOMAIN lines /\ g[i] = lines[i]
<1> DEFINE bad == {i \in DOMAIN lines : lines[i].path \in Unreadable}
           upto == IF bad = {} THEN Len(lines) ELSE Min(bad) - 1
           n == IF upto > GraphCap THEN GraphCap ELSE upto
           read == SubSeq(lines, 1, n)
           astray == UNION {OutOfStep(lines[i]) : i \in upto + 1 .. Len(lines)}
<1>1. upto \in 0 .. Len(lines) /\ n \in 0 .. Len(lines)
  <2>1. CASE bad = {}
    BY <2>1, DriverAssumption
  <2>2. CASE bad # {}
    <3> DEFINE m == Min(bad)
    <3>1. m \in bad
      BY <2>2, Least, bad \in SUBSET Nat
    <3> HIDE DEF m
    <3>2. upto = m - 1
      BY <2>2 DEF m
    <3> QED
      BY <3>1, <3>2, DriverAssumption
  <2> QED
    BY <2>1, <2>2
<1>2. \E j \in 0 .. GraphCap - Len(read) : \E more \in [1 .. j -> astray] : g = read \o more
  BY DEF Loads
<1>0. bad = {} => astray = {}
  BY <1>1
<1> HIDE DEF upto, n
<1>3. /\ read \in Seq(Line) /\ \A i \in DOMAIN read : i \in DOMAIN lines /\ read[i] = lines[i]
  BY <1>1
<1>4. PICK j \in 0 .. GraphCap - Len(read) : \E more \in [1 .. j -> astray] : g = read \o more
  BY <1>2
<1>41. PICK more \in [1 .. j -> astray] : g = read \o more
  BY <1>4
<1>5. j \in Nat
  BY <1>3, DriverAssumption
<1>6. \A part \in astray : part \in Line /\ \E k \in DOMAIN lines : part \in OutOfStep(lines[k])
  <2> SUFFICES ASSUME NEW k \in upto + 1 .. Len(lines), NEW part \in OutOfStep(lines[k])
               PROVE  part \in Line /\ k \in DOMAIN lines
    BY Zenon
  <2>1. k \in DOMAIN lines /\ lines[k] \in Line
    BY <1>1
  <2> QED
    BY <2>1, PartOfLine
<1> HIDE DEF astray, read
<1>7. more \in Seq(Line) /\ Len(more) = j /\ \A i \in 1 .. j : more[i] \in astray
  BY <1>41, <1>5, <1>6
<1>8. g \in Seq(Line) /\ Len(g) = Len(read) + j
  <2>1. g = read \o more
    BY <1>41
  <2>2. read \in Seq(Line) /\ more \in Seq(Line) /\ Len(more) = j
    BY <1>3, <1>7
  <2> QED
    BY <2>1, <2>2, LinesJoined
<1>9. ASSUME NEW i \in DOMAIN g
      PROVE  \/ i \in DOMAIN read /\ g[i] = read[i]
             \/ i > Len(read) /\ i - Len(read) \in 1 .. j /\ g[i] = more[i - Len(read)]
  BY <1>3, <1>41, <1>5, <1>7, <1>8
<1>10. \A i \in DOMAIN g : \E k \in DOMAIN lines : g[i] \in {lines[k]} \cup OutOfStep(lines[k])
  <2> SUFFICES ASSUME NEW i \in DOMAIN g
               PROVE  \E k \in DOMAIN lines : g[i] \in {lines[k]} \cup OutOfStep(lines[k])
    OBVIOUS
  <2>1. CASE i \in DOMAIN read /\ g[i] = read[i]
    BY <1>3, <2>1, Zenon
  <2>2. CASE i - Len(read) \in 1 .. j /\ g[i] = more[i - Len(read)]
    <3>1. g[i] \in astray
      BY <1>7, <2>2, Zenon
    <3> QED
      BY <1>6, <3>1, Zenon
  <2> QED
    BY <1>9, <2>1, <2>2
<1>11. ASSUME \A k \in DOMAIN lines : lines[k].path \notin Unreadable, NEW i \in DOMAIN g
       PROVE  i \in DOMAIN lines /\ g[i] = lines[i]
  <2>1. astray = {}
    BY <1>0, <1>11
  <2>2. j = 0
    BY <1>5, <1>7, <2>1
  <2> QED
    BY <1>3, <1>9, <2>2
<1> QED
  BY <1>8, <1>10, <1>11

\* A file whose names can be read and that is not too long is read as it is.
LEMMA LoadsAll ==
  ASSUME NEW lines \in Seq(Line), Len(lines) <= GraphCap, NEW g \in Loads(lines),
         \A i \in DOMAIN lines : lines[i].path \notin Unreadable
  PROVE  g = lines
<1> DEFINE bad == {i \in DOMAIN lines : lines[i].path \in Unreadable}
           astray == UNION {OutOfStep(lines[i]) : i \in Len(lines) + 1 .. Len(lines)}
<1>1. bad = {}
  OBVIOUS
<1>2. SubSeq(lines, 1, IF Len(lines) > GraphCap THEN GraphCap ELSE Len(lines)) = lines
  BY DriverAssumption
<1>3. astray = {}
  OBVIOUS
<1>4. \E j \in 0 .. GraphCap - Len(lines) : \E more \in [1 .. j -> astray] : g = lines \o more
  BY <1>1, <1>2 DEF Loads
<1> HIDE DEF astray
<1>5. PICK j \in 0 .. GraphCap - Len(lines) : \E more \in [1 .. j -> astray] : g = lines \o more
  BY <1>4
<1>51. PICK more \in [1 .. j -> astray] : g = lines \o more
  BY <1>5
<1>52. j \in Nat
  BY DriverAssumption
<1>6. j = 0
  <2>1. \A i \in 1 .. j : more[i] \in astray
    BY <1>51
  <2>2. 1 \notin 1 .. j
    BY <1>3, <2>1
  <2> QED
    BY <1>52, <2>2
<1>7. more = <<>>
  BY <1>51, <1>6
<1> QED
  BY <1>51, <1>7

\* Closing a file leaves the lines written, and behind them old lines or what
\* is left of them; nothing behind them if nobody else wrote.
LEMMA OverlaidLines ==
  ASSUME NEW old \in Seq(Line), NEW new \in Seq(Line), NEW g \in Overlaid(old, new)
  PROVE  /\ g \in Seq(Line)
         /\ \A i \in DOMAIN g :
              \/ i \in DOMAIN new /\ g[i] = new[i]
              \/ \E k \in DOMAIN old : g[i] \in {old[k]} \cup Torn(old[k])
         /\ old = <<>> => g = new
<1>1. CASE g = new
  BY <1>1
<1>2. ASSUME NEW k \in DOMAIN old, NEW line \in Torn(old[k]),
             \/ g = new \o SubSeq(old, k + 1, Len(old))
             \/ g = new \o <<line>> \o SubSeq(old, k + 1, Len(old))
      PROVE  /\ g \in Seq(Line)
             /\ \A i \in DOMAIN g :
                  \/ i \in DOMAIN new /\ g[i] = new[i]
                  \/ \E l \in DOMAIN old : g[i] \in {old[l]} \cup Torn(old[l])
  <2> DEFINE rest == SubSeq(old, k + 1, Len(old))
             Left == UNION {{old[l]} \cup Torn(old[l]) : l \in DOMAIN old}
             torn == <<line>>
  <2>1. \A l \in DOMAIN old : old[l] \in Line
    OBVIOUS
  <2>2. Left \subseteq Line
    BY <2>1, PartOfLine
  <2>3. line \in Left
    <3>1. line \in {old[k]} \cup Torn(old[k])
      OBVIOUS
    <3> QED
      BY <3>1
  <2>4. rest \in Seq(Left)
    <3>1. \A l \in DOMAIN old : old[l] \in Left
      <4>1. \A l \in DOMAIN old : old[l] \in {old[l]} \cup Torn(old[l])
        OBVIOUS
      <4> QED
        BY <4>1
    <3> HIDE DEF Left
    <3>2. old \in Seq(Left)
      BY <3>1
    <3> QED
      BY <3>2
  <2>10. \A x \in Left : \E l \in DOMAIN old : x \in {old[l]} \cup Torn(old[l])
    OBVIOUS
  <2> HIDE DEF Left, rest
  <2>5. torn \in Seq(Left)
    BY <2>3
  <2> HIDE DEF torn
  <2>6. g = new \o rest \/ g = (new \o torn) \o rest
    BY <1>2 DEF rest, torn
  <2>7. ASSUME NEW tail \in Seq(Left), g = new \o tail
        PROVE  /\ g \in Seq(Line)
               /\ \A i \in DOMAIN g : (i \in DOMAIN new /\ g[i] = new[i]) \/ g[i] \in Left
    <3>1. tail \in Seq(Line)
      BY <2>2
    <3>2. g \in Seq(Line) /\ Len(g) = Len(new) + Len(tail)
      BY <2>7, <3>1
    <3>3. ASSUME NEW i \in DOMAIN g
          PROVE  (i \in DOMAIN new /\ g[i] = new[i]) \/ g[i] \in Left
      <4>1. CASE i <= Len(new)
        BY <2>7, <3>1, <3>2, <4>1
      <4>2. CASE i > Len(new)
        <5>1. i - Len(new) \in DOMAIN tail /\ g[i] = tail[i - Len(new)]
          BY <2>7, <3>1, <3>2, <4>2
        <5> QED
          BY <5>1
      <4> QED
        BY <3>2, <4>1, <4>2
    <3> QED
      BY <3>2, <3>3
  <2>8. CASE g = new \o rest
    BY <2>4, <2>7, <2>8, <2>10
  <2>9. CASE g = (new \o torn) \o rest
    <3>1. g = new \o (torn \o rest)
      BY <2>2, <2>4, <2>5, <2>9
    <3>2. torn \o rest \in Seq(Left)
      BY <2>4, <2>5
    <3> QED
      BY <2>7, <2>10, <3>1, <3>2
  <2> QED
    BY <2>6, <2>8, <2>9
<1>3. \A k \in DOMAIN old : Torn(old[k]) # {}
  BY Zenon DEF Torn
<1>4. \/ g = new
      \/ \E k \in DOMAIN old : \E line :
           /\ line \in Torn(old[k])
           /\ \/ g = new \o SubSeq(old, k + 1, Len(old))
              \/ g = new \o <<line>> \o SubSeq(old, k + 1, Len(old))
  BY <1>3 DEF Overlaid
<1>5. old = <<>> => g = new
  BY <1>4
<1> QED
  BY <1>1, <1>2, <1>4, <1>5

-----------------------------------------------------------------------------
(* The inductive invariant.                                                *)

Early == {"started", "read", "loaded", "opened", "recorded", "checked"}
Late == {"ir", "in ir", "c", "in c", "obj", "in obj", "bin", "end"}

\* The type of the state.
DriverTypeOK ==
  /\ graph \in Seq(Line) /\ ledger \in Seq(Line)
  /\ nodes \in [Procs -> Seq(Line)]
  /\ compiled \in [Paths -> Builds]
  /\ disturbed \in BOOLEAN /\ mixed \in BOOLEAN
  /\ outputs \in [Procs -> [Outputs -> {"untouched", "cut", "whole"}]]
  /\ stage \in [Procs -> {"idle"} \cup Early \cup Late]
  /\ DOMAIN task = Procs
  /\ \A p \in Procs : stage[p] # "idle" => task[p] \in Tasks[p]
  /\ hash \in [Procs -> Hashes]
  /\ ok \in [Procs -> BOOLEAN] /\ full \in [Procs -> BOOLEAN]
  /\ DOMAIN exit = Procs

\* What a command is about to save invents nothing but its own build.
AboutToSave(p) ==
  \A i \in DOMAIN nodes[p] :
    LET line == nodes[p][i]
        Had(path) == \/ line.hash \in compiled[path].hashes
                     \/ path = task[p].path /\ line.hash = hash[p]
    IN /\ line.path \notin {Word, Scrap} =>
            \E path \in Paths : MayBeOf(line.path, path) /\ Had(path)
       /\ ~mixed =>
            /\ line.path \in Paths \ Blank /\ Had(line.path)
            /\ line.version <= compiled[line.path].times
                                 + (IF line.path = task[p].path THEN 1 ELSE 0)

\* As long as nothing was mixed at most one command has the file open, and no
\* line has a blank in its name.
OneWriter ==
  ~mixed =>
    /\ \A i \in DOMAIN graph : graph[i].path \notin Blank
    /\ \A p \in Procs : Saving(p) => task[p].path \notin Blank
    /\ \A p \in Procs : stage[p] = "opened" =>
         graph = <<>> /\ \A q \in Procs : stage[q] = "opened" => q = p

NothingInvented ==
  GraphNeverInvents /\ OneWriter /\ \A p \in Procs : Saving(p) => AboutToSave(p)

\* As long as nothing was disturbed at most one command is between its load and
\* its save, and what it is about to save is the ledger with its build.
Orderly ==
  ~disturbed =>
    /\ Len(ledger) <= GraphCap
    /\ \A i \in DOMAIN ledger : ledger[i].path \notin Unreadable
    /\ (\A p \in Procs : stage[p] # "opened") => graph = ledger
    /\ \A p \in Procs : Saving(p) =>
         /\ task[p].path \notin Blank
         /\ nodes[p] = Recorded(ledger, task[p].path, hash[p])
         /\ stage[p] = "opened" => graph = <<>>
         /\ \A q \in Procs : Saving(q) => q = p

\* The outputs a command is done with.
Past(s) ==
  CASE s \in {"c", "in c"}     -> {"ir"}
    [] s \in {"obj", "in obj"} -> {"ir", "c"}
    [] s = "bin"               -> {"ir", "c", "obj"}
    [] s = "end"               -> Outputs
    [] OTHER                   -> {}

Built(p, k) ==
  \/ outputs[p][k] = "whole"
  \/ k = "ir" /\ "c" \in task[p].wants
  \/ k = "bin" /\ "obj" \notin task[p].wants

\* Nothing is touched before the program is accepted, and from then on what a
\* command is done with was built, unless it knows better.
BuiltSoFar(p) ==
  /\ stage[p] \in Early => /\ ok[p] /\ outputs[p] = [k \in Outputs |-> "untouched"]
  /\ stage[p] \in Late /\ ok[p] /\ ~full[p] =>
       \A k \in task[p].wants \cap Past(stage[p]) : Built(p, k)
  /\ stage[p] = "in c" => "c" \in task[p].wants
  /\ stage[p] = "in obj" => ok[p]
  /\ stage[p] = "idle" =>
       /\ ok[p]
       /\ exit[p] = Exit(0, "done") /\ ~full[p] => \A k \in task[p].wants : Built(p, k)
       /\ exit[p].reason \notin {"none", "done", "killed"} =>
            \A k \in Outputs : outputs[p][k] = "untouched"

BuildsFollow == \A p \in Procs : BuiltSoFar(p)

DriverInv == DriverTypeOK /\ NothingInvented /\ Orderly /\ BuildsFollow

\* It holds before the first command.
LEMMA DriverInitInvariant == DriverInit => DriverInv
<1> SUFFICES ASSUME DriverInit PROVE DriverInv
  OBVIOUS
<1> USE DEF DriverInit
<1>1. DriverTypeOK
  <2>1. graph \in Seq(Line) /\ ledger \in Seq(Line) /\ compiled \in [Paths -> Builds]
    BY EarlierAssumption
  <2>2. /\ nodes \in [Procs -> Seq(Line)] /\ disturbed \in BOOLEAN /\ mixed \in BOOLEAN
        /\ hash \in [Procs -> Hashes]
    BY <<>> \in Seq(Line), 0 \in Hashes DEF Hashes
  <2>3. outputs \in [Procs -> [Outputs -> {"untouched", "cut", "whole"}]]
    OBVIOUS
  <2> QED
    BY <2>1, <2>2, <2>3 DEF DriverTypeOK
<1>2. NothingInvented
  BY EarlierAssumption DEF NothingInvented, GraphNeverInvents, OneWriter, MayBeOf, Saving
<1>3. Orderly
  BY EarlierAssumption, DriverAssumption DEF Orderly, Saving, Unreadable
<1>4. BuildsFollow
  BY DEF BuildsFollow, BuiltSoFar, Early, Late, Exit
<1> QED
  BY <1>1, <1>2, <1>3, <1>4 DEF DriverInv

-----------------------------------------------------------------------------
(* Types.                                                                  *)

\* What a task is made of.
LEMMA TaskParts ==
  ASSUME NEW p \in Procs, NEW t \in Tasks[p]
  PROVE  t.path \in Paths /\ t.wants \subseteq Outputs
BY DriverAssumption

\* A command that ends leaves a state of the same type.
LEMMA ReturnTypes ==
  ASSUME DriverTypeOK, NEW p \in Procs, NEW code, NEW reason, Return(p, code, reason),
         UNCHANGED <<graph, ledger, compiled, mixed>>, disturbed' \in BOOLEAN,
         outputs' \in [Procs -> [Outputs -> {"untouched", "cut", "whole"}]],
         full' \in [Procs -> BOOLEAN]
  PROVE  DriverTypeOK'
<1> USE DEF DriverTypeOK, Return, Goto
<1>1. (\A q \in Procs : stage[q] # "idle" => task[q] \in Tasks[q])'
  OBVIOUS
<1>2. hash' \in [Procs -> Hashes] /\ nodes' \in [Procs -> Seq(Line)]
  BY DEF Hashes
<1> QED
  BY <1>1, <1>2

\* So does one that is done with opening or writing an output.
LEMMA WriteTypes ==
  ASSUME DriverTypeOK, NEW p \in Procs, stage[p] # "idle", NEW k \in Outputs,
         NEW s \in Late, Goto(p, s),
         NEW state \in {"untouched", "cut", "whole"}, NEW result \in BOOLEAN,
         Write(p, k, state, result), full' \in [Procs -> BOOLEAN]
  PROVE  DriverTypeOK'
<1> USE DEF DriverTypeOK, Write, Goto, graphVars
<1>1. outputs' \in [Procs -> [Outputs -> {"untouched", "cut", "whole"}]]
  OBVIOUS
<1>2. (\A q \in Procs : stage[q] # "idle" => task[q] \in Tasks[q])'
  OBVIOUS
<1> QED
  BY <1>1, <1>2

\* Where an output leads to.
LEMMA Stages ==
  ASSUME NEW k \in Outputs
  PROVE  /\ k # "bin" => k \in Late /\ Within[k] \in Late
         /\ After(k) \in Late \ {"in c", "in obj"}
         /\ Within[k] # "idle"
         /\ Within[k] = "in c" => k = "c"
         /\ Within[k] = "in obj" => k = "obj"
<1>1. CASE k = "ir"
  BY <1>1 DEF Late, After, Within
<1>2. CASE k = "c"
  BY <1>2 DEF Late, After, Within
<1>3. CASE k = "obj"
  BY <1>3 DEF Late, After, Within
<1>4. CASE k = "bin"
  BY <1>4 DEF Late, After, Within
<1> QED
  BY <1>1, <1>2, <1>3, <1>4 DEF Outputs

\* Every step keeps the type.
LEMMA DriverTypesStep == DriverTypeOK /\ [DriverNext]_driverVars => DriverTypeOK'
<1> SUFFICES ASSUME DriverTypeOK, [DriverNext]_driverVars PROVE DriverTypeOK'
  OBVIOUS
<1> USE DEF graphVars
<1>1. CASE UNCHANGED driverVars
  BY <1>1 DEF DriverTypeOK, driverVars
<1>2. ASSUME NEW p \in Procs, Begin(p) PROVE DriverTypeOK'
  BY <1>2 DEF DriverTypeOK, Begin, Goto, Early
<1>3. ASSUME NEW p \in Procs, Refuse(p) PROVE DriverTypeOK'
  <2>1. \E code, reason : Return(p, code, reason)
    BY <1>3 DEF Refuse, UnknownExtension
  <2> QED
    BY <1>3, <2>1, ReturnTypes DEF Refuse, DriverTypeOK
<1>4. ASSUME NEW p \in Procs, Read(p) PROVE DriverTypeOK'
  <2>1. task[p].path \in Paths
    BY <1>4, TaskParts DEF Read, DriverTypeOK
  <2>2. hash' \in [Procs -> Hashes]
    BY <1>4, <2>1 DEF Read, DriverTypeOK, Hashes
  <2> QED
    BY <1>4, <2>2 DEF Read, DriverTypeOK, Goto, Early
<1>5. ASSUME NEW p \in Procs, LoadGraph(p) PROVE DriverTypeOK'
  <2>1. task[p].path \in Paths /\ hash[p] \in Hashes
    BY <1>5, TaskParts DEF LoadGraph, DriverTypeOK
  <2>2. nodes' \in [Procs -> Seq(Line)]
    BY <1>5, <2>1, RecordedLines, LoadsLines DEF LoadGraph, DriverTypeOK
  <2> QED
    BY <1>5, <2>2 DEF LoadGraph, DriverTypeOK, Goto, Early
<1>6. ASSUME NEW p \in Procs, OpenGraph(p) \/ OpenGraphFails(p) PROVE DriverTypeOK'
  <2>1. graph' \in Seq(Line) /\ nodes' \in [Procs -> Seq(Line)]
    BY <1>6, <<>> \in Seq(Line) DEF OpenGraph, OpenGraphFails, DriverTypeOK
  <2> QED
    BY <1>6, <2>1 DEF OpenGraph, OpenGraphFails, DriverTypeOK, Goto, Early
<1>7. ASSUME NEW p \in Procs, CloseGraph(p) PROVE DriverTypeOK'
  <2>1. task[p].path \in Paths /\ hash[p] \in Hashes /\ nodes[p] \in Seq(Line)
    BY <1>7, TaskParts DEF CloseGraph, DriverTypeOK
  <2>2. graph' \in Seq(Line) /\ ledger' \in Seq(Line)
    BY <1>7, <2>1, RecordedLines, OverlaidLines DEF CloseGraph, DriverTypeOK
  <2>3. compiled' \in [Paths -> Builds]
    BY <1>7, <2>1 DEF CloseGraph, DriverTypeOK, Builds
  <2> QED
    BY <1>7, <2>2, <2>3 DEF CloseGraph, DriverTypeOK, Goto, Early
<1>8. ASSUME NEW p \in Procs, Check(p) PROVE DriverTypeOK'
  BY <1>8 DEF Check, DriverTypeOK, Goto, Early
<1>9. ASSUME NEW p \in Procs, Reject(p) PROVE DriverTypeOK'
  BY <1>9, ReturnTypes DEF Reject, DriverTypeOK
<1>10. ASSUME NEW p \in Procs, Accept(p) PROVE DriverTypeOK'
  BY <1>10 DEF Accept, DriverTypeOK, Goto, Early, Late
<1>11. ASSUME NEW p \in Procs, NEW k \in Outputs, OpenOutput(p, k) PROVE DriverTypeOK'
  <2>1. /\ stage[p] # "idle" /\ ok[p] \in BOOLEAN /\ full' \in [Procs -> BOOLEAN]
        /\ outputs[p][k] \in {"untouched", "cut", "whole"}
    BY <1>11 DEF OpenOutput, DriverTypeOK, Outputs
  <2>2. \/ Write(p, k, "cut", ok[p]) /\ Goto(p, Within[k])
        \/ Write(p, k, outputs[p][k], FALSE) /\ Goto(p, After(k))
    BY <1>11 DEF OpenOutput
  <2>3. Within[k] \in Late /\ After(k) \in Late
    BY <1>11, Stages DEF OpenOutput
  <2> QED
    BY <2>1, <2>2, <2>3, WriteTypes
<1>12. ASSUME NEW p \in Procs, NEW k \in Outputs, CloseOutput(p, k) PROVE DriverTypeOK'
  <2>1. stage[p] # "idle" /\ full' \in [Procs -> BOOLEAN]
    BY <1>12, Stages DEF CloseOutput, DriverTypeOK
  <2>2. \E state \in {"cut", "whole"} : Write(p, k, state, TRUE)
    BY <1>12 DEF CloseOutput
  <2>3. Goto(p, After(k)) /\ After(k) \in Late
    BY <1>12, Stages DEF CloseOutput
  <2> QED
    BY <2>1, <2>2, <2>3, WriteTypes
<1>13. ASSUME NEW p \in Procs, Link(p) PROVE DriverTypeOK'
  <2>1. /\ stage[p] # "idle" /\ full' \in [Procs -> BOOLEAN] /\ Goto(p, "end")
        /\ "end" \in Late /\ "bin" \in Outputs
        /\ outputs[p].bin \in {"untouched", "cut", "whole"}
    BY <1>13 DEF Link, DriverTypeOK, Late, Outputs
  <2>2. \E state \in {outputs[p].bin, "cut", "whole"}, result \in BOOLEAN :
          Write(p, "bin", state, result)
    BY <1>13 DEF Link
  <2> QED
    BY <2>1, <2>2, WriteTypes
<1>14. ASSUME NEW p \in Procs, NEW k \in Outputs, PassOver(p, k) PROVE DriverTypeOK'
  BY <1>14 DEF PassOver, DriverTypeOK, Goto, Late, After, Outputs
<1>15. ASSUME NEW p \in Procs, Finish(p) PROVE DriverTypeOK'
  BY <1>15, ReturnTypes DEF Finish, DriverTypeOK
<1>16. ASSUME NEW p \in Procs, Crash(p) PROVE DriverTypeOK'
  <2>1. disturbed' \in BOOLEAN /\ full' \in [Procs -> BOOLEAN]
    BY <1>16 DEF Crash, DriverTypeOK
  <2>2. outputs' \in [Procs -> [Outputs -> {"untouched", "cut", "whole"}]]
    BY <1>16 DEF Crash, DriverTypeOK
  <2> QED
    BY <1>16, <2>1, <2>2, ReturnTypes DEF Crash
<1> QED
  BY <1>1, <1>2, <1>3, <1>4, <1>5, <1>6, <1>7, <1>8, <1>9, <1>10, <1>11, <1>12,
     <1>13, <1>14, <1>15, <1>16 DEF DriverNext

-----------------------------------------------------------------------------
(* The build graph.                                                        *)

\* The graph and the commands that save are left alone.
Elsewhere ==
  /\ UNCHANGED <<graph, ledger, compiled, disturbed, mixed>>
  /\ \A q \in Procs :
       /\ stage[q] = "opened" <=> stage'[q] = "opened"
       /\ stage'[q] \in {"loaded", "opened"} =>
            /\ stage[q] = stage'[q]
            /\ nodes'[q] = nodes[q] /\ task'[q] = task[q] /\ hash'[q] = hash[q]

LEMMA ElsewhereKeeps ==
  ASSUME NothingInvented, Orderly, Elsewhere
  PROVE  NothingInvented' /\ Orderly'
<1>1. \A q \in Procs : Saving(q)' => Saving(q)
  BY DEF Elsewhere, Saving
<1>2. NothingInvented'
  <2>1. GraphNeverInvents'
    BY DEF NothingInvented, GraphNeverInvents, Elsewhere
  <2>2. ASSUME NEW q \in Procs, Saving(q)' PROVE AboutToSave(q)'
    <3>1. AboutToSave(q)
      BY <1>1, <2>2 DEF NothingInvented
    <3>2. /\ nodes'[q] = nodes[q] /\ task'[q] = task[q] /\ hash'[q] = hash[q]
          /\ compiled' = compiled /\ mixed' = mixed
      BY <2>2 DEF Elsewhere, Saving
    <3> QED
      BY <3>1, <3>2 DEF AboutToSave
  <2>3. OneWriter'
    BY <1>1 DEF NothingInvented, OneWriter, Elsewhere, Saving
  <2> QED
    BY <2>1, <2>2, <2>3 DEF NothingInvented
<1>3. Orderly'
  BY <1>1 DEF Orderly, Elsewhere, Saving
<1> QED
  BY <1>2, <1>3

\* A line may be of a path that was recorded with its hash, or is about to be.
Had(line, path, p) ==
  \/ line.hash \in compiled[path].hashes
  \/ path = task[p].path /\ line.hash = hash[p]

Names1(line, p) ==
  line.path \notin {Word, Scrap} => \E path \in Paths : MayBeOf(line.path, path) /\ Had(line, path, p)

Names2(line, p) ==
  /\ line.path \in Paths \ Blank /\ Had(line, line.path, p)
  /\ line.version <= compiled[line.path].times + (IF line.path = task[p].path THEN 1 ELSE 0)

\* What is read out of step, or left of a line, may be of the same paths.
LEMMA PartMayBeOf ==
  ASSUME NEW line \in Line, NEW part \in OutOfStep(line) \cup Torn(line),
         part.path \notin {Word, Scrap}
  PROVE  /\ line.path \notin {Word, Scrap} /\ part.hash = line.hash
         /\ \A path \in Paths : MayBeOf(line.path, path) => MayBeOf(part.path, path)
<1>1. part.hash = line.hash /\ part.path \in {line.path} \cup Ends[line.path]
  BY PartOfLine
<1>2. line.path \in Names /\ line.path \notin {Word, Scrap}
  BY <1>1, DriverAssumption DEF Line
<1>3. ASSUME NEW path \in Paths, MayBeOf(line.path, path) PROVE MayBeOf(part.path, path)
  <2>1. path \in Names
    BY DriverAssumption
  <2>2. CASE part.path = line.path
    BY <1>3, <2>2
  <2>3. CASE part.path \in Ends[line.path]
    <3>1. CASE line.path = path
      BY <2>3, <3>1 DEF MayBeOf
    <3>2. CASE line.path \in Ends[path]
      <4>1. Ends[line.path] \subseteq Ends[path]
        BY <2>1, <3>2, DriverAssumption
      <4> QED
        BY <2>3, <4>1 DEF MayBeOf
    <3> QED
      BY <1>3, <3>1, <3>2 DEF MayBeOf
  <2> QED
    BY <1>1, <2>2, <2>3
<1> QED
  BY <1>1, <1>2, <1>3

\* Loading: alone, a command reads the ledger.
LEMMA LoadGraphKeeps ==
  ASSUME DriverTypeOK, NothingInvented, Orderly, NEW p \in Procs, LoadGraph(p)
  PROVE  NothingInvented' /\ Orderly'
<1> DEFINE path == task[p].path
           h == hash[p]
<1>1. /\ path \in Paths /\ h \in Hashes /\ graph \in Seq(Line) /\ ledger \in Seq(Line)
      /\ stage[p] = "read"
  BY TaskParts DEF LoadGraph, DriverTypeOK
<1>2. PICK g \in Loads(graph) : nodes' = [nodes EXCEPT ![p] = Recorded(g, path, h)]
  BY DEF LoadGraph
<1>3. /\ nodes'[p] = Recorded(g, path, h) /\ stage'[p] = "loaded"
      /\ \A q \in Procs : q # p => nodes'[q] = nodes[q] /\ stage'[q] = stage[q]
      /\ UNCHANGED <<graph, ledger, compiled, task, hash>>
      /\ disturbed' = (disturbed \/ path \in Blank \/ \E q \in Procs : Saving(q))
      /\ mixed' = (mixed \/ path \in Blank)
  BY <1>2 DEF LoadGraph, Goto, DriverTypeOK
<1>4. GraphNeverInvents'
  BY <1>3 DEF NothingInvented, GraphNeverInvents
<1>5. AboutToSave(p)'
  <2>1. /\ g \in Seq(Line)
        /\ \A j \in DOMAIN g : \E k \in DOMAIN graph : g[j] \in {graph[k]} \cup OutOfStep(graph[k])
        /\ (\A k \in DOMAIN graph : graph[k].path \notin Unreadable) =>
             \A j \in DOMAIN g : j \in DOMAIN graph /\ g[j] = graph[j]
    BY <1>1, LoadsLines
  <2>2. \A j \in DOMAIN g : g[j].path \notin {Word, Scrap} =>
          \E x \in Paths : MayBeOf(g[j].path, x) /\ g[j].hash \in compiled[x].hashes
    <3> SUFFICES ASSUME NEW j \in DOMAIN g, g[j].path \notin {Word, Scrap}
                 PROVE  \E x \in Paths : MayBeOf(g[j].path, x) /\ g[j].hash \in compiled[x].hashes
      OBVIOUS
    <3>1. PICK k \in DOMAIN graph : g[j] \in {graph[k]} \cup OutOfStep(graph[k])
      BY <2>1
    <3>2. graph[k] \in Line
      BY <1>1
    <3>3. graph[k].path \notin {Word, Scrap} =>
            \E x \in Paths : MayBeOf(graph[k].path, x) /\ graph[k].hash \in compiled[x].hashes
      BY DEF NothingInvented, GraphNeverInvents
    <3>4. CASE g[j] = graph[k]
      BY <3>3, <3>4
    <3>5. CASE g[j] \in OutOfStep(graph[k])
      BY <3>2, <3>3, <3>5, PartMayBeOf
    <3> QED
      BY <3>1, <3>4, <3>5
  <2>3. ~mixed => \A j \in DOMAIN g :
          /\ g[j].path \in Paths \ Blank /\ g[j].hash \in compiled[g[j].path].hashes
          /\ g[j].version <= compiled[g[j].path].times
    <3> SUFFICES ASSUME ~mixed, NEW j \in DOMAIN g
                 PROVE  /\ g[j].path \in Paths \ Blank /\ g[j].hash \in compiled[g[j].path].hashes
                        /\ g[j].version <= compiled[g[j].path].times
      OBVIOUS
    <3>1. \A k \in DOMAIN graph : /\ graph[k].path \in Paths \ Blank
                                  /\ graph[k].hash \in compiled[graph[k].path].hashes
                                  /\ graph[k].version <= compiled[graph[k].path].times
      BY DEF NothingInvented, GraphNeverInvents, OneWriter
    <3>2. \A k \in DOMAIN graph : graph[k].path \notin Unreadable
      BY <3>1, DriverAssumption DEF Unreadable
    <3> QED
      BY <2>1, <3>1, <3>2
  <2>4. \A x \in Paths : compiled[x].times \in Nat
    BY DEF DriverTypeOK, Builds
  <2> SUFFICES ASSUME NEW i \in DOMAIN Recorded(g, path, h)
               PROVE  LET line == Recorded(g, path, h)[i] IN
                      Names1(line, p) /\ (~mixed' => Names2(line, p))
    BY <1>3, Zenon DEF AboutToSave, Names1, Names2, Had
  <2> DEFINE line == Recorded(g, path, h)[i]
  <2>5. \/ i \in DOMAIN g /\ line = g[i]
        \/ line = Node(path, h, 1)
        \/ i \in DOMAIN g /\ g[i].path = path /\ line = Node(path, h, g[i].version + 1)
    BY <1>1, <2>1, RecordedLines
  <2> HIDE DEF line
  <2>6. CASE i \in DOMAIN g /\ line = g[i]
    <3>1. line \in Line
      BY <2>1, <2>6
    <3>2. Names1(line, p)
      BY <2>2, <2>6 DEF Names1, Had
    <3>3. ~mixed' => Names2(line, p)
      <4> SUFFICES ASSUME ~mixed PROVE Names2(line, p)
        BY <1>3
      <4>1. /\ line.path \in Paths \ Blank /\ line.hash \in compiled[line.path].hashes
            /\ line.version <= compiled[line.path].times
            /\ line.version \in Nat /\ compiled[line.path].times \in Nat
        BY <2>3, <2>4, <2>6, <3>1 DEF Line
      <4> QED
        BY <4>1 DEF Names2, Had
    <3> QED
      BY <3>2, <3>3 DEF line
  <2>7. ASSUME line.path = path, line.hash = h,
               line.version = 1 \/ (~mixed => line.version <= compiled[path].times + 1)
        PROVE  Names1(line, p) /\ (~mixed' => Names2(line, p))
    <3>1. Names1(line, p)
      BY <1>1, <2>7 DEF Names1, Had, MayBeOf
    <3>2. ~mixed' => Names2(line, p)
      <4> SUFFICES ASSUME ~mixed' PROVE Names2(line, p)
        OBVIOUS
      <4>1. ~mixed /\ path \in Paths \ Blank
        BY <1>1, <1>3
      <4>2. line.path \in Paths \ Blank /\ Had(line, line.path, p)
        BY <2>7, <4>1 DEF Had
      <4>3. line.version <= compiled[path].times + 1
        BY <2>4, <2>7, <4>1
      <4> QED
        BY <2>7, <4>2, <4>3 DEF Names2
    <3> QED
      BY <3>1, <3>2
  <2>8. CASE line = Node(path, h, 1)
    BY <2>7, <2>8 DEF Node, line
  <2>9. CASE i \in DOMAIN g /\ g[i].path = path /\ line = Node(path, h, g[i].version + 1)
    <3>1. g[i] \in Line /\ g[i].version \in Nat
      BY <2>1, <2>9, LineAt
    <3>2. ~mixed => line.version <= compiled[path].times + 1
      BY <1>1, <2>3, <2>4, <2>9, <3>1 DEF Node
    <3>3. line.path = path /\ line.hash = h
      BY <2>9 DEF Node
    <3> QED
      BY <2>7, <3>2, <3>3 DEF line
  <2> QED
    BY <2>5, <2>6, <2>8, <2>9 DEF line
<1>6. \A q \in Procs : q # p /\ Saving(q)' => Saving(q) /\ AboutToSave(q)'
  <2> SUFFICES ASSUME NEW q \in Procs, q # p, Saving(q)' PROVE Saving(q) /\ AboutToSave(q)'
    OBVIOUS
  <2>1. Saving(q) /\ AboutToSave(q) /\ nodes'[q] = nodes[q] /\ (~mixed' => ~mixed)
        /\ UNCHANGED <<compiled, task, hash>>
    BY <1>3 DEF NothingInvented, Saving
  <2> QED
    BY <2>1 DEF AboutToSave
<1>7. OneWriter'
  BY <1>3 DEF NothingInvented, OneWriter, Saving
<1>8. NothingInvented'
  BY <1>4, <1>5, <1>6, <1>7 DEF NothingInvented
<1>9. Orderly'
  <2> SUFFICES ASSUME ~disturbed' PROVE Orderly'
    BY DEF Orderly
  <2>1. ~disturbed /\ path \notin Blank /\ \A q \in Procs : ~Saving(q)
    BY <1>3
  <2>2. /\ graph = ledger /\ Len(ledger) <= GraphCap
        /\ \A i \in DOMAIN ledger : ledger[i].path \notin Unreadable
    BY <2>1 DEF Orderly, Saving
  <2>3. g = ledger
    BY <1>1, <2>2, LoadsAll
  <2> QED
    BY <1>3, <2>1, <2>2, <2>3 DEF Orderly, Saving
<1> QED
  BY <1>8, <1>9

\* Opening the file empties it.
LEMMA OpenGraphKeeps ==
  ASSUME DriverTypeOK, NothingInvented, Orderly, NEW p \in Procs, OpenGraph(p)
  PROVE  NothingInvented' /\ Orderly'
<1>1. /\ stage[p] = "loaded" /\ stage'[p] = "opened" /\ graph' = <<>>
      /\ \A q \in Procs : q # p => stage'[q] = stage[q]
      /\ UNCHANGED <<nodes, ledger, compiled, disturbed, task, hash>>
      /\ mixed' = (mixed \/ \E q \in Procs : stage[q] = "opened")
  BY DEF OpenGraph, Goto, DriverTypeOK
<1>2. \A q \in Procs : Saving(q)' = Saving(q)
  BY <1>1 DEF Saving
<1>3. NothingInvented'
  <2>1. GraphNeverInvents'
    BY <1>1 DEF GraphNeverInvents
  <2>2. OneWriter'
    <3> SUFFICES ASSUME ~mixed' PROVE OneWriter'
      BY DEF OneWriter
    <3>1. ~mixed /\ \A q \in Procs : stage[q] # "opened"
      BY <1>1
    <3>2. \A q \in Procs : stage'[q] = "opened" => q = p
      BY <1>1, <3>1
    <3>3. \A q \in Procs : Saving(q)' => task'[q].path \notin Blank
      BY <1>1, <1>2, <3>1 DEF NothingInvented, OneWriter
    <3> QED
      BY <1>1, <3>2, <3>3 DEF OneWriter
  <2>3. ASSUME NEW q \in Procs, Saving(q)' PROVE AboutToSave(q)'
    <3>1. AboutToSave(q) /\ (~mixed' => ~mixed)
      BY <1>1, <1>2, <2>3 DEF NothingInvented
    <3> QED
      BY <1>1, <3>1 DEF AboutToSave
  <2> QED
    BY <2>1, <2>2, <2>3 DEF NothingInvented
<1>4. Orderly'
  BY <1>1, <1>2 DEF Orderly, Saving
<1> QED
  BY <1>3, <1>4

\* A save that cannot open the file leaves it.
LEMMA OpenGraphFailsKeeps ==
  ASSUME DriverTypeOK, NothingInvented, Orderly, NEW p \in Procs, OpenGraphFails(p)
  PROVE  NothingInvented' /\ Orderly'
<1>1. Elsewhere
  BY DEF OpenGraphFails, Goto, DriverTypeOK, Elsewhere
<1> QED
  BY <1>1, ElsewhereKeeps

\* Closing the file writes what was recorded, over what others wrote.
LEMMA CloseGraphKeeps ==
  ASSUME DriverTypeOK, NothingInvented, Orderly, NEW p \in Procs, CloseGraph(p)
  PROVE  NothingInvented' /\ Orderly'
<1> DEFINE path == task[p].path
           h == hash[p]
           new == nodes[p]
<1>1. /\ path \in Paths /\ h \in Hashes /\ graph \in Seq(Line) /\ ledger \in Seq(Line)
      /\ new \in Seq(Line) /\ stage[p] = "opened" /\ stage'[p] = "recorded"
      /\ \A q \in Procs : q # p => stage'[q] = stage[q] /\ nodes'[q] = nodes[q]
      /\ UNCHANGED <<disturbed, mixed, task, hash>>
      /\ graph' \in Overlaid(graph, new) /\ ledger' = Recorded(ledger, path, h)
  BY TaskParts DEF CloseGraph, Goto, DriverTypeOK
<1>2. \A x \in Paths :
        /\ compiled[x].times \in Nat /\ compiled'[x].times \in Nat
        /\ compiled[x].times <= compiled'[x].times
        /\ compiled[x].hashes \subseteq compiled'[x].hashes
        /\ x = path => h \in compiled'[x].hashes /\ compiled'[x].times = compiled[x].times + 1
  <2>1. compiled' = [compiled EXCEPT ![path] = [times |-> @.times + 1, hashes |-> @.hashes \cup {h}]]
    BY DEF CloseGraph
  <2> QED
    BY <1>1, <2>1 DEF DriverTypeOK, Builds
<1>3. Saving(p) /\ AboutToSave(p)
  BY <1>1 DEF NothingInvented, Saving
<1>4. ASSUME NEW i \in DOMAIN new
      PROVE  new[i] \in Line /\ Names1(new[i], p) /\ (~mixed => Names2(new[i], p))
  <2>1. new[i] \in Line
    BY <1>1
  <2>2. Names1(new[i], p) /\ (~mixed => Names2(new[i], p))
    BY <1>3, Zenon DEF AboutToSave, Names1, Names2, Had
  <2> QED
    BY <2>1, <2>2
<1>5. GraphNeverInvents'
  <2>1. /\ graph' \in Seq(Line)
        /\ \A i \in DOMAIN graph' :
             \/ i \in DOMAIN new /\ graph'[i] = new[i]
             \/ \E k \in DOMAIN graph : graph'[i] \in {graph[k]} \cup Torn(graph[k])
        /\ graph = <<>> => graph' = new
    BY <1>1, OverlaidLines
  <2>2. \A x \in Paths : \A line : Had(line, x, p) => line.hash \in compiled'[x].hashes
    BY <1>2 DEF Had
  <2>3. ASSUME NEW i \in DOMAIN graph', graph'[i].path \notin {Word, Scrap}
        PROVE  \E x \in Paths : MayBeOf(graph'[i].path, x) /\ graph'[i].hash \in compiled'[x].hashes
    <3>1. CASE i \in DOMAIN new /\ graph'[i] = new[i]
      BY <1>4, <2>2, <2>3, <3>1 DEF Names1
    <3>2. ASSUME NEW k \in DOMAIN graph, graph'[i] \in {graph[k]} \cup Torn(graph[k])
          PROVE  \E x \in Paths : MayBeOf(graph'[i].path, x) /\ graph'[i].hash \in compiled'[x].hashes
      <4>1. graph[k] \in Line
        BY <1>1
      <4>2. graph[k].path \notin {Word, Scrap} =>
              \E x \in Paths : MayBeOf(graph[k].path, x) /\ graph[k].hash \in compiled'[x].hashes
        BY <1>2 DEF NothingInvented, GraphNeverInvents
      <4>3. CASE graph'[i] = graph[k]
        BY <2>3, <4>2, <4>3
      <4>4. CASE graph'[i] \in Torn(graph[k])
        <5> DEFINE part == graph'[i]
        <5>1. part \in OutOfStep(graph[k]) \cup Torn(graph[k]) /\ part.path \notin {Word, Scrap}
          BY <2>3, <4>4
        <5> HIDE DEF part
        <5>2. /\ graph[k].path \notin {Word, Scrap} /\ part.hash = graph[k].hash
              /\ \A x \in Paths : MayBeOf(graph[k].path, x) => MayBeOf(part.path, x)
          BY <4>1, <5>1, PartMayBeOf
        <5> QED
          BY <4>2, <5>2 DEF part
      <4> QED
        BY <3>2, <4>3, <4>4
    <3> QED
      BY <2>1, <3>1, <3>2
  <2>4. ASSUME ~mixed, NEW i \in DOMAIN graph'
        PROVE  /\ graph'[i].path \in Paths /\ graph'[i].hash \in compiled'[graph'[i].path].hashes
               /\ graph'[i].version <= compiled'[graph'[i].path].times
    <3>1. graph' = new
      BY <1>1, <2>1, <2>4 DEF NothingInvented, OneWriter
    <3> DEFINE line == new[i]
    <3>2. Names2(line, p) /\ line.version \in Nat
      BY <1>1, <1>4, <2>4, <3>1, LineAt
    <3> HIDE DEF line
    <3>3. line.path \in Paths /\ line.hash \in compiled'[line.path].hashes
      BY <2>2, <3>2 DEF Names2
    <3>4. line.version <= compiled'[line.path].times
      BY <1>2, <3>2, <3>3 DEF Names2
    <3> QED
      BY <3>1, <3>3, <3>4 DEF line
  <2> QED
    BY <1>1, <2>3, <2>4 DEF GraphNeverInvents
<1>6. ASSUME NEW q \in Procs, Saving(q)' PROVE AboutToSave(q)'
  <2>1. q # p /\ Saving(q)
    BY <1>1, <1>6 DEF Saving
  <2>2. AboutToSave(q) /\ nodes'[q] = nodes[q] /\ nodes[q] \in Seq(Line)
    BY <1>1, <2>1 DEF NothingInvented, DriverTypeOK
  <2>3. \A x \in Paths : \A line : Had(line, x, q) => Had(line, x, q)'
    BY <1>1, <1>2 DEF Had
  <2>4. ASSUME NEW i \in DOMAIN nodes[q]
        PROVE  Names1(nodes[q][i], q)' /\ (~mixed => Names2(nodes[q][i], q)')
    <3>0. PICK line : line = nodes[q][i]
      OBVIOUS
    <3>1. line.version \in Nat
      BY <2>2, <3>0, LineAt
    <3>2. Names1(line, q) /\ (~mixed => Names2(line, q))
      BY <2>2, <3>0, Zenon DEF AboutToSave, Names1, Names2, Had
    <3>3. nodes'[q][i] = line
      BY <2>2, <3>0
    <3>4. line.path \notin {Word, Scrap} =>
            \E x \in Paths : MayBeOf(line.path, x) /\ Had(line, x, q)'
      BY <2>3, <3>2 DEF Names1
    <3>5. ASSUME ~mixed
          PROVE  /\ line.path \in Paths \ Blank /\ Had(line, line.path, q)'
                 /\ line.version <= compiled'[line.path].times
                                      + (IF line.path = task[q].path THEN 1 ELSE 0)
      <4>1. line.path \in Paths \ Blank /\ Had(line, line.path, q)'
        BY <2>3, <3>2, <3>5 DEF Names2
      <4>2. line.version <= compiled[line.path].times
                              + (IF line.path = task[q].path THEN 1 ELSE 0)
        BY <3>2, <3>5 DEF Names2
      <4> QED
        BY <1>2, <3>1, <4>1, <4>2
    <3> QED
      BY <1>1, <3>3, <3>4, <3>5 DEF Names1, Names2
  <2> QED
    BY <1>1, <2>2, <2>4 DEF AboutToSave, Names1, Names2, Had
<1>7. OneWriter'
  <2> SUFFICES ASSUME ~mixed PROVE OneWriter'
    BY <1>1 DEF OneWriter
  <2>1. graph = <<>> /\ \A q \in Procs : stage[q] = "opened" => q = p
    BY <1>1 DEF NothingInvented, OneWriter
  <2>2. graph' = new
    BY <1>1, <2>1, OverlaidLines
  <2>3. \A i \in DOMAIN new : new[i].path \notin Blank
    BY <1>4 DEF Names2
  <2>4. \A q \in Procs : stage'[q] # "opened"
    BY <1>1, <2>1
  <2>5. \A q \in Procs : Saving(q)' => Saving(q)
    BY <1>1 DEF Saving
  <2> QED
    BY <1>1, <2>2, <2>3, <2>4, <2>5 DEF NothingInvented, OneWriter
<1>8. Orderly'
  <2> SUFFICES ASSUME ~disturbed PROVE Orderly'
    BY <1>1 DEF Orderly
  <2>1. /\ path \notin Blank /\ new = Recorded(ledger, path, h) /\ graph = <<>>
        /\ \A q \in Procs : Saving(q) => q = p
        /\ Len(ledger) <= GraphCap
        /\ \A i \in DOMAIN ledger : ledger[i].path \notin Unreadable
    BY <1>1, <1>3 DEF Orderly
  <2>2. graph' = ledger'
    BY <1>1, <2>1, OverlaidLines
  <2>3. \A q \in Procs : ~Saving(q)'
    BY <1>1, <2>1 DEF Saving
  <2>4. Len(ledger') <= GraphCap /\ \A i \in DOMAIN ledger' : ledger'[i].path \notin Unreadable
    <3>1. path \notin Unreadable
      BY <1>1, <2>1, DriverAssumption DEF Unreadable
    <3> QED
      BY <1>1, <2>1, <3>1, RecordedLines DEF Node
  <2> QED
    BY <2>2, <2>3, <2>4 DEF Orderly
<1> QED
  BY <1>5, <1>6, <1>7, <1>8 DEF NothingInvented

\* A command that is killed while it has the file open leaves it disturbed.
LEMMA CrashKeeps ==
  ASSUME DriverTypeOK, NothingInvented, Orderly, NEW p \in Procs, Crash(p)
  PROVE  NothingInvented' /\ Orderly'
<1>1. CASE stage[p] # "opened"
  <2>1. Elsewhere
    BY <1>1 DEF Crash, Return, Goto, DriverTypeOK, Elsewhere
  <2> QED
    BY <2>1, ElsewhereKeeps
<1>2. CASE stage[p] = "opened"
  <2>1. /\ disturbed' /\ UNCHANGED <<graph, ledger, compiled, mixed, task>>
        /\ \A q \in Procs : Saving(q)' => /\ Saving(q) /\ nodes'[q] = nodes[q]
                                           /\ hash'[q] = hash[q] /\ stage'[q] = stage[q]
        /\ \A q \in Procs : stage'[q] = "opened" => Saving(q)'
    BY <1>2 DEF Crash, Return, Goto, DriverTypeOK, Saving
  <2>2. GraphNeverInvents'
    BY <2>1 DEF NothingInvented, GraphNeverInvents
  <2>3. OneWriter'
    BY <2>1 DEF NothingInvented, OneWriter
  <2>4. ASSUME NEW q \in Procs, Saving(q)' PROVE AboutToSave(q)'
    BY <2>1, <2>4 DEF NothingInvented, AboutToSave
  <2> QED
    BY <2>1, <2>2, <2>3, <2>4 DEF NothingInvented, Orderly
<1> QED
  BY <1>1, <1>2

\* Every step keeps what holds of the build graph.
LEMMA GraphStep ==
  DriverTypeOK /\ NothingInvented /\ Orderly /\ [DriverNext]_driverVars =>
    NothingInvented' /\ Orderly'
<1> SUFFICES ASSUME DriverTypeOK, NothingInvented, Orderly, [DriverNext]_driverVars
             PROVE  NothingInvented' /\ Orderly'
  OBVIOUS
<1> USE DEF graphVars
<1>1. CASE UNCHANGED driverVars
  BY <1>1, ElsewhereKeeps DEF driverVars, Elsewhere
<1>2. ASSUME NEW p \in Procs,
             \/ Begin(p) \/ Refuse(p) \/ Read(p) \/ Check(p) \/ Reject(p) \/ Accept(p)
             \/ Link(p) \/ Finish(p)
      PROVE  Elsewhere
  <2>1. CASE Begin(p)
    BY <2>1 DEF Begin, Goto, DriverTypeOK, Elsewhere
  <2>2. CASE Refuse(p)
    BY <2>2 DEF Refuse, UnknownExtension, Return, Goto, DriverTypeOK, Elsewhere
  <2>3. CASE Read(p)
    BY <2>3 DEF Read, Goto, DriverTypeOK, Elsewhere
  <2>4. CASE Check(p) \/ Accept(p)
    BY <2>4 DEF Check, Accept, Goto, DriverTypeOK, Elsewhere
  <2>5. CASE Reject(p) \/ Finish(p)
    BY <2>5 DEF Reject, Finish, Return, Goto, DriverTypeOK, Elsewhere
  <2>6. CASE Link(p)
    BY <2>6 DEF Link, Write, Goto, DriverTypeOK, Elsewhere
  <2> QED
    BY <1>2, <2>1, <2>2, <2>3, <2>4, <2>5, <2>6
<1>3. ASSUME NEW p \in Procs, NEW k \in Outputs,
             OpenOutput(p, k) \/ CloseOutput(p, k) \/ PassOver(p, k)
      PROVE  Elsewhere
  <2>1. /\ UNCHANGED <<graph, ledger, compiled, disturbed, mixed, nodes, task, hash>>
        /\ \E s \in {Within[k], After(k)} : Goto(p, s)
        /\ stage[p] \in {k, Within[k]}
    BY <1>3 DEF OpenOutput, CloseOutput, PassOver, Write
  <2>2. {k, Within[k], After(k)} \cap {"loaded", "opened"} = {}
    BY DEF Within, After, Outputs
  <2> QED
    BY <2>1, <2>2 DEF Goto, DriverTypeOK, Elsewhere
<1> QED
  BY <1>1, <1>2, <1>3, ElsewhereKeeps, LoadGraphKeeps, OpenGraphKeeps,
     OpenGraphFailsKeeps, CloseGraphKeeps, CrashKeeps DEF DriverNext

-----------------------------------------------------------------------------
(* The outputs.                                                            *)

\* What a step does not change of a command leaves it as it is.
LEMMA OthersBuilt ==
  ASSUME NEW q \in Procs, BuiltSoFar(q),
         stage'[q] = stage[q], ok'[q] = ok[q], full'[q] = full[q], exit'[q] = exit[q],
         outputs'[q] = outputs[q], task'[q] = task[q]
  PROVE  BuiltSoFar(q)'
<1>1. \A k \in Outputs \cup task[q].wants : Built(q, k)' <=> Built(q, k)
  BY DEF Built
<1> QED
  BY <1>1 DEF BuiltSoFar

\* A command that gives up before its program is accepted.
LEMMA EarlyReturn ==
  ASSUME DriverTypeOK, BuildsFollow, NEW p \in Procs, stage[p] \in Early,
         NEW reason, NEW code \in {1, 2}, Return(p, code, reason),
         UNCHANGED <<outputs, full>>
  PROVE  BuildsFollow'
<1>1. /\ stage'[p] = "idle" /\ ok'[p] /\ exit'[p] = Exit(code, reason)
      /\ outputs'[p] = [k \in Outputs |-> "untouched"]
  BY DEF Return, Goto, DriverTypeOK, BuildsFollow, BuiltSoFar
<1>2. Exit(code, reason) # Exit(0, "done")
  BY DEF Exit
<1>3. BuiltSoFar(p)'
  BY <1>1, <1>2 DEF BuiltSoFar, Early, Late
<1>4. \A q \in Procs : q # p => BuiltSoFar(q)'
  BY OthersBuilt DEF Return, Goto, DriverTypeOK, BuildsFollow
<1> QED
  BY <1>3, <1>4 DEF BuildsFollow

\* A command that goes on, its outputs untouched.
LEMMA EarlyStep ==
  ASSUME DriverTypeOK, BuildsFollow, NEW p \in Procs, stage[p] \in Early,
         NEW s \in Early \cup {"ir"}, Goto(p, s),
         UNCHANGED <<outputs, full, ok, exit, task>>
  PROVE  BuildsFollow'
<1>1. /\ stage'[p] = s /\ ok'[p] /\ outputs'[p] = [k \in Outputs |-> "untouched"]
      /\ \A q \in Procs : q # p => stage'[q] = stage[q]
  BY DEF Goto, DriverTypeOK, BuildsFollow, BuiltSoFar
<1>2. Past("ir") = {}
  BY DEF Past
<1>3. s \notin {"idle", "in c", "in obj"} /\ (s \in Late => s = "ir")
  BY DEF Early, Late
<1>4. BuiltSoFar(p)'
  BY <1>1, <1>2, <1>3 DEF BuiltSoFar
<1>5. \A q \in Procs : q # p => BuiltSoFar(q)'
  BY <1>1, OthersBuilt DEF BuildsFollow
<1> QED
  BY <1>4, <1>5 DEF BuildsFollow

\* The outputs a command is done with, stage by stage.
LEMMA PastStages ==
  ASSUME NEW k \in Outputs
  PROVE  /\ k \notin Past(k) /\ Past(Within[k]) \subseteq Past(k)
         /\ Past(After(k)) = Past(k) \cup {k}
         /\ Past(k) \subseteq Outputs
<1> USE DEF Past, After, Within, Outputs
<1>1. CASE k = "ir"
  BY <1>1
<1>2. CASE k = "c"
  BY <1>2
<1>3. CASE k = "obj"
  BY <1>3
<1>4. CASE k = "bin"
  BY <1>4
<1> QED
  BY <1>1, <1>2, <1>3, <1>4

\* A command in the middle of its outputs goes on.
LEMMA LateStep ==
  ASSUME DriverTypeOK, BuildsFollow, NEW p \in Procs, NEW s \in Late, Goto(p, s),
         exit' = exit, task' = task,
         \A q \in Procs : q # p => /\ ok'[q] = ok[q] /\ full'[q] = full[q]
                                  /\ outputs'[q] = outputs[q],
         ok'[p] /\ ~full'[p] => \A k \in task[p].wants \cap Past(s) : Built(p, k)',
         s = "in c" => "c" \in task[p].wants,
         s = "in obj" => ok'[p]
  PROVE  BuildsFollow'
<1>1. stage'[p] = s /\ \A q \in Procs : q # p => stage'[q] = stage[q]
  BY DEF Goto, DriverTypeOK
<1>2. s # "idle" /\ s \notin Early
  BY DEF Late, Early
<1>3. BuiltSoFar(p)'
  BY <1>1, <1>2 DEF BuiltSoFar
<1>4. \A q \in Procs : q # p => BuiltSoFar(q)'
  BY <1>1, OthersBuilt DEF BuildsFollow
<1> QED
  BY <1>3, <1>4 DEF BuildsFollow

\* What a write changes.
LEMMA WriteChanges ==
  ASSUME DriverTypeOK, NEW p \in Procs, NEW k \in Outputs, NEW state, NEW result,
         Write(p, k, state, result)
  PROVE  /\ outputs'[p][k] = state /\ ok'[p] = result
         /\ \A j \in Outputs : j # k => outputs'[p][j] = outputs[p][j]
         /\ \A q \in Procs : q # p => ok'[q] = ok[q] /\ outputs'[q] = outputs[q]
         /\ exit' = exit /\ task' = task
BY DEF Write, DriverTypeOK

\* Every step keeps what holds of the outputs.
LEMMA BuildsStep ==
  DriverTypeOK /\ BuildsFollow /\ [DriverNext]_driverVars => BuildsFollow'
<1> SUFFICES ASSUME DriverTypeOK, BuildsFollow, [DriverNext]_driverVars
             PROVE  BuildsFollow'
  OBVIOUS
<1> USE DEF graphVars
<1>1. CASE UNCHANGED driverVars
  BY <1>1, OthersBuilt DEF driverVars, BuildsFollow
<1>2. ASSUME NEW p \in Procs, Begin(p) PROVE BuildsFollow'
  <2>1. /\ stage'[p] = "started" /\ ok'[p] = ok[p] /\ stage[p] = "idle"
        /\ outputs'[p] = [k \in Outputs |-> "untouched"]
    BY <1>2 DEF Begin, Goto, DriverTypeOK
  <2>2. BuiltSoFar(p)'
    BY <2>1 DEF BuiltSoFar, BuildsFollow, Early, Late
  <2>3. \A q \in Procs : q # p => BuiltSoFar(q)'
    BY <1>2, OthersBuilt DEF Begin, Goto, DriverTypeOK, BuildsFollow
  <2> QED
    BY <2>2, <2>3 DEF BuildsFollow
<1>3. ASSUME NEW p \in Procs, Refuse(p) \/ Reject(p) PROVE BuildsFollow'
  <2>1. stage[p] \in Early /\ UNCHANGED <<outputs, full>>
    BY <1>3 DEF Refuse, Reject, Early
  <2>2. \E code \in {1, 2} : \E reason : Return(p, code, reason)
    BY <1>3 DEF Refuse, Reject, UnknownExtension
  <2> QED
    BY <2>1, <2>2, EarlyReturn
<1>4. ASSUME NEW p \in Procs,
             \/ Read(p) \/ LoadGraph(p) \/ OpenGraph(p) \/ OpenGraphFails(p)
             \/ CloseGraph(p) \/ Check(p) \/ Accept(p)
      PROVE  BuildsFollow'
  <2>1. /\ stage[p] \in Early
        /\ \E s \in Early \cup {"ir"} : Goto(p, s)
        /\ UNCHANGED <<outputs, full, ok, exit, task>>
    BY <1>4 DEF Read, LoadGraph, OpenGraph, OpenGraphFails, CloseGraph, Check, Accept, Early
  <2> QED
    BY <2>1, EarlyStep
<1>5. ASSUME NEW p \in Procs, NEW k \in Outputs, OpenOutput(p, k) PROVE BuildsFollow'
  <2>1. /\ stage[p] = k /\ k \in Late /\ full' = full /\ Due(p, k) /\ k # "bin"
        /\ Within[k] \in Late /\ After(k) \in Late \ {"in c", "in obj"}
    BY <1>5, Stages DEF OpenOutput
  <2>2. ok[p] /\ ~full[p] => \A j \in task[p].wants \cap Past(k) : Built(p, j)
    BY <2>1 DEF BuildsFollow, BuiltSoFar
  <2>3. CASE Write(p, k, "cut", ok[p]) /\ Goto(p, Within[k])
    <3>1. \A j \in Past(Within[k]) : j \in Past(k) /\ j \in Outputs /\ j # k
      BY PastStages
    <3>2. /\ ok'[p] = ok[p] /\ task' = task /\ full' = full
          /\ \A j \in Outputs : j # k => outputs'[p][j] = outputs[p][j]
      <4>1. Write(p, k, "cut", ok[p])
        BY <2>3
      <4> QED
        BY <2>1, <4>1 DEF Write, DriverTypeOK
    <3>3. ASSUME ok'[p], ~full'[p], NEW j \in task[p].wants \cap Past(Within[k])
          PROVE  Built(p, j)'
      <4>1. Built(p, j) /\ j \in Outputs /\ j # k
        BY <2>2, <3>1, <3>2, <3>3
      <4> QED
        BY <3>2, <4>1 DEF Built
    <3>4. Within[k] = "in c" => "c" \in task[p].wants
      BY <2>1, Stages DEF Due
    <3>5. Within[k] = "in obj" => ok'[p]
      BY <2>1, <3>2, Stages DEF Due
    <3> QED
      BY <2>1, <2>3, <3>3, <3>4, <3>5, WriteChanges, LateStep
  <2>4. CASE Write(p, k, outputs[p][k], FALSE) /\ Goto(p, After(k))
    BY <2>1, <2>4, WriteChanges, LateStep
  <2> QED
    BY <1>5, <2>3, <2>4 DEF OpenOutput
<1>6. ASSUME NEW p \in Procs, NEW k \in Outputs, CloseOutput(p, k) PROVE BuildsFollow'
  <2>1. PICK state \in {"whole", "cut"} :
          /\ Write(p, k, state, TRUE)
          /\ state = "whole" => full' = full
          /\ state = "cut" => full' = [full EXCEPT ![p] = TRUE]
    BY <1>6 DEF CloseOutput
  <2>2. /\ Goto(p, After(k)) /\ After(k) \in Late \ {"in c", "in obj"} /\ stage[p] = Within[k]
        /\ k # "bin"
    <3>1. stage[p] # "in bin"
      BY DEF DriverTypeOK, Early, Late
    <3>2. stage[p] = Within[k] /\ Within["bin"] = "in bin"
      BY <1>6 DEF CloseOutput, Within
    <3>3. k # "bin"
      BY <3>1, <3>2
    <3> QED
      BY <1>6, <3>2, <3>3, Stages DEF CloseOutput
  <2>3. /\ state = "cut" => full'[p]
        /\ state = "whole" => full'[p] = full[p]
        /\ \A q \in Procs : q # p => full'[q] = full[q]
    BY <2>1 DEF DriverTypeOK
  <2>4. ASSUME ~full'[p], NEW j \in task[p].wants \cap Past(After(k)) PROVE Built(p, j)'
    <3>1. state = "whole" /\ ~full[p] /\ j \in Past(k) \cup {k} /\ j \in Outputs
      BY <2>1, <2>3, <2>4, PastStages
    <3>2. /\ outputs'[p][k] = "whole" /\ task' = task
          /\ \A i \in Outputs : i # k => outputs'[p][i] = outputs[p][i]
      <4>1. Write(p, k, "whole", TRUE)
        BY <2>1, <3>1
      <4> QED
        BY <4>1 DEF Write, DriverTypeOK
    <3>3. CASE j = k
      BY <3>2, <3>3 DEF Built
    <3>4. CASE j # k /\ k = "ir"
      BY <3>1, <3>4 DEF Past
    <3>5. CASE j # k /\ k = "c"
      <4>1. j = "ir"
        BY <3>1, <3>5 DEF Past
      <4>2. "c" \in task[p].wants
        BY <2>2, <3>5 DEF Within, BuildsFollow, BuiltSoFar
      <4> QED
        BY <3>2, <4>1, <4>2 DEF Built
    <3>6. CASE j # k /\ k = "obj"
      <4>1. stage[p] = "in obj" /\ j \in Past("in obj")
        BY <2>2, <3>1, <3>6 DEF Within, Past
      <4>2. ok[p] /\ Built(p, j)
        BY <2>4, <3>1, <4>1 DEF BuildsFollow, BuiltSoFar, Late
      <4> QED
        BY <3>1, <3>2, <3>6, <4>2 DEF Built
    <3> QED
      BY <2>2, <3>3, <3>4, <3>5, <3>6 DEF Outputs
  <2> QED
    BY <2>1, <2>2, <2>3, <2>4, WriteChanges, LateStep
<1>7. ASSUME NEW p \in Procs, Link(p) PROVE BuildsFollow'
  <2>1. /\ stage[p] = "bin" /\ full' = full /\ Goto(p, "end") /\ "end" \in Late
        /\ "bin" \in Outputs /\ ok[p]
    BY <1>7 DEF Link, Due, Late, Outputs
  <2>2. ~full[p] => \A j \in task[p].wants \cap Past("bin") : Built(p, j)
    BY <2>1 DEF BuildsFollow, BuiltSoFar, Late
  <2>3. Past("end") = Past("bin") \cup {"bin"}
    BY DEF Past, Outputs
  <2>4. CASE Write(p, "bin", "whole", TRUE)
    <3>0. /\ outputs'[p].bin = "whole" /\ task' = task
          /\ \A i \in Outputs : i # "bin" => outputs'[p][i] = outputs[p][i]
      BY <2>1, <2>4 DEF Write, DriverTypeOK
    <3>1. ASSUME ~full'[p], NEW j \in task[p].wants \cap Past("end") PROVE Built(p, j)'
      <4>0. ~full[p] /\ j \in task[p].wants
        BY <2>1, <3>1
      <4>1. j \in Past("bin") \/ j = "bin"
        BY <2>3, <3>1, Zenon
      <4>2. j \in Past("bin") => Built(p, j) /\ j \in Outputs /\ j # "bin"
        BY <2>1, <2>2, <4>0, PastStages, Zenon
      <4> QED
        BY <3>0, <4>1, <4>2 DEF Built
    <3> QED
      BY <2>1, <2>4, <3>1, WriteChanges, LateStep
  <2>5. CASE \E left : Write(p, "bin", left, FALSE)
    BY <2>1, <2>5, WriteChanges, LateStep
  <2> QED
    BY <1>7, <2>4, <2>5 DEF Link
<1>8. ASSUME NEW p \in Procs, NEW k \in Outputs, PassOver(p, k) PROVE BuildsFollow'
  <2>1. /\ stage[p] = k /\ k \in Late /\ ~Due(p, k) /\ Goto(p, After(k))
        /\ After(k) \in Late \ {"in c", "in obj"}
        /\ UNCHANGED <<outputs, ok, full, exit, task>>
    BY <1>8, Stages DEF PassOver, Late
  <2>2. ASSUME ok[p], ~full[p], NEW j \in task[p].wants \cap Past(After(k)) PROVE Built(p, j)
    <3>1. j \in Past(k) \cup {k}
      BY <2>2, PastStages
    <3>2. j \in Past(k) => Built(p, j)
      BY <2>1, <2>2 DEF BuildsFollow, BuiltSoFar
    <3>3. j = k => Built(p, j)
      BY <2>1, <2>2 DEF Due, Built
    <3> QED
      BY <3>1, <3>2, <3>3
  <2> QED
    BY <2>1, <2>2, LateStep DEF Built
<1>9. ASSUME NEW p \in Procs, Finish(p) PROVE BuildsFollow'
  <2>1. /\ stage[p] = "end" /\ UNCHANGED <<outputs, full, task>>
        /\ Return(p, IF ok[p] THEN 0 ELSE 1, "done")
    BY <1>9 DEF Finish, Return
  <2>2. task[p].wants \subseteq Past("end")
    BY <2>1, TaskParts DEF DriverTypeOK, Past
  <2>3. ok[p] /\ ~full[p] => \A k \in task[p].wants : Built(p, k)
    BY <2>1, <2>2 DEF BuildsFollow, BuiltSoFar, Late
  <2>4. /\ stage'[p] = "idle" /\ ok'[p] /\ exit'[p] = Exit(IF ok[p] THEN 0 ELSE 1, "done")
        /\ \A q \in Procs : q # p => /\ stage'[q] = stage[q] /\ ok'[q] = ok[q]
                                     /\ exit'[q] = exit[q]
    BY <2>1 DEF Return, Goto, DriverTypeOK
  <2>5. exit'[p] = Exit(0, "done") => ok[p]
    BY <2>4 DEF Exit
  <2>6. exit'[p].reason = "done"
    BY <2>4 DEF Exit
  <2>7. BuiltSoFar(p)'
    BY <2>1, <2>3, <2>4, <2>5, <2>6 DEF BuiltSoFar, Built, Early, Late
  <2>8. \A q \in Procs : q # p => BuiltSoFar(q)'
    BY <2>1, <2>4, OthersBuilt DEF BuildsFollow
  <2> QED
    BY <2>7, <2>8 DEF BuildsFollow
<1>10. ASSUME NEW p \in Procs, Crash(p) PROVE BuildsFollow'
  <2>1. /\ stage'[p] = "idle" /\ ok'[p] /\ exit'[p] = Exit(137, "killed")
        /\ UNCHANGED task
        /\ \A q \in Procs : q # p => /\ stage'[q] = stage[q] /\ ok'[q] = ok[q]
                                     /\ exit'[q] = exit[q] /\ full'[q] = full[q]
                                     /\ outputs'[q] = outputs[q]
    BY <1>10 DEF Crash, Return, Goto, DriverTypeOK
  <2>2. Exit(137, "killed") # Exit(0, "done") /\ Exit(137, "killed").reason = "killed"
    BY DEF Exit
  <2>3. BuiltSoFar(p)'
    BY <2>1, <2>2 DEF BuiltSoFar, Early, Late
  <2>4. \A q \in Procs : q # p => BuiltSoFar(q)'
    BY <2>1, OthersBuilt DEF BuildsFollow
  <2> QED
    BY <2>3, <2>4 DEF BuildsFollow
<1> QED
  BY <1>1, <1>2, <1>3, <1>4, <1>5, <1>6, <1>7, <1>8, <1>9, <1>10 DEF DriverNext

-----------------------------------------------------------------------------
(* Theorems.                                                               *)

\* The invariant is inductive.
LEMMA DriverStep == DriverInv /\ [DriverNext]_driverVars => DriverInv'
BY DriverTypesStep, GraphStep, BuildsStep DEF DriverInv

\* What the three theorems below rest on.
THEOREM DriverInvariant == DriverSpec => []DriverInv
<1>1. DriverInit => DriverInv
  BY DriverInitInvariant
<1>2. DriverInv /\ [DriverNext]_driverVars => DriverInv'
  BY DriverStep
<1> QED
  BY <1>1, <1>2, PTL DEF DriverSpec

\* However many commands overlap, whatever the size of the graph and wherever
\* they are killed, no line of the build graph (build_graph.c) has a hash its
\* input never had or counts builds that were not made.
THEOREM GraphNeverInventsAlways == DriverSpec => []GraphNeverInvents
<1>1. DriverInv => GraphNeverInvents
  BY DEF DriverInv, NothingInvented
<1> QED
  BY <1>1, DriverInvariant, PTL

\* As long as nothing comes between a load and its save, the file is what the
\* commands would have left one after the other.
THEOREM GraphIsExactAlways == DriverSpec => []GraphIsExact
<1>1. DriverInv => GraphIsExact
  BY DEF DriverInv, Orderly, GraphIsExact
<1> QED
  BY <1>1, DriverInvariant, PTL

\* The exit status of main (driver/main.c) never reports outputs that were not
\* written, but for a full disk and the two exceptions the property names, and
\* a command that rejects its input has touched none of them.
THEOREM SuccessMeansBuiltAlways == DriverSpec => []SuccessMeansBuilt
<1>1. DriverInv => SuccessMeansBuilt
  BY DEF DriverInv, BuildsFollow, BuiltSoFar, Built, SuccessMeansBuilt
<1> QED
  BY <1>1, DriverInvariant, PTL

-----------------------------------------------------------------------------
(* What the parser makes of a program.                                     *)

Items == [kind : Forms, named : BOOLEAN, attrs : BOOLEAN, generic : BOOLEAN,
          async : BOOLEAN, where : BOOLEAN, generator : BOOLEAN, coroutine : BOOLEAN,
          contract : BOOLEAN, invariant : BOOLEAN, proc : BOOLEAN]

Ats == {"item", "semi", "brace", "arrow", "end"}

Asts == [items : Seq(Items), error : BOOLEAN, at : Ats]

NoItems == [items |-> <<>>, error |-> FALSE, at |-> "item"]

\* A chunk that begins an item has the fields of one.
LEMMA ItemType ==
  ASSUME NEW c \in Chunks
  PROVE  Item(c) \in Items
BY Zenon DEF Item, Items, Chunks

\* What a where clause that follows may make of an item.
WithWhere(x) == [x EXCEPT !.where = TRUE]

\* The items of s, the last one perhaps with the where clause of another.
LastWhere(s) == [s EXCEPT ![Len(s)].where = TRUE]

LEMMA LastWhereType ==
  ASSUME NEW s \in Seq(Items)
  PROVE  /\ LastWhere(s) \in Seq(Items)
         /\ \A i \in DOMAIN LastWhere(s) : i \in DOMAIN s /\ LastWhere(s)[i] \in {s[i], WithWhere(s[i])}
<1>1. \A i \in DOMAIN s : s[i] \in Items /\ WithWhere(s[i]) \in Items
  <2>1. \A x \in Items : WithWhere(x) \in Items
    BY DEF Items, WithWhere
  <2> QED
    BY <2>1
<1>2. LastWhere(s) = [i \in DOMAIN s |-> IF i = Len(s) THEN WithWhere(s[i]) ELSE s[i]]
  BY DEF LastWhere, WithWhere
<1>3. DOMAIN s = 1 .. Len(s) /\ Len(s) \in Nat
  OBVIOUS
<1> QED
  BY <1>1, <1>2, <1>3

\* The parser goes on in one of its ways.
LEMMA FoundType ==
  ASSUME NEW c \in Chunks, NEW sought \in {"semi", "brace", "arrow", "body"}
  PROVE  /\ Found(sought, c.ends) \in Ats /\ Midway(sought, c.ends) \in BOOLEAN
         /\ Sought(c) \in {"semi", "brace", "arrow", "body"}
         /\ EndsByItself(c) => Found(Sought(c), c.ends) = "item" /\ ~Midway(Sought(c), c.ends)
<1>1. /\ c.ends \in {"semi", "body", "empty", "bare", "open", "eof"} /\ c.form \in Forms
      /\ c.arrow \in BOOLEAN /\ c.where \in BOOLEAN
  BY DEF Chunks
<1>2. Found(sought, c.ends) \in Ats /\ Midway(sought, c.ends) \in BOOLEAN
  BY <1>1 DEF Found, Midway, Ats
<1>3. Sought(c) \in {"semi", "brace", "arrow", "body"}
  BY <1>1 DEF Sought
<1>4. ASSUME EndsByItself(c)
      PROVE  Found(Sought(c), c.ends) = "item" /\ ~Midway(Sought(c), c.ends)
  <2>1. CASE c.ends = "semi"
    BY <2>1 DEF Found, Midway
  <2>2. CASE c.ends \in {"body", "empty"} /\ c.form = "fn"
    <3>1. Sought(c) \in {"brace", "arrow", "body"}
      BY <1>1, <2>2 DEF Sought
    <3> QED
      BY <2>2, <3>1 DEF Found, Midway
  <2>3. CASE c.ends \in {"body", "empty"} /\ c.form \in {"struct", "enum"} /\ ~c.arrow /\ ~c.where
    <3>1. Sought(c) = "body"
      BY <2>3 DEF Sought
    <3> QED
      BY <2>3, <3>1 DEF Found, Midway
  <2> QED
    BY <1>4, <2>1, <2>2, <2>3 DEF EndsByItself
<1> QED
  BY <1>2, <1>3, <1>4

\* One turn of the loop: it keeps the items, adds the one that begins here or
\* gives the last one a where clause.
LEMMA TakeType ==
  ASSUME NEW ast \in Asts, NEW c \in Chunks
  PROVE  /\ Take(ast, c) \in Asts
         /\ Take(ast, c).items \in {ast.items, Append(ast.items, Item(c)), LastWhere(ast.items)}
         /\ ast.at = "item" /\ EndsByItself(c)
              => Take(ast, c) = [ast EXCEPT !.items = Append(@, Item(c))]
<1>1. /\ ast.items \in Seq(Items) /\ ast.error \in BOOLEAN
      /\ ast.at \in Ats /\ DOMAIN ast = {"items", "error", "at"}
  BY DEF Asts
<1>2. Append(ast.items, Item(c)) \in Seq(Items) /\ LastWhere(ast.items) \in Seq(Items)
  BY <1>1, ItemType, LastWhereType
<1>3. CASE ast.at = "end"
  BY <1>1, <1>3 DEF Take
<1>4. CASE ast.at \in {"semi", "brace", "arrow"}
  <2> DEFINE taken == ast.at = "arrow" /\ c.where
             sought == IF taken THEN "brace" ELSE ast.at
             items == IF taken THEN LastWhere(ast.items) ELSE ast.items
  <2>1. Found(sought, c.ends) \in Ats /\ Midway(sought, c.ends) \in BOOLEAN
    BY <1>4, FoundType
  <2>2. items \in Seq(Items) /\ items \in {ast.items, LastWhere(ast.items)}
    BY <1>1, <1>2
  <2>3. Take(ast, c) = [ast EXCEPT !.items = items, !.at = Found(sought, c.ends),
                                   !.error = ast.error \/ Midway(sought, c.ends)]
    BY <1>4, Zenon DEF Take, LastWhere
  <2> HIDE DEF items, sought
  <2> QED
    BY <1>1, <1>4, <2>1, <2>2, <2>3 DEF Asts
<1>5. CASE ast.at = "item" /\ c.form = "junk"
  <2>1. Take(ast, c) \in {[ast EXCEPT !.at = "end"], [ast EXCEPT !.error = TRUE]}
    BY <1>5 DEF Take
  <2> QED
    BY <1>1, <1>5, <2>1 DEF Asts, Ats, EndsByItself
<1>6. CASE ast.at = "item" /\ c.form # "junk"
  <2> DEFINE at == Found(Sought(c), c.ends)  midway == Midway(Sought(c), c.ends)
             items == Append(ast.items, Item(c))
  <2>1. at \in Ats /\ midway \in BOOLEAN /\ (EndsByItself(c) => at = "item" /\ ~midway)
    BY FoundType
  <2>2. Take(ast, c) = [ast EXCEPT !.items = items, !.at = at, !.error = ast.error \/ midway]
    BY <1>6, Zenon DEF Take
  <2> HIDE DEF at, midway
  <2>3. items \in Seq(Items)
    BY <1>2
  <2> HIDE DEF items
  <2>4. Take(ast, c) \in Asts /\ Take(ast, c).items = items
    BY <1>1, <2>1, <2>2, <2>3 DEF Asts
  <2>5. ASSUME EndsByItself(c) PROVE Take(ast, c) = [ast EXCEPT !.items = items]
    <3>1. at = ast.at /\ ~midway
      BY <1>6, <2>1, <2>5
    <3>2. (ast.error \/ midway) = ast.error
      BY <1>1, <3>1
    <3>3. Take(ast, c) = [ast EXCEPT !.items = items, !.at = ast.at, !.error = ast.error]
      BY <2>2, <3>1, <3>2, Zenon
    <3>4. [ast EXCEPT !.items = items, !.at = ast.at, !.error = ast.error]
            = [ast EXCEPT !.items = items]
      BY <1>1 DEF Asts
    <3> QED
      BY <3>3, <3>4, Zenon
  <2> QED
    BY <2>4, <2>5 DEF items
<1> QED
  BY <1>1, <1>3, <1>4, <1>5, <1>6 DEF Ats

\* asts[i] is what a1_parse_module has after i chunks.
ParseRuns(asts, chunks) ==
  /\ asts \in [0 .. Len(chunks) -> Asts] /\ asts[0] = NoItems
  /\ \A i \in 1 .. Len(chunks) : asts[i] = Take(asts[i - 1], chunks[i])

\* Parsed is the last of them.
LEMMA ParsedRuns ==
  ASSUME NEW g \in SourceTexts
  PROVE  \E asts : ParseRuns(asts, g.chunks) /\ Parsed(g) = asts[Len(g.chunks)]
<1> DEFINE chunks == g.chunks
           F == [i \in 1 .. Len(chunks) |-> [ast \in Asts |-> Take(ast, chunks[i])]]
           Is(it) == it = [s \in SUBSET (DOMAIN chunks) |->
                            IF s = {} THEN NoItems
                            ELSE Take(it[s \ {Max(s)}], chunks[Max(s)])]
           it == CHOOSE h : Is(h)
<1>1. /\ chunks \in Seq(Chunks) /\ Len(chunks) \in Nat /\ DOMAIN chunks = 1 .. Len(chunks)
      /\ NoItems \in Asts
  BY DEF SourceTexts, Asts, Ats, NoItems
<1>2. Parsed(g) = it[DOMAIN chunks]
  BY DEF Parsed, FoldLeft, MapThenFoldSet, NoItems
<1> HIDE DEF chunks
<1>3. F \in [1 .. Len(chunks) -> [Asts -> Asts]]
  BY <1>1, TakeType
<1>4. PICK h : Descends(h, Len(chunks), Asts, NoItems, F)
  <2> HIDE DEF F
  <2> QED
    BY <1>1, <1>3, Descent
<1>5. Is(h)
  <2>1. h \in [SUBSET (1 .. Len(chunks)) -> Asts] /\ h[{}] = NoItems
    BY <1>4 DEF Descends
  <2>2. ASSUME NEW s \in SUBSET (1 .. Len(chunks)), s # {}
        PROVE  h[s] = Take(h[s \ {Max(s)}], chunks[Max(s)])
    <3>1. h[s] = F[Max(s)][h[s \ {Max(s)}]]
      BY <1>4, <2>2, Zenon DEF Descends
    <3>2. Max(s) \in 1 .. Len(chunks)
      BY <1>1, <2>2, LastOne
    <3>3. h[s \ {Max(s)}] \in Asts
      <4>1. s \ {Max(s)} \in SUBSET (1 .. Len(chunks))
        OBVIOUS
      <4> QED
        BY <2>1, <4>1
    <3> QED
      BY <3>1, <3>2, <3>3
  <2> QED
    BY <1>1, <2>1, <2>2
<1>6. Is(it)
  <2> HIDE DEF Is
  <2> QED
    BY <1>5, Zenon
<1> HIDE DEF it
<1>7. it[{}] = NoItems
  BY <1>1, <1>6
<1>8. ASSUME NEW i \in 1 .. Len(chunks)
      PROVE  it[1 .. i] = Take(it[1 .. i - 1], chunks[i])
  <2>1. i \in 1 .. i /\ 1 .. i \in SUBSET (DOMAIN chunks) /\ i \in Nat
    BY <1>1
  <2>2. 1 .. i # {}
    BY <2>1
  <2>3. Max(1 .. i) = i /\ (1 .. i) \ {i} = 1 .. i - 1
    BY <2>1, LastPlace
  <2>4. it[1 .. i] = Take(it[(1 .. i) \ {Max(1 .. i)}], chunks[Max(1 .. i)])
    BY <1>6, <2>1, <2>2, Zenon
  <2> QED
    BY <2>3, <2>4
<1> DEFINE asts == [i \in 0 .. Len(chunks) |-> it[1 .. i]]
<1>9. asts[0] = NoItems
  BY <1>1, <1>7, 1 .. 0 = {}
<1>10. ASSUME NEW i \in 1 .. Len(chunks)
       PROVE  asts[i] = Take(asts[i - 1], chunks[i])
  BY <1>8
<1>11. asts \in [0 .. Len(chunks) -> Asts]
  <2> DEFINE P == {i \in 0 .. Len(chunks) : asts[i] \in Asts}
  <2>1. 0 \in P
    BY <1>1, <1>9
  <2>2. ASSUME NEW i \in 1 .. Len(chunks), i - 1 \in P
        PROVE  i \in P
    <3>1. asts[i - 1] \in Asts /\ chunks[i] \in Chunks
      BY <1>1, <2>2
    <3> HIDE DEF asts
    <3>2. asts[i] \in Asts
      BY <1>10, <3>1, TakeType
    <3> QED
      BY <3>2
  <2>3. 0 .. Len(chunks) \subseteq P
    <3> HIDE DEF P
    <3> QED
      BY <1>1, <2>1, <2>2, UpTo
  <2> QED
    BY <2>3
<1>12. asts[Len(chunks)] = it[DOMAIN chunks]
  BY <1>1
<1> HIDE DEF asts
<1>13. ParseRuns(asts, chunks)
  BY <1>9, <1>10, <1>11 DEF ParseRuns
<1> QED
  BY <1>2, <1>12, <1>13 DEF chunks

\* The items the chunks begin, some perhaps with the where clause of another.
ItemsOf(chunks) == UNION {{Item(c), WithWhere(Item(c))} : c \in Range(chunks)}

\* All items that were parsed are items of chunks; where each chunk ends by
\* itself, each one is parsed and nothing is reported.
LEMMA ParsedItems ==
  ASSUME NEW g \in SourceTexts
  PROVE  /\ Parsed(g) \in Asts
         /\ Range(Parsed(g).items) \subseteq ItemsOf(g.chunks)
         /\ (\A c \in Range(g.chunks) : EndsByItself(c)) =>
              /\ ~Parsed(g).error /\ Len(Parsed(g).items) = Len(g.chunks)
              /\ Range(Parsed(g).items) = {Item(c) : c \in Range(g.chunks)}
<1> DEFINE chunks == g.chunks
<1>1. PICK asts : ParseRuns(asts, chunks) /\ Parsed(g) = asts[Len(chunks)]
  BY ParsedRuns
<1>2. /\ chunks \in Seq(Chunks) /\ Len(chunks) \in Nat /\ DOMAIN chunks = 1 .. Len(chunks)
      /\ \A i \in 1 .. Len(chunks) : chunks[i] \in Chunks /\ chunks[i] \in Range(chunks)
  BY DEF SourceTexts, Range
<1> HIDE DEF chunks
<1>3. ASSUME NEW i \in 1 .. Len(chunks)
      PROVE  /\ asts[i - 1] \in Asts /\ asts[i] \in Asts
             /\ asts[i].items \in {asts[i - 1].items, Append(asts[i - 1].items, Item(chunks[i])),
                                   LastWhere(asts[i - 1].items)}
             /\ asts[i - 1].at = "item" /\ EndsByItself(chunks[i])
                  => asts[i] = [asts[i - 1] EXCEPT !.items = Append(@, Item(chunks[i]))]
  <2>1. asts[i - 1] \in Asts /\ chunks[i] \in Chunks /\ asts[i] \in Asts
    <3>1. i - 1 \in 0 .. Len(chunks) /\ i \in 0 .. Len(chunks)
      BY <1>2
    <3> QED
      BY <1>1, <1>2, <3>1 DEF ParseRuns
  <2>2. asts[i] = Take(asts[i - 1], chunks[i])
    BY <1>1 DEF ParseRuns
  <2> QED
    BY <2>1, <2>2, TakeType
<1>4. \A ast \in Asts : ast.items \in Seq(Items) /\ DOMAIN ast = {"items", "error", "at"}
  BY DEF Asts
<1>5. ASSUME NEW s \in Seq(Items), NEW c \in Chunks
      PROVE  /\ Range(Append(s, Item(c))) = Range(s) \cup {Item(c)}
             /\ Len(Append(s, Item(c))) = Len(s) + 1
  <2> DEFINE x == Item(c)
  <2>1. x \in Items
    BY ItemType
  <2> HIDE DEF x
  <2>2. Len(Append(s, x)) = Len(s) + 1
    BY <2>1
  <2>3. /\ DOMAIN Append(s, x) = 1 .. Len(s) + 1 /\ DOMAIN s = 1 .. Len(s)
        /\ Append(s, x)[Len(s) + 1] = x /\ \A i \in 1 .. Len(s) : Append(s, x)[i] = s[i]
        /\ Len(s) \in Nat
    BY <2>1
  <2>4. Range(Append(s, x)) = Range(s) \cup {x}
    BY <2>3 DEF Range
  <2> QED
    BY <2>2, <2>4 DEF x
<1>6. Range(asts[Len(chunks)].items) \subseteq ItemsOf(chunks)
  <2> DEFINE P == {i \in 0 .. Len(chunks) : Range(asts[i].items) \subseteq ItemsOf(chunks)}
  <2>0. /\ \A c \in Range(chunks) : Item(c) \in ItemsOf(chunks)
        /\ \A x \in ItemsOf(chunks) : WithWhere(x) \in ItemsOf(chunks)
    <3>1. \A c \in Range(chunks) : {Item(c), WithWhere(Item(c))} \subseteq ItemsOf(chunks)
      BY DEF ItemsOf
    <3>2. ASSUME NEW x \in ItemsOf(chunks) PROVE WithWhere(x) \in ItemsOf(chunks)
      <4>1. PICK c \in Range(chunks) : x \in {Item(c), WithWhere(Item(c))}
        BY DEF ItemsOf
      <4>2. Item(c) \in Items
        BY <1>2, ItemType DEF Range
      <4>3. WithWhere(WithWhere(Item(c))) = WithWhere(Item(c))
        BY <4>2 DEF WithWhere, Items
      <4> QED
        BY <3>1, <4>1, <4>3
    <3> QED
      BY <3>1, <3>2
  <2>1. 0 \in P
    BY <1>1, <1>2 DEF ParseRuns, NoItems, Range
  <2>2. ASSUME NEW i \in 1 .. Len(chunks), i - 1 \in P
        PROVE  i \in P
    <3> DEFINE s == asts[i - 1].items
    <3>1. s \in Seq(Items) /\ chunks[i] \in Chunks /\ chunks[i] \in Range(chunks)
      BY <1>2, <1>3, <1>4
    <3>2. asts[i].items \in {s, Append(s, Item(chunks[i])), LastWhere(s)}
      BY <1>3
    <3>3. Range(s) \subseteq ItemsOf(chunks)
      BY <2>2
    <3> HIDE DEF s
    <3>4. Range(Append(s, Item(chunks[i]))) = Range(s) \cup {Item(chunks[i])}
      BY <1>5, <3>1
    <3>5. Range(LastWhere(s)) \subseteq Range(s) \cup {WithWhere(x) : x \in Range(s)}
      <4>1. \A j \in DOMAIN LastWhere(s) : j \in DOMAIN s /\ LastWhere(s)[j] \in {s[j], WithWhere(s[j])}
        BY <3>1, LastWhereType
      <4> QED
        BY <4>1 DEF Range
    <3>6. Range(asts[i].items) \subseteq ItemsOf(chunks)
      BY <2>0, <3>1, <3>2, <3>3, <3>4, <3>5
    <3> QED
      BY <3>6
  <2>3. 0 .. Len(chunks) \subseteq P
    <3> HIDE DEF P
    <3> QED
      BY <1>2, <2>1, <2>2, UpTo
  <2>4. Len(chunks) \in 0 .. Len(chunks)
    BY <1>2
  <2> QED
    BY <2>3, <2>4, Zenon
<1>7. ASSUME \A c \in Range(chunks) : EndsByItself(c)
      PROVE  LET ast == asts[Len(chunks)] IN
             /\ ~ast.error /\ Len(ast.items) = Len(chunks)
             /\ Range(ast.items) = {Item(c) : c \in Range(chunks)}
  <2> DEFINE Done(i) == /\ ~asts[i].error /\ asts[i].at = "item"
                        /\ Len(asts[i].items) = i
                        /\ \A j \in 1 .. i : Item(chunks[j]) \in Range(asts[i].items)
             P == {i \in 0 .. Len(chunks) : Done(i)}
  <2>1. 0 \in P
    BY <1>1, <1>2 DEF ParseRuns, NoItems
  <2>2. ASSUME NEW i \in 1 .. Len(chunks), i - 1 \in P
        PROVE  i \in P
    <3> DEFINE s == asts[i - 1].items  x == Item(chunks[i])
    <3>1. s \in Seq(Items) /\ chunks[i] \in Chunks /\ EndsByItself(chunks[i])
      BY <1>2, <1>3, <1>4, <1>7
    <3>2. Done(i - 1)
      BY <2>2
    <3>3. asts[i] = [asts[i - 1] EXCEPT !.items = Append(@, x)]
      BY <1>3, <3>1, <3>2
    <3>4. asts[i].items = Append(s, x) /\ asts[i].error = asts[i - 1].error /\ asts[i].at = asts[i - 1].at
      BY <1>3, <1>4, <3>3
    <3>5. Range(Append(s, x)) = Range(s) \cup {x} /\ Len(Append(s, x)) = Len(s) + 1
      BY <1>5, <3>1
    <3>6. Len(asts[i].items) = i
      BY <3>2, <3>4, <3>5
    <3>7. ASSUME NEW j \in 1 .. i
          PROVE  Item(chunks[j]) \in Range(asts[i].items)
      <4>1. j = i \/ j \in 1 .. i - 1
        OBVIOUS
      <4>2. CASE j = i
        BY <3>4, <3>5, <4>2
      <4>3. CASE j \in 1 .. i - 1
        BY <3>2, <3>4, <3>5, <4>3
      <4> QED
        BY <4>1, <4>2, <4>3
    <3>8. Done(i)
      BY <3>2, <3>4, <3>6, <3>7
    <3> HIDE DEF Done
    <3> QED
      BY <3>8
  <2>3. Done(Len(chunks))
    <3> HIDE DEF Done
    <3>1. \A i \in 1 .. Len(chunks) : i - 1 \in P => i \in P
      BY <2>2
    <3>2. 0 .. Len(chunks) \subseteq P
      <4> HIDE DEF P
      <4> QED
        BY <1>2, <2>1, <3>1, UpTo
    <3> QED
      BY <1>2, <3>2
  <2>4. ASSUME NEW c \in Range(chunks)
        PROVE  Item(c) \in Range(asts[Len(chunks)].items)
    <3>1. PICK j \in 1 .. Len(chunks) : c = chunks[j]
      BY <1>2 DEF Range
    <3> QED
      BY <2>3, <3>1
  <2>5. Range(asts[Len(chunks)].items) \subseteq {Item(c) : c \in Range(chunks)}
    <3> DEFINE O == {i \in 0 .. Len(chunks) :
                       /\ asts[i].at = "item"
                       /\ Range(asts[i].items) \subseteq {Item(c) : c \in Range(chunks)}}
    <3>1. 0 \in O
      BY <1>1, <1>2 DEF ParseRuns, NoItems, Range
    <3>2. ASSUME NEW i \in 1 .. Len(chunks), i - 1 \in O
          PROVE  i \in O
      <4> DEFINE s == asts[i - 1].items  x == Item(chunks[i])
      <4>1. /\ s \in Seq(Items) /\ chunks[i] \in Chunks /\ EndsByItself(chunks[i])
            /\ chunks[i] \in Range(chunks) /\ asts[i - 1].at = "item"
        BY <1>2, <1>3, <1>4, <1>7, <3>2
      <4>2. asts[i] = [asts[i - 1] EXCEPT !.items = Append(@, x)]
        BY <1>3, <4>1
      <4>3. asts[i].items = Append(s, x) /\ asts[i].at = asts[i - 1].at
        BY <1>3, <1>4, <4>2
      <4>4. Range(Append(s, x)) = Range(s) \cup {x}
        BY <1>5, <4>1
      <4>5. Range(s) \subseteq {Item(d) : d \in Range(chunks)}
        BY <3>2
      <4>6. x \in {Item(d) : d \in Range(chunks)}
        BY <4>1
      <4> HIDE DEF s, x
      <4>7. Range(asts[i].items) \subseteq {Item(d) : d \in Range(chunks)}
        BY <4>3, <4>4, <4>5, <4>6
      <4>8. asts[i].at = "item" /\ i \in 0 .. Len(chunks)
        BY <1>2, <4>1, <4>3
      <4> QED
        BY <4>7, <4>8
    <3>3. 0 .. Len(chunks) \subseteq O
      <4> HIDE DEF O
      <4> QED
        BY <1>2, <3>1, <3>2, UpTo
    <3>4. Len(chunks) \in 0 .. Len(chunks)
      BY <1>2
    <3> QED
      BY <3>3, <3>4
  <2> QED
    BY <2>3, <2>4, <2>5
<1>8. asts[Len(chunks)] \in Asts
  BY <1>1, <1>2 DEF ParseRuns
<1> QED
  BY <1>1, <1>6, <1>7, <1>8 DEF chunks

-----------------------------------------------------------------------------
(* The IR, and what the gates look at.                                     *)

IrFns == [kind : {"fn", "struct", "enum"}, named : BOOLEAN, async : BOOLEAN,
          contract : BOOLEAN, enabled : BOOLEAN, protected : BOOLEAN]

Runtime(items) == {x \in Range(items) : x.kind \in {"fn", "struct", "enum"}}

Entry(x) == [kind |-> x.kind, named |-> x.named, async |-> x.async, contract |-> x.contract,
             enabled |-> ~x.attrs, protected |-> FALSE]

\* a1_ir_lower has an entry for each item with code, and no others.
LEMMA LoweredItems ==
  ASSUME NEW items \in Seq(Items)
  PROVE  /\ Lowered(items) \in Seq(IrFns)
         /\ Range(Lowered(items)) = {Entry(x) : x \in Runtime(items)}
<1> DEFINE runtime == Only(items, Runtime(items))
<1>1. runtime \in Seq(Items) /\ Range(runtime) = Runtime(items)
  <2>1. Range(items) \cap Runtime(items) = Runtime(items)
    BY DEF Runtime
  <2> QED
    BY <2>1, OnlyKeeps
<1>2. Lowered(items) = [i \in DOMAIN runtime |-> Entry(runtime[i])]
  BY Zenon DEF Lowered, Runtime, Entry
<1> HIDE DEF runtime
<1>3. \A x \in Items : x.kind \in {"fn", "struct", "enum"} => Entry(x) \in IrFns
  BY DEF Items, IrFns, Entry
<1>4. ASSUME NEW i \in DOMAIN runtime
      PROVE  Entry(runtime[i]) \in IrFns
  <2>1. runtime[i] \in Items /\ runtime[i] \in Runtime(items)
    BY <1>1 DEF Range
  <2> QED
    BY <1>3, <2>1 DEF Runtime
<1>5. DOMAIN runtime = 1 .. Len(runtime) /\ Len(runtime) \in Nat
  BY <1>1
<1>6. Lowered(items) \in Seq(IrFns)
  <2> DEFINE e == [i \in 1 .. Len(runtime) |-> Entry(runtime[i])]
  <2>1. \A i \in 1 .. Len(runtime) : Entry(runtime[i]) \in IrFns
    BY <1>4, <1>5
  <2>2. e \in Seq(IrFns)
    BY <1>5, <2>1
  <2> QED
    BY <1>2, <1>5, <2>2, Zenon
<1>7. Range(Lowered(items)) = {Entry(x) : x \in Range(runtime)}
  BY <1>2, Zenon DEF Range
<1> QED
  BY <1>1, <1>6, <1>7

\* a1_ir_apply_protection_passes only sets flags, of the entries that are on.
LEMMA ProtectedFns ==
  ASSUME NEW fns \in Seq(IrFns), NEW on \in BOOLEAN
  PROVE  /\ Protected(fns, on) \in Seq(IrFns)
         /\ \A fn \in Range(Protected(fns, on)) : fn.protected <=> on /\ fn.enabled
         /\ \A fn \in Range(fns) : \E pfn \in Range(Protected(fns, on)) : pfn.kind = fn.kind
<1> DEFINE set == Protected(fns, on)
<1>0. DOMAIN fns = 1 .. Len(fns) /\ Len(fns) \in Nat
  OBVIOUS
<1>1. set = [i \in 1 .. Len(fns) |-> [fns[i] EXCEPT !.protected = on /\ fns[i].enabled]]
  BY <1>0, Zenon DEF Protected
<1>2. ASSUME NEW i \in 1 .. Len(fns)
      PROVE  /\ [fns[i] EXCEPT !.protected = on /\ fns[i].enabled] \in IrFns
             /\ set[i].protected <=> on /\ set[i].enabled
             /\ set[i].kind = fns[i].kind
  <2>1. fns[i] \in IrFns
    OBVIOUS
  <2>2. fns[i].enabled \in BOOLEAN /\ DOMAIN fns[i] = {"kind", "named", "async", "contract", "enabled", "protected"}
    BY <2>1 DEF IrFns
  <2>3. set[i] = [fns[i] EXCEPT !.protected = on /\ fns[i].enabled]
    BY <1>1
  <2> HIDE DEF set
  <2> QED
    BY <2>1, <2>2, <2>3 DEF IrFns
<1> HIDE DEF set
<1>3. set \in Seq(IrFns)
  <2>1. \A i \in 1 .. Len(fns) : [fns[i] EXCEPT !.protected = on /\ fns[i].enabled] \in IrFns
    BY <1>2
  <2> QED
    BY <1>0, <1>1, <2>1
<1>4. DOMAIN set = DOMAIN fns
  BY <1>0, <1>1
<1>5. \A fn \in Range(set) : fn.protected <=> on /\ fn.enabled
  BY <1>0, <1>2, <1>4 DEF Range
<1>6. ASSUME NEW fn \in Range(fns)
      PROVE  \E pfn \in Range(set) : pfn.kind = fn.kind
  <2>1. PICK i \in 1 .. Len(fns) : fn = fns[i]
    BY <1>0 DEF Range
  <2>2. set[i] \in Range(set)
    BY <1>0, <1>4 DEF Range
  <2> QED
    BY <1>2, <2>1, <2>2
<1> QED
  BY <1>3, <1>5, <1>6 DEF set

\* What is written out as C is what is enabled; the object has the functions.
LEMMA WrittenOut ==
  ASSUME NEW fns \in Seq(IrFns)
  PROVE  /\ \A fn \in Range(fns) : fn \in Range(EmittedC(fns)) <=> fn.enabled
         /\ (\E fn \in Range(fns) : fn.kind = "fn") => Assembled(fns) # <<>>
<1>1. Range(EmittedC(fns)) = Range(fns) \cap {fn \in Range(fns) : fn.enabled}
  BY OnlyKeeps DEF EmittedC
<1>2. /\ Range(Assembled(fns)) = Range(fns) \cap {fn \in Range(fns) : fn.kind = "fn"}
      /\ Assembled(fns) \in Seq(IrFns)
  BY OnlyKeeps DEF Assembled
<1>3. Range(<<>>) = {}
  BY DEF Range
<1> QED
  BY <1>1, <1>2, <1>3

\* The gates a program passes that is accepted.
Passes(g) ==
  LET items == Parsed(g).items
      bits  == Bits(g, items)
  IN /\ AstValid(items, g.depth)
     /\ ~Parsed(g).error
     /\ Typechecks(items, bits, g.depth)
     /\ Borrowchecks(items, bits)
     /\ Monomorphizes(items, bits)
     /\ IrValid(Lowered(items), g.depth)

LEMMA AcceptedPasses ==
  ASSUME NEW g
  PROVE  /\ Verdict(g) = "accepted" <=> Passes(g)
         /\ Verdict(g) = "ir" => /\ Typechecks(Parsed(g).items, Bits(g, Parsed(g).items), g.depth)
                                 /\ ~IrValid(Lowered(Parsed(g).items), g.depth)
BY DEF Verdict, Passes

\* No gate looks at the order or the number of the items, and none asks for
\* a word that is not there.
LEMMA PassesByItems ==
  ASSUME NEW g \in SourceTexts, NEW h \in SourceTexts,
         Range(Parsed(h).items) = Range(Parsed(g).items),
         Parsed(h).error = Parsed(g).error,
         Range(h.chunks) = Range(g.chunks),
         h.words \subseteq g.words, h.depth = g.depth,
         Passes(g)
  PROVE  Passes(h)
<1> DEFINE gs == Parsed(g).items  hs == Parsed(h).items
           gb == Bits(g, gs)      hb == Bits(h, hs)
<1>1. gs \in Seq(Items) /\ hs \in Seq(Items) /\ Range(hs) = Range(gs)
  BY ParsedItems DEF Asts
<1>2. hb \subseteq gb
  BY <1>1 DEF Bits
<1>3. /\ AstValid(gs, g.depth) /\ ~Parsed(g).error /\ Typechecks(gs, gb, g.depth)
      /\ Borrowchecks(gs, gb) /\ Monomorphizes(gs, gb) /\ IrValid(Lowered(gs), g.depth)
  BY DEF Passes
<1>4. \A s \in Seq(Items) : s = <<>> <=> Range(s) = {}
  BY DEF Range
<1>5. Range(Lowered(hs)) = Range(Lowered(gs)) /\ (Lowered(hs) = <<>> <=> Lowered(gs) = <<>>)
  <2> DEFINE gl == Lowered(gs)  hl == Lowered(hs)
  <2>1. Range(gl) = {Entry(x) : x \in Runtime(gs)} /\ gl \in Seq(IrFns)
    BY <1>1, LoweredItems
  <2>2. Range(hl) = {Entry(x) : x \in Runtime(hs)} /\ hl \in Seq(IrFns)
    BY <1>1, LoweredItems
  <2>3. Runtime(hs) = Runtime(gs)
    BY <1>1 DEF Runtime
  <2> HIDE DEF gl, hl
  <2>4. \A s \in Seq(IrFns) : s = <<>> <=> Range(s) = {}
    BY DEF Range
  <2> QED
    BY <2>1, <2>2, <2>3, <2>4 DEF gl, hl
<1> HIDE DEF gs, hs, gb, hb
<1>6. AstValid(hs, h.depth)
  BY <1>1, <1>3, <1>4 DEF AstValid
<1>7. Typechecks(hs, hb, h.depth)
  BY <1>1, <1>2, <1>3, Zenon DEF Typechecks
<1>8. Borrowchecks(hs, hb)
  BY <1>1, <1>2, <1>3 DEF Borrowchecks
<1>9. Monomorphizes(hs, hb)
  BY <1>1, <1>2, <1>3 DEF Monomorphizes
<1>10. IrValid(Lowered(hs), h.depth)
  BY <1>3, <1>5 DEF IrValid
<1> QED
  BY <1>3, <1>6, <1>7, <1>8, <1>9, <1>10 DEF Passes, gs, hs, gb, hb

\* What the gates leave to one another, and what goes into the emitted C.
LEMMA CheckedGates ==
  ASSUME NEW g \in SourceTexts, NEW on \in BOOLEAN
  PROVE  LET fns == Protected(Lowered(Parsed(g).items), on) IN
         /\ \A fn \in Range(fns) : fn.protected <=> on /\ fn \in Range(EmittedC(fns))
         /\ Verdict(g) = "accepted" => Assembled(fns) # <<>>
         /\ Verdict(g) = "ir" =>
              \E c \in Range(g.chunks) : c.form = "fn" /\ c.async /\ c.attrs
<1> DEFINE items == Parsed(g).items
           low == Lowered(items)
           fns == Protected(low, on)
<1>1. items \in Seq(Items) /\ Range(items) \subseteq ItemsOf(g.chunks)
  BY ParsedItems DEF Asts
<1>2. low \in Seq(IrFns) /\ Range(low) = {Entry(x) : x \in Runtime(items)}
  BY <1>1, LoweredItems
<1> HIDE DEF low
<1>3. /\ fns \in Seq(IrFns)
      /\ \A fn \in Range(fns) : fn.protected <=> on /\ fn.enabled
      /\ \A fn \in Range(low) : \E pfn \in Range(fns) : pfn.kind = fn.kind
  BY <1>2, ProtectedFns
<1> HIDE DEF fns
<1>4. /\ \A fn \in Range(fns) : fn \in Range(EmittedC(fns)) <=> fn.enabled
      /\ (\E fn \in Range(fns) : fn.kind = "fn") => Assembled(fns) # <<>>
  BY <1>3, WrittenOut
<1>5. ASSUME Typechecks(items, Bits(g, items), g.depth)
      PROVE  \E fn \in Range(low) : fn.kind = "fn"
  <2>1. PICK x \in Range(items) : x.kind = "fn"
    BY <1>5 DEF Typechecks
  <2>2. x \in Runtime(items) /\ Entry(x).kind = "fn"
    BY <2>1 DEF Runtime, Entry
  <2> QED
    BY <1>2, <2>2
<1>6. ASSUME Verdict(g) = "accepted" PROVE Assembled(fns) # <<>>
  <2>1. Typechecks(items, Bits(g, items), g.depth)
    BY <1>6, AcceptedPasses DEF Passes
  <2> QED
    BY <1>3, <1>4, <1>5, <2>1, Zenon
<1>7. ASSUME Verdict(g) = "ir"
      PROVE  \E c \in Range(g.chunks) : c.form = "fn" /\ c.async /\ c.attrs
  <2>1. Typechecks(items, Bits(g, items), g.depth) /\ ~IrValid(low, g.depth)
    BY <1>7, AcceptedPasses DEF low
  <2>2. PICK fn \in Range(low) : fn.kind = "fn"
    BY <1>5, <2>1
  <2>3. low # <<>>
    BY <2>2 DEF Range
  <2>4. DepthOk(g.depth)
    BY <2>1 DEF Typechecks
  <2>5. PICK off \in Range(low) : (off.async /\ ~off.enabled) \/ (off.contract /\ ~off.named)
    BY <2>1, <2>3, <2>4 DEF IrValid
  <2>6. PICK x \in Runtime(items) : off = Entry(x)
    BY <1>2, <2>5
  <2>7. x \in Range(items) /\ x \in Items
    BY <1>1, <2>6 DEF Runtime, Range
  <2>11. PICK c \in Range(g.chunks) : x \in {Item(c), WithWhere(Item(c))}
    BY <1>1, <2>7 DEF ItemsOf
  <2>12. Item(c) \in Items
    BY ItemType DEF Range, SourceTexts
  <2>13. /\ x.async = Item(c).async /\ x.attrs = Item(c).attrs
         /\ x.contract = Item(c).contract /\ x.named = Item(c).named
    BY <2>11, <2>12 DEF WithWhere, Items
  <2>14. x.contract => x.named
    BY <2>13, Zenon DEF Item
  <2>15. /\ off.async = x.async /\ off.enabled = ~x.attrs
         /\ off.contract = x.contract /\ off.named = x.named
    BY <2>6 DEF Entry
  <2>16. x.async /\ x.attrs \in BOOLEAN
    BY <2>5, <2>7, <2>14, <2>15 DEF Items
  <2>8. x.attrs
    BY <2>5, <2>14, <2>15, <2>16
  <2>9. c.form = "fn" /\ c.async /\ c.attrs
    BY <2>8, <2>13, <2>16, Zenon DEF Item
  <2> QED
    BY <2>9
<1> QED
  BY <1>3, <1>4, <1>6, <1>7 DEF fns, low

\* Turning a program around, or taking a word from it, leaves a program.
LEMMA OtherTexts ==
  ASSUME NEW g \in SourceTexts, NEW w
  PROVE  LET back == [g EXCEPT !.chunks = Reverse(@)]
             less == [g EXCEPT !.words = @ \ {w}]
         IN /\ back \in SourceTexts /\ Range(back.chunks) = Range(g.chunks)
            /\ Len(back.chunks) = Len(g.chunks)
            /\ back.words = g.words /\ back.depth = g.depth
            /\ less \in SourceTexts /\ less.chunks = g.chunks
            /\ less.words \subseteq g.words /\ less.depth = g.depth
<1> DEFINE r == Reverse(g.chunks)
<1>1. g.chunks \in Seq(Chunks) /\ g.words \in SUBSET Features /\ g.depth \in Nat
  BY DEF SourceTexts
<1>2. r \in Seq(Chunks) /\ Len(r) = Len(g.chunks) /\ Range(r) = Range(g.chunks)
  <2> DEFINE s == g.chunks
  <2>1. s \in Seq(Chunks) /\ Len(s) \in Nat /\ DOMAIN s = 1 .. Len(s)
    BY <1>1
  <2>2. r = [i \in 1 .. Len(s) |-> s[Len(s) - i + 1]]
    BY DEF Reverse
  <2> HIDE DEF s, r
  <2>3. \A i \in 1 .. Len(s) : Len(s) - i + 1 \in 1 .. Len(s) /\ s[i] \in Chunks
    BY <2>1
  <2>4. r \in Seq(Chunks) /\ DOMAIN r = 1 .. Len(s) /\ Len(r) = Len(s)
    BY <2>1, <2>2, <2>3
  <2>5. \A x \in Range(r) : x \in Range(s)
    BY <2>1, <2>2, <2>3, <2>4 DEF Range
  <2>6. ASSUME NEW x \in Range(s) PROVE x \in Range(r)
    <3>1. PICK i \in 1 .. Len(s) : x = s[i]
      BY <2>1 DEF Range
    <3> DEFINE j == Len(s) - i + 1
    <3>2. j \in 1 .. Len(s) /\ Len(s) - j + 1 = i
      BY <2>1
    <3> HIDE DEF j
    <3>3. r[j] = x
      BY <2>2, <3>1, <3>2
    <3> QED
      BY <2>4, <3>2, <3>3 DEF Range
  <2> QED
    BY <2>4, <2>5, <2>6 DEF s
<1> HIDE DEF r
<1>3. DOMAIN g = {"chunks", "words", "depth"}
  BY DEF SourceTexts
<1>4. [g EXCEPT !.chunks = r] \in SourceTexts
  BY <1>1, <1>2 DEF SourceTexts
<1>5. [g EXCEPT !.words = @ \ {w}] \in SourceTexts
  BY <1>1 DEF SourceTexts
<1> QED
  BY <1>2, <1>3, <1>4, <1>5 DEF r

\* The order of the items and a word fewer, as the property says.
LEMMA StableVerdict ==
  ASSUME NEW g \in SourceTexts
  PROVE  /\ (\A c \in Range(g.chunks) : EndsByItself(c)) =>
              /\ Len(Parsed(g).items) = Len(g.chunks)
              /\ Verdict([g EXCEPT !.chunks = Reverse(@)]) = "accepted" <=> Verdict(g) = "accepted"
         /\ Verdict(g) = "accepted" =>
              \A w \in g.words : Verdict([g EXCEPT !.words = @ \ {w}]) = "accepted"
<1>1. ASSUME \A c \in Range(g.chunks) : EndsByItself(c)
      PROVE  /\ Len(Parsed(g).items) = Len(g.chunks)
             /\ Verdict([g EXCEPT !.chunks = Reverse(@)]) = "accepted" <=> Verdict(g) = "accepted"
  <2> DEFINE h == [g EXCEPT !.chunks = Reverse(@)]
  <2>1. /\ h \in SourceTexts /\ Range(h.chunks) = Range(g.chunks)
        /\ h.words = g.words /\ h.depth = g.depth
    BY OtherTexts
  <2> HIDE DEF h
  <2>2. /\ Parsed(g).error = FALSE /\ Len(Parsed(g).items) = Len(g.chunks)
        /\ Range(Parsed(g).items) = {Item(c) : c \in Range(g.chunks)}
    BY <1>1, ParsedItems DEF Asts
  <2>3. /\ Parsed(h).error = FALSE
        /\ Range(Parsed(h).items) = {Item(c) : c \in Range(h.chunks)}
    BY <1>1, <2>1, ParsedItems DEF Asts
  <2>4. Range(Parsed(h).items) = Range(Parsed(g).items)
    BY <2>1, <2>2, <2>3
  <2>5. Passes(g) <=> Passes(h)
    BY <2>1, <2>2, <2>3, <2>4, PassesByItems
  <2> QED
    BY <2>2, <2>5, AcceptedPasses DEF h
<1>2. ASSUME Verdict(g) = "accepted", NEW w \in g.words
      PROVE  Verdict([g EXCEPT !.words = @ \ {w}]) = "accepted"
  <2> DEFINE h == [g EXCEPT !.words = @ \ {w}]
  <2>1. /\ h \in SourceTexts /\ h.chunks = g.chunks
        /\ h.words \subseteq g.words /\ h.depth = g.depth
    BY OtherTexts
  <2> HIDE DEF h
  <2>2. Parsed(h) = Parsed(g)
    BY <2>1, Zenon DEF Parsed
  <2>3. Passes(h)
    BY <1>2, <2>1, <2>2, AcceptedPasses, PassesByItems
  <2> QED
    BY <2>3, AcceptedPasses DEF h
<1> QED
  BY <1>1, <1>2

-----------------------------------------------------------------------------
(* A program that was checked, and its IR.                                 *)

CheckedBy(p) ==
  /\ program[p] \in Programs[task[p].path]
  /\ ir[p] = Protected(Lowered(Parsed(program[p]).items), task[p].protect)

\* Between the checks and the verdict a command keeps the program it read, one
\* of those its input may hold, and the IR of that program and of no other.
FrontendFollows ==
  /\ DOMAIN program = Procs /\ DOMAIN ir = Procs
  /\ \A p \in Procs : Checked(p) => CheckedBy(p)

\* A step of a command that is not checked after it.
LEMMA FrontendElsewhere ==
  ASSUME DriverTypeOK, FrontendFollows, NEW p \in Procs, NEW s, s # "checked", Goto(p, s),
         DOMAIN program' = Procs, DOMAIN ir' = Procs,
         \A q \in Procs : q # p => /\ program'[q] = program[q] /\ ir'[q] = ir[q]
                                   /\ task'[q] = task[q]
  PROVE  FrontendFollows'
<1>1. stage'[p] = s /\ \A q \in Procs : q # p => stage'[q] = stage[q]
  BY DEF Goto, DriverTypeOK
<1>2. ASSUME NEW q \in Procs, Checked(q)'
      PROVE  CheckedBy(q)'
  <2>1. q # p /\ Checked(q)
    BY <1>1, <1>2 DEF Checked
  <2>2. CheckedBy(q)
    BY <2>1 DEF FrontendFollows
  <2> QED
    BY <2>1, <2>2 DEF CheckedBy
<1> QED
  BY <1>2 DEF FrontendFollows

\* So is every one that returns.
LEMMA FrontendReturn ==
  ASSUME DriverTypeOK, FrontendFollows, NEW p \in Procs, NEW code, NEW reason,
         Return(p, code, reason)
  PROVE  FrontendFollows'
<1>1. /\ DOMAIN program' = Procs /\ DOMAIN ir' = Procs
      /\ \A q \in Procs : q # p => /\ program'[q] = program[q] /\ ir'[q] = ir[q]
                                   /\ task'[q] = task[q]
  BY DEF Return, FrontendFollows
<1>2. Goto(p, "idle")
  BY DEF Return
<1> QED
  BY <1>1, <1>2, FrontendElsewhere

\* Only a1_ir_lower and the passes behind it write it.
LEMMA FrontendStep ==
  DriverTypeOK /\ FrontendFollows /\ [DriverNext]_driverVars => FrontendFollows'
<1> SUFFICES ASSUME DriverTypeOK, FrontendFollows, [DriverNext]_driverVars
             PROVE  FrontendFollows'
  OBVIOUS
<1>0. /\ DOMAIN program = Procs /\ DOMAIN ir = Procs
      /\ \A s \in Late : s # "checked"
  BY DEF FrontendFollows, Late
<1>1. CASE UNCHANGED driverVars
  BY <1>1 DEF driverVars, FrontendFollows, CheckedBy, Checked
<1>2. ASSUME NEW p \in Procs, Begin(p) PROVE FrontendFollows'
  <2>1. /\ Goto(p, "started") /\ program' = program /\ ir' = ir
        /\ \A q \in Procs : q # p => task'[q] = task[q]
    BY <1>2 DEF Begin, DriverTypeOK
  <2> QED
    BY <1>0, <2>1, FrontendElsewhere
<1>3. ASSUME NEW p \in Procs, Refuse(p) PROVE FrontendFollows'
  <2>1. \E code, reason : Return(p, code, reason)
    BY <1>3, Zenon DEF Refuse, UnknownExtension
  <2> QED
    BY <2>1, FrontendReturn
<1>4. ASSUME NEW p \in Procs, Read(p) \/ LoadGraph(p) \/ OpenGraph(p) \/ OpenGraphFails(p) \/ CloseGraph(p)
      PROVE  FrontendFollows'
  <2>1. \E s \in {"read", "loaded", "opened", "recorded"} :
          Goto(p, s) /\ program' = program /\ ir' = ir /\ task' = task
    BY <1>4 DEF Read, LoadGraph, OpenGraph, OpenGraphFails, CloseGraph
  <2> QED
    BY <1>0, <2>1, FrontendElsewhere
<1>5. ASSUME NEW p \in Procs, Check(p) PROVE FrontendFollows'
  <2>1. PICK g \in Programs[task[p].path] :
          /\ program' = [program EXCEPT ![p] = g]
          /\ ir' = [ir EXCEPT ![p] = Protected(Lowered(Parsed(g).items), task[p].protect)]
    BY <1>5, Zenon DEF Check
  <2>2. task' = task /\ \A q \in Procs : q # p => stage'[q] = stage[q]
    BY <1>5 DEF Check, Goto, DriverTypeOK
  <2>3. CheckedBy(p)'
    BY <1>0, <2>1, <2>2 DEF CheckedBy
  <2>4. ASSUME NEW q \in Procs, q # p, Checked(q)'
        PROVE  CheckedBy(q)'
    <3>1. CheckedBy(q)
      BY <2>2, <2>4 DEF Checked, FrontendFollows
    <3> QED
      BY <1>0, <2>1, <2>2, <2>4, <3>1 DEF CheckedBy
  <2>5. DOMAIN program' = Procs /\ DOMAIN ir' = Procs
    BY <1>0, <2>1
  <2> QED
    BY <2>3, <2>4, <2>5 DEF FrontendFollows
<1>6. ASSUME NEW p \in Procs, Reject(p) \/ Finish(p) \/ Crash(p) PROVE FrontendFollows'
  <2>1. \E code, reason : Return(p, code, reason)
    BY <1>6, Zenon DEF Reject, Finish, Crash
  <2> QED
    BY <2>1, FrontendReturn
<1>7. ASSUME NEW p \in Procs, Accept(p) PROVE FrontendFollows'
  <2>1. /\ Goto(p, "ir") /\ task' = task
        /\ program' = [program EXCEPT ![p] = None] /\ ir' = [ir EXCEPT ![p] = <<>>]
    BY <1>7 DEF Accept
  <2> QED
    BY <1>0, <2>1, FrontendElsewhere
<1>8. ASSUME NEW p \in Procs, Link(p) PROVE FrontendFollows'
  <2>1. Goto(p, "end") /\ program' = program /\ ir' = ir /\ task' = task
    BY <1>8 DEF Link, Write
  <2> QED
    BY <1>0, <2>1, FrontendElsewhere
<1>9. ASSUME NEW p \in Procs, NEW k \in Outputs,
             OpenOutput(p, k) \/ CloseOutput(p, k) \/ PassOver(p, k)
      PROVE  FrontendFollows'
  <2>1. \E s \in {Within[k], After(k)} :
          Goto(p, s) /\ program' = program /\ ir' = ir /\ task' = task
    BY <1>9 DEF OpenOutput, CloseOutput, PassOver, Write
  <2>2. k # "bin" => Within[k] # "checked"
    BY <1>0, Stages
  <2>3. CASE Goto(p, After(k))
    <3>1. After(k) # "checked"
      BY <1>0, Stages
    <3> QED
      BY <1>0, <2>1, <2>3, <3>1, FrontendElsewhere
  <2>4. CASE ~Goto(p, After(k))
    <3>1. OpenOutput(p, k) /\ k # "bin"
      BY <1>9, <2>4 DEF OpenOutput, CloseOutput, PassOver
    <3> QED
      BY <1>0, <2>1, <2>2, <2>4, <3>1, FrontendElsewhere
  <2> QED
    BY <2>3, <2>4
<1> QED
  BY <1>1, <1>2, <1>3, <1>4, <1>5, <1>6, <1>7, <1>8, <1>9 DEF DriverNext

\* Whatever the other commands do meanwhile, the verdict of a command is that
\* on the program it read, and what it emits is that program's IR.
THEOREM FrontendFollowsAlways == DriverSpec => []FrontendFollows
<1>1. DriverInit => FrontendFollows
  BY DEF DriverInit, FrontendFollows, Checked
<1>2. DriverInv => DriverTypeOK
  BY DEF DriverInv
<1> QED
  BY <1>1, <1>2, FrontendStep, DriverInvariant, PTL DEF DriverSpec

\* What is checked is a program, and its task says what a task says.
LEMMA CheckedProgram ==
  ASSUME DriverTypeOK, FrontendFollows, NEW p \in Procs, Checked(p)
  PROVE  /\ program[p] \in SourceTexts /\ task[p].protect \in BOOLEAN
         /\ ir[p] = Protected(Lowered(Parsed(program[p]).items), task[p].protect)
<1>1. task[p] \in Tasks[p]
  BY DEF DriverTypeOK, Checked
<1>2. task[p].path \in Paths /\ task[p].protect \in BOOLEAN
  BY <1>1, DriverAssumption
<1> QED
  BY <1>2, DriverAssumption DEF FrontendFollows, CheckedBy

\* For every program a1_parse_module can be given: the passes of ir/ and the
\* emitter agree, entry by entry, on what is on; nothing gets into the emitted
\* C past the protection passes.
THEOREM EmittedIsProtectedAlways == DriverSpec => []EmittedIsProtected
<1>1. DriverInv /\ FrontendFollows => EmittedIsProtected
  BY CheckedProgram, CheckedGates DEF DriverInv, EmittedIsProtected
<1> QED
  BY <1>1, DriverInvariant, FrontendFollowsAlways, PTL

\* For every program: all that a1_ir_validate can find after the gates before
\* it is an async function with an attribute, and an accepted program has a
\* function to put into the object file.
THEOREM GatesSufficeAlways == DriverSpec => []GatesSuffice
<1>1. DriverInv /\ FrontendFollows => GatesSuffice
  BY CheckedProgram, CheckedGates DEF DriverInv, GatesSuffice
<1> QED
  BY <1>1, DriverInvariant, FrontendFollowsAlways, PTL

\* For every program, of any length: what aegc1 says of it does not depend on
\* the order of the items where each ends by itself, and no accepted program
\* becomes unacceptable for want of a word.
THEOREM VerdictIsStableAlways == DriverSpec => []VerdictIsStable
<1>1. DriverInv /\ FrontendFollows => VerdictIsStable
  BY CheckedProgram, StableVerdict, Zenon DEF DriverInv, VerdictIsStable
<1> QED
  BY <1>1, DriverInvariant, FrontendFollowsAlways, PTL
=============================================================================
