----------------------------- MODULE PkgResolver -----------------------------
(***************************************************************************)
(* nprt-pkg resolve (resolver.c, main.c): read the dependency file line by *)
(* line, look for conflicts and cycles, unify the versions of one name and *)
(* write the lock file.                                                    *)
(*                                                                         *)
(* A requirement is a prefix and a version of three numbers; requirements  *)
(* that are no such thing are left out, as is running out of memory.       *)
(***************************************************************************)
EXTENDS Integers, SequencesExt

CONSTANTS DepLines,       \* the lines a file may have
          MaxDeps,        \* bound: lines of a file
          Root,           \* the parent of a line without one
          OldLock,        \* what an earlier run left in the lock file
          Garbage,        \* what freed memory may hold
          MayCrash        \* the command may be killed

ASSUME ResolverAssumption ==
  /\ MaxDeps \in Nat /\ MayCrash \in BOOLEAN
  /\ \A l \in DepLines : /\ l.req.prefix \in {"^", "~", ""}
                         /\ l.req.version \in Nat \X Nat \X Nat
                         /\ l.optional \in BOOLEAN

VARIABLES
  phase,     \* where the command is
  deps,      \* NpkgDepGraph.deps
  conflict, cycle,  \* has_conflict, has_cycle
  color, path,      \* of dfs_cycle: the colors and the stack of calls
  next,      \* the index of the unification loop
  lock       \* the lock file

resolverVars == <<phase, deps, conflict, cycle, color, path, next, lock>>

-----------------------------------------------------------------------------
(* Versions.                                                               *)

\* cmp_semver(v, w) < 0
Before(v, w) ==
  \/ v[1] < w[1]
  \/ v[1] = w[1] /\ v[2] < w[2]
  \/ v[1] = w[1] /\ v[2] = w[2] /\ v[3] < w[3]

\* Which versions a requirement admits.
Admits(req, v) ==
  CASE req.prefix = "^" -> v[1] = req.version[1] /\ ~Before(v, req.version)
    [] req.prefix = "~" -> /\ v[1] = req.version[1] /\ v[2] = req.version[2]
                           /\ ~Before(v, req.version)
    [] req.prefix = ""  -> v = req.version

\* semver_satisfies is given two requirements: the second one is read as a
\* version, which fails on a prefix.
Satisfies(req, actual) == actual.prefix = "" /\ Admits(req, actual.version)

SameName(i, j) == deps[i].name = deps[j].name

-----------------------------------------------------------------------------
ResolverInit ==
  /\ phase = "parse"
  /\ deps = <<>>
  /\ conflict = FALSE /\ cycle = FALSE
  /\ color = <<>> /\ path = <<>>
  /\ next = 1
  /\ lock = OldLock

\* Mutant: a line is compared with the one before it only.
ClashesLast(line) ==
  deps # <<>> /\ Last(deps).name = line.name
    /\ ~Satisfies(Last(deps).req, line.req) /\ ~Satisfies(line.req, Last(deps).req)

\* A line clashes with an earlier one if neither satisfies the other.
Clashes(line) ==
  \E i \in DOMAIN deps :
    /\ deps[i].name = line.name
    /\ ~Satisfies(deps[i].req, line.req)
    /\ ~Satisfies(line.req, deps[i].req)

\* One line of the file, whose version is taken for the resolved one.
ParseLine ==
  /\ phase = "parse" /\ Len(deps) < MaxDeps
  /\ \E line \in DepLines :
       /\ conflict' = (conflict \/ Clashes(line))
       /\ deps' = Append(deps, [name |-> line.name, req |-> line.req,
                                resolved |-> line.req.version,
                                parent |-> line.parent, optional |-> line.optional])
  /\ color' = Append(color, 0)
  /\ UNCHANGED <<phase, cycle, path, next, lock>>

\* The end of the file: main gives up on a conflict.
ParseDone ==
  /\ phase = "parse"
  /\ phase' = IF conflict THEN "failed" ELSE "visit"
  /\ UNCHANGED <<deps, conflict, cycle, color, path, next, lock>>

\* find_dep: the first line of that name, or 0.
FindDep(name) ==
  LET found == {i \in DOMAIN deps : deps[i].name = name}
  IN IF found = {} THEN 0 ELSE CHOOSE i \in found : \A j \in found : i <= j

Up(u) == FindDep(deps[u].parent)

\* The next line that was not visited.
Visit ==
  /\ phase = "visit" /\ path = <<>>
  /\ \E u \in DOMAIN deps :
       /\ color[u] = 0
       /\ \A v \in 1 .. u - 1 : color[v] # 0
       /\ path' = <<u>>
       /\ color' = [color EXCEPT ![u] = 1]
  /\ UNCHANGED <<phase, deps, conflict, cycle, next, lock>>

\* dfs_cycle calls itself.
Descend ==
  /\ phase = "visit" /\ path # <<>>
  /\ LET v == Up(Last(path))
     IN /\ v # 0 /\ color[v] = 0
        /\ path' = Append(path, v)
        /\ color' = [color EXCEPT ![v] = 1]
  /\ UNCHANGED <<phase, deps, conflict, cycle, next, lock>>

\* Mutant: a visited line is taken for one on the path.
MeetsVisited(v) == v # 0 /\ color[v] # 0

\* The parent is on the path itself.
Meets(v) == v # 0 /\ color[v] = 1

\* Mutant: the color is taken back.
ReturnWhite ==
  /\ phase = "visit" /\ path # <<>>
  /\ LET u == Last(path)
         v == Up(u)
     IN /\ v # 0 => color[v] # 0
        /\ cycle' = (cycle \/ Meets(v))
        /\ color' = [color EXCEPT ![u] = 0]
        /\ path' = Front(path)
  /\ UNCHANGED <<phase, deps, conflict, next, lock>>

\* dfs_cycle returns.
Return ==
  /\ phase = "visit" /\ path # <<>>
  /\ LET u == Last(path)
         v == Up(u)
     IN /\ v # 0 => color[v] # 0
        /\ cycle' = (cycle \/ Meets(v))
        /\ color' = [color EXCEPT ![u] = 2]
        /\ path' = Front(path)
  /\ UNCHANGED <<phase, deps, conflict, next, lock>>

VisitDone ==
  /\ phase = "visit" /\ path = <<>>
  /\ \A u \in DOMAIN deps : color[u] # 0
  /\ phase' = "unify"
  /\ UNCHANGED <<deps, conflict, cycle, color, path, next, lock>>

\* The greatest resolved version of the name from line i on.
Best(i) ==
  LET found == {deps[j].resolved : j \in {k \in i .. Len(deps) : SameName(i, k)}}
  IN CHOOSE v \in found : \A w \in found : ~Before(v, w)

\* Mutant: only the later line is made optional.
OptionalOnward(i, k) ==
  \/ deps[k].optional
  \/ k > i /\ SameName(i, k) /\ \E j \in i .. k : SameName(i, j) /\ deps[j].optional

\* The loop over the later lines of line i's name makes both optional if one
\* of them is.
OptionalAfter(i, k) ==
  \/ deps[k].optional
  \/ k = i /\ \E j \in i .. Len(deps) : SameName(i, j) /\ deps[j].optional
  \/ k > i /\ SameName(i, k) /\ \E j \in i .. k : SameName(i, j) /\ deps[j].optional

\* One turn of the unification loop.  Where no later line has a greater
\* version, `best' is the string that is freed before it is copied.
Unify ==
  /\ phase = "unify" /\ next <= Len(deps)
  /\ \E version \in {Best(next)}
                      \cup (IF Best(next) = deps[next].resolved THEN {Garbage} ELSE {}) :
       deps' = [k \in DOMAIN deps |->
                 [deps[k] EXCEPT !.optional = OptionalAfter(next, k),
                                 !.resolved = IF k = next THEN version ELSE @]]
  /\ next' = next + 1
  /\ UNCHANGED <<phase, conflict, cycle, color, path, lock>>

\* Mutant: the lock file is opened before the conflict is looked at.
UnifyDoneOpening ==
  /\ phase = "unify" /\ next > Len(deps)
  /\ conflict' = (conflict \/ cycle)
  /\ phase' = IF conflict' THEN "failed" ELSE "lock"
  /\ lock' = <<>>
  /\ UNCHANGED <<deps, cycle, color, path, next>>

\* A cycle becomes a conflict, and main gives up on that.
UnifyDone ==
  /\ phase = "unify" /\ next > Len(deps)
  /\ conflict' = (conflict \/ cycle)
  /\ phase' = IF conflict' THEN "failed" ELSE "lock"
  /\ UNCHANGED <<deps, cycle, color, path, next, lock>>

\* npkg_write_lockfile empties the file, or fails to open it.
OpenLock ==
  /\ phase = "lock"
  /\ \/ phase' = "write" /\ lock' = <<>>
     \/ phase' = "failed" /\ lock' = lock
  /\ UNCHANGED <<deps, conflict, cycle, color, path, next>>

WriteLock ==
  /\ phase = "write"
  /\ lock' = deps
  /\ phase' = "done"
  /\ UNCHANGED <<deps, conflict, cycle, color, path, next>>

Crash ==
  /\ MayCrash /\ phase \notin {"failed", "done", "killed"}
  /\ phase' = "killed"
  /\ UNCHANGED <<deps, conflict, cycle, color, path, next, lock>>

ResolverNext ==
  \/ ParseLine \/ ParseDone \/ Visit \/ Descend \/ Return \/ VisitDone
  \/ Unify \/ UnifyDone \/ OpenLock \/ WriteLock \/ Crash

\* The command runs on, on its own.
ResolverSpec ==
  ResolverInit /\ [][ResolverNext]_resolverVars /\ WF_resolverVars(ResolverNext)

-----------------------------------------------------------------------------
(* Properties.                                                             *)

\* Each line has one parent at most, so lines require one another in a circle
\* exactly where some of them have all their parents among themselves.
Circular ==
  \E lines \in SUBSET DOMAIN deps : lines # {} /\ \A u \in lines : Up(u) \in lines

\* The search reports a cycle exactly where there is one, and then no lock file
\* is written.
CyclesAreFound ==
  /\ phase \in {"unify", "lock", "write", "done"} => cycle = Circular
  /\ phase \in {"lock", "write", "done"} => ~Circular

\* A later line of the name requires a greater version.
Overtaken(i) ==
  \E j \in DOMAIN deps : j > i /\ SameName(i, j)
                           /\ Before(deps[i].req.version, deps[j].req.version)

\* No lock file is written for a file that clashes.  A line that a later one
\* overtakes is locked to a version its own requirement admits; any other line
\* to the version it requires, or to what the freed memory holds.  And two
\* lines of a name never require what no version can be.
LockIsAdmitted ==
  phase = "done" =>
    /\ \A i \in DOMAIN lock :
         \/ Overtaken(i) /\ Admits(lock[i].req, lock[i].resolved)
         \/ ~Overtaken(i) /\ lock[i].resolved \in {lock[i].req.version, Garbage}
    /\ \A i, j \in DOMAIN lock :
         SameName(i, j) => \E k \in {i, j} : /\ Admits(deps[i].req, deps[k].req.version)
                                             /\ Admits(deps[j].req, deps[k].req.version)

\* However often a name occurs, its lines end all optional or all not.
OptionalAgrees ==
  phase \in {"lock", "write", "done"} =>
    \A i, j \in DOMAIN deps : SameName(i, j) => deps[i].optional = deps[j].optional

\* A command that fails leaves the lock file as it was, and only writing
\* touches it.
FailureKeepsLock == phase \notin {"write", "done", "killed"} => lock = OldLock

\* The search and the loops end.
ResolveEnds == <>(phase \in {"done", "failed", "killed"})
=============================================================================
