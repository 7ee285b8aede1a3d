-------------------------- MODULE PkgResolverProofs --------------------------
(***************************************************************************)
(* Theorems about PkgResolver, for files of any length over any lines.     *)
(***************************************************************************)
EXTENDS PkgResolver, DataLemmas

-----------------------------------------------------------------------------
(* The invariant.                                                          *)

Version == Nat \X Nat \X Nat

Dep == [name : {l.name : l \in DepLines}, req : {l.req : l \in DepLines},
        resolved : Version \cup {Garbage}, parent : {l.parent : l \in DepLines},
        optional : BOOLEAN]

Phases == {"parse", "visit", "unify", "lock", "write", "done", "failed", "killed"}

ResolverTypeOK ==
  /\ phase \in Phases
  /\ deps \in Seq(Dep)
  /\ conflict \in BOOLEAN /\ cycle \in BOOLEAN
  /\ color \in Seq({0, 1, 2}) /\ Len(color) = Len(deps)
  /\ path \in Seq(DOMAIN deps)
  /\ next \in Nat \ {0}

\* What each phase leaves behind for the next one.
Phased ==
  /\ phase = "parse" => /\ path = <<>> /\ ~cycle
                        /\ \A u \in DOMAIN color : color[u] = 0
  /\ phase \in {"parse", "visit"} => next = 1
  /\ phase \in {"visit", "unify", "lock", "write", "done"} => ~conflict
  /\ phase \in {"lock", "write", "done"} => next > Len(deps) /\ ~cycle
  /\ phase = "done" => lock = deps
  /\ phase \notin {"write", "done", "killed"} => lock = OldLock

\* Without a conflict, of two lines of a name one satisfies the other.
Compatible ==
  ~conflict =>
    \A i, j \in DOMAIN deps : i # j /\ SameName(i, j) =>
      Satisfies(deps[i].req, deps[j].req) \/ Satisfies(deps[j].req, deps[i].req)

\* What the unification loop makes of a line.
Settled(i) ==
  \/ Overtaken(i) /\ Admits(deps[i].req, deps[i].resolved)
  \/ ~Overtaken(i) /\ deps[i].resolved \in {deps[i].req.version, Garbage}

\* The resolved versions, behind and before the index of the unification loop.
Resolved ==
  \A i \in DOMAIN deps :
    /\ i >= next => deps[i].resolved = deps[i].req.version
    /\ i < next => Settled(i)

\* The optional flags of the lines of a name: the loop has made them agree
\* where it has been, and has pushed what they agree on to a line before it.
Optional ==
  \A i, j \in DOMAIN deps : i < next /\ SameName(i, j) =>
    /\ j < next => deps[i].optional = deps[j].optional
    /\ j >= next /\ deps[j].optional => deps[i].optional
    /\ j >= next /\ deps[i].optional =>
         \E k \in DOMAIN deps : k >= next /\ SameName(i, k) /\ deps[k].optional

Parents == [u \in DOMAIN deps |-> Up(u)]

\* Lines that have their parents among themselves.
Closed(lines) == \A u \in lines : Parents[u] \in lines

Black == {u \in DOMAIN deps : color[u] = 2}

\* The depth-first search: the stack of calls follows the parents, its lines
\* are the grey ones, and what it has left behind holds no cycle.
Searching ==
  phase = "visit" =>
    /\ \A k \in DOMAIN path : k + 1 \in DOMAIN path => path[k + 1] = Parents[path[k]]
    /\ \A k \in DOMAIN path : color[path[k]] = 1
    /\ \A k, m \in DOMAIN path : path[k] = path[m] => k = m
    /\ \A u \in DOMAIN deps : color[u] = 1 => \E k \in DOMAIN path : path[k] = u
    /\ ~cycle => \A u \in Black : Parents[u] \in Black \cup {0}
    /\ ~cycle => \A lines \in SUBSET Black : Closed(lines) => lines = {}
    /\ cycle => Circular

Searched == phase \in {"unify", "lock", "write", "done"} => cycle = Circular

ResolverInv ==
  /\ ResolverTypeOK /\ Phased /\ Compatible /\ Resolved /\ Optional
  /\ Searching /\ Searched

-----------------------------------------------------------------------------
(* Versions.                                                               *)

\* cmp_semver orders the versions.
LEMMA Ordered ==
  ASSUME NEW v \in Version, NEW w \in Version
  PROVE  /\ ~Before(v, v)
         /\ ~Before(v, w) /\ ~Before(w, v) => v = w
BY DEF Before, Version

\* The requirement of a line, by ResolverAssumption.
LEMMA Requirement ==
  ASSUME deps \in Seq(Dep), NEW i \in DOMAIN deps
  PROVE  deps[i].req.prefix \in {"^", "~", ""} /\ deps[i].req.version \in Version
<1>1. deps[i] \in Dep
  OBVIOUS
<1> QED
  BY <1>1, ResolverAssumption DEF Dep, Version

\* A requirement admits its own version.
LEMMA AdmitsItself ==
  ASSUME deps \in Seq(Dep), NEW i \in DOMAIN deps
  PROVE  Admits(deps[i].req, deps[i].req.version)
<1> DEFINE req == deps[i].req
<1>1. req.prefix \in {"^", "~", ""} /\ req.version \in Version
  BY Requirement
<1>2. ~Before(req.version, req.version)
  BY <1>1, Ordered
<1> QED
  BY <1>1, <1>2 DEF Admits

\* What is chosen for a line from the lines of its name that are not yet
\* unified is a version its own requirement admits, and another one than it
\* requires exactly where a later line overtakes it.
LEMMA BestFits ==
  ASSUME deps \in Seq(Dep), ~conflict, Compatible,
         NEW i \in DOMAIN deps,
         \A j \in DOMAIN deps : j >= i => deps[j].resolved = deps[j].req.version
  PROVE  /\ Best(i) \in Version /\ Admits(deps[i].req, Best(i))
         /\ Best(i) = deps[i].req.version <=> ~Overtaken(i)
<1> DEFINE lines == {k \in i .. Len(deps) : SameName(i, k)}
           found == {deps[j].resolved : j \in lines}
           V(j)  == deps[j].req.version
<1>1. /\ i \in lines /\ lines \subseteq DOMAIN deps
      /\ \A j \in lines : /\ deps[j].resolved = V(j) /\ V(j) \in Version
                          /\ deps[j].req.prefix \in {"^", "~", ""}
  <2>1. i \in lines /\ lines \subseteq DOMAIN deps
    BY DEF SameName
  <2>2. \A j \in lines : deps[j].resolved = V(j)
    BY <2>1
  <2>3. \A j \in lines : V(j) \in Version /\ deps[j].req.prefix \in {"^", "~", ""}
    BY <2>1, Requirement
  <2> QED
    BY <2>1, <2>2, <2>3
<1>2. \A j, k \in lines : j # k =>
        Satisfies(deps[j].req, deps[k].req) \/ Satisfies(deps[k].req, deps[j].req)
  BY <1>1 DEF Compatible, SameName
<1>3. \E m \in lines : \A k \in lines : ~Before(V(m), V(k))
  <2>1. CASE \E e \in lines : deps[e].req.prefix = ""
    <3>1. PICK e \in lines : deps[e].req.prefix = ""
      BY <2>1
    <3>2. ASSUME NEW k \in lines PROVE ~Before(V(e), V(k))
      <4>1. CASE k = e
        BY <1>1, <4>1, Ordered
      <4>2. CASE Satisfies(deps[e].req, deps[k].req)
        BY <1>1, <3>1, <4>2, Ordered DEF Satisfies, Admits
      <4>3. CASE Satisfies(deps[k].req, deps[e].req)
        <5>1. Admits(deps[k].req, V(e))
          BY <4>3 DEF Satisfies
        <5>2. V(k) \in Version /\ V(e) \in Version
          BY <1>1
        <5> QED
          BY <1>1, <5>1, <5>2, Ordered DEF Admits
      <4> QED
        BY <1>2, <4>1, <4>2, <4>3
    <3> QED
      BY <3>2
  <2>2. CASE \A e \in lines : deps[e].req.prefix # ""
    <3>1. \A k \in lines : k = i
      BY <1>1, <1>2, <2>2 DEF Satisfies
    <3> QED
      BY <1>1, <3>1, Ordered
  <2> QED
    BY <2>1, <2>2
<1>4. \E v \in found : \A w \in found : ~Before(v, w)
  <2>1. PICK m \in lines : \A k \in lines : ~Before(V(m), V(k))
    BY <1>3
  <2>2. deps[m].resolved \in found
    BY <2>1
  <2>3. ASSUME NEW w \in found PROVE ~Before(deps[m].resolved, w)
    <3>1. PICK k \in lines : w = deps[k].resolved
      BY <2>3
    <3> QED
      BY <1>1, <2>1, <3>1
  <2> QED
    BY <2>2, <2>3
<1>5. Best(i) \in found /\ \A w \in found : ~Before(Best(i), w)
  BY <1>4 DEF Best
<1>6. PICK j \in lines : Best(i) = V(j)
  BY <1>1, <1>5
<1>7. ~Before(V(j), V(i))
  BY <1>1, <1>5, <1>6
<1>8. Admits(deps[i].req, V(j))
  <2>0. Admits(deps[i].req, V(i))
    BY AdmitsItself
  <2>1. CASE j = i
    BY <2>0, <2>1
  <2>2. CASE Satisfies(deps[i].req, deps[j].req)
    BY <2>2 DEF Satisfies
  <2>3. CASE Satisfies(deps[j].req, deps[i].req)
    <3>1. Admits(deps[j].req, V(i))
      BY <2>3 DEF Satisfies
    <3>2. V(i) = V(j)
      <4>1. ~Before(V(i), V(j))
        BY <1>1, <3>1, Ordered DEF Admits
      <4> QED
        BY <1>1, <1>7, <4>1, Ordered
    <3> QED
      BY <2>0, <3>2
  <2> QED
    BY <1>1, <1>2, <2>1, <2>2, <2>3
<1>9. Best(i) = V(i) <=> ~Overtaken(i)
  <2>1. ASSUME NEW k \in DOMAIN deps, k > i, SameName(i, k), Before(V(i), V(k))
        PROVE  Best(i) # V(i)
    <3>1. k \in lines
      BY <2>1
    <3>2. deps[k].resolved \in found /\ deps[k].resolved = V(k)
      BY <1>1, <3>1
    <3> QED
      BY <1>5, <2>1, <3>2
  <2>2. ASSUME ~Overtaken(i) PROVE Best(i) = V(i)
    <3>1. CASE j = i
      BY <1>6, <3>1
    <3>2. CASE j # i
      <4>1. j \in DOMAIN deps /\ j > i /\ SameName(i, j)
        <5>1. j \in i .. Len(deps) /\ SameName(i, j) /\ i \in Nat /\ Len(deps) \in Nat
          BY <1>6
        <5>2. j \in DOMAIN deps
          BY <1>1, <1>6
        <5> QED
          BY <3>2, <5>1, <5>2
      <4>2. ~Before(V(i), V(j))
        BY <2>2, <4>1 DEF Overtaken
      <4> QED
        BY <1>1, <1>6, <1>7, <4>2, Ordered
    <3> QED
      BY <3>1, <3>2
  <2> QED
    BY <2>1, <2>2 DEF Overtaken
<1> QED
  BY <1>1, <1>6, <1>8, <1>9

-----------------------------------------------------------------------------
(* Parents.                                                                *)

\* find_dep returns a line, or nothing.
LEMMA UpIsLine ==
  ASSUME deps \in Seq(Dep), NEW u
  PROVE  Up(u) \in DOMAIN deps \cup {0}
<1> DEFINE found == {i \in DOMAIN deps : deps[i].name = deps[u].parent}
<1>1. found \in SUBSET Nat
  OBVIOUS
<1>2. CASE found = {}
  BY <1>2 DEF Up, FindDep
<1>3. CASE found # {}
  <2>1. \E i \in found : \A j \in found : i <= j
    BY <1>1, <1>3, LeastNumber
  <2>2. Up(u) = CHOOSE i \in found : \A j \in found : i <= j
    BY <1>3 DEF Up, FindDep
  <2> QED
    BY <2>1, <2>2
<1> QED
  BY <1>2, <1>3

LEMMA ParentIsLine ==
  ASSUME deps \in Seq(Dep)
  PROVE  /\ Parents \in [DOMAIN deps -> DOMAIN deps \cup {0}]
         /\ Circular = \E lines \in SUBSET DOMAIN deps : lines # {} /\ Closed(lines)
BY UpIsLine DEF Parents, Circular, Closed

\* Parents, and circles of them, depend on the names and parents of the lines.
LEMMA SameParents ==
  ASSUME deps \in Seq(Dep), DOMAIN deps' = DOMAIN deps,
         \A k \in DOMAIN deps : deps'[k].name = deps[k].name /\ deps'[k].parent = deps[k].parent
  PROVE  Parents' = Parents /\ Circular' = Circular
<1>1. ASSUME NEW u \in DOMAIN deps PROVE Up(u)' = Up(u)
  <2> DEFINE found == {i \in DOMAIN deps : deps[i].name = deps[u].parent}
             later == {i \in DOMAIN deps' : deps'[i].name = deps'[u].parent}
  <2>1. later = found
    OBVIOUS
  <2>2. Up(u) = IF found = {} THEN 0 ELSE CHOOSE i \in found : \A j \in found : i <= j
    BY DEF Up, FindDep
  <2>3. Up(u)' = IF later = {} THEN 0 ELSE CHOOSE i \in later : \A j \in later : i <= j
    BY DEF Up, FindDep
  <2> HIDE DEF found, later
  <2> QED
    BY <2>1, <2>2, <2>3
<1> QED
  BY <1>1 DEF Parents, Circular

-----------------------------------------------------------------------------
(* The invariant holds at first, and every step keeps it.                  *)

LEMMA ResolverInitInvariant == ResolverInit => ResolverInv
<1> SUFFICES ASSUME ResolverInit PROVE ResolverInv
  OBVIOUS
<1> USE DEF ResolverInit
<1>1. ResolverTypeOK
  <2>1. <<>> \in Seq(Dep) /\ <<>> \in Seq({0, 1, 2}) /\ <<>> \in Seq(DOMAIN deps)
    OBVIOUS
  <2>2. deps \in Seq(Dep) /\ color \in Seq({0, 1, 2}) /\ path \in Seq(DOMAIN deps)
    BY <2>1
  <2>3. Len(color) = Len(deps)
    OBVIOUS
  <2>4. phase \in Phases
    BY DEF Phases
  <2>5. conflict \in BOOLEAN /\ cycle \in BOOLEAN
    BY Zenon
  <2>6. next \in Nat \ {0}
    OBVIOUS
  <2> QED
    BY <2>2, <2>3, <2>4, <2>5, <2>6 DEF ResolverTypeOK
<1>2. DOMAIN deps = {} /\ DOMAIN color = {}
  OBVIOUS
<1>3. Phased
  BY <1>2 DEF Phased
<1>4. Compatible /\ Resolved /\ Optional
  BY <1>2 DEF Compatible, Resolved, Optional
<1>5. Searching /\ Searched
  BY DEF Searching, Searched
<1> QED
  BY <1>1, <1>3, <1>4, <1>5 DEF ResolverInv

\* Where the lines and the indexes stay, so does what is said of them.
LEMMA LinesStay ==
  ASSUME ResolverInv, UNCHANGED <<deps, next>>, conflict => conflict'
  PROVE  Compatible' /\ Resolved' /\ Optional'
BY DEF ResolverInv, ResolverTypeOK, Compatible, Resolved, Optional, SameName, Settled, Overtaken

\* Reading a line.
LEMMA ParseLineKeeps == ResolverInv /\ ParseLine => ResolverInv'
<1> SUFFICES ASSUME ResolverInv, ParseLine PROVE ResolverInv'
  OBVIOUS
<1>1. PICK line \in DepLines :
        /\ conflict' = (conflict \/ Clashes(line))
        /\ deps' = Append(deps, [name |-> line.name, req |-> line.req,
                                 resolved |-> line.req.version,
                                 parent |-> line.parent, optional |-> line.optional])
  BY DEF ParseLine
<1> DEFINE new == [name |-> line.name, req |-> line.req, resolved |-> line.req.version,
                   parent |-> line.parent, optional |-> line.optional]
           n == Len(deps) + 1
<1>0. /\ ResolverTypeOK /\ Phased /\ Compatible /\ Resolved
      /\ phase = "parse" /\ phase' = phase /\ color' = Append(color, 0)
      /\ UNCHANGED <<cycle, path, next, lock>> /\ next = 1 /\ path = <<>>
  BY DEF ResolverInv, ParseLine, Phased
<1>2. new \in Dep
  BY ResolverAssumption DEF Dep, Version
<1>3. /\ deps' \in Seq(Dep) /\ Len(deps') = n /\ DOMAIN deps' = DOMAIN deps \cup {n}
      /\ deps'[n] = new /\ \A i \in DOMAIN deps : deps'[i] = deps[i]
      /\ deps \in Seq(Dep) /\ n \notin DOMAIN deps
  <2>1. deps' = Append(deps, new) /\ deps \in Seq(Dep)
    BY <1>0, <1>1 DEF ResolverTypeOK
  <2> HIDE DEF new
  <2> QED
    BY <1>2, <2>1
<1>4. ResolverTypeOK'
  <2>1. color' \in Seq({0, 1, 2}) /\ Len(color') = Len(deps')
    BY <1>0, <1>3 DEF ResolverTypeOK
  <2>2. conflict' \in BOOLEAN
    BY <1>0, <1>1 DEF ResolverTypeOK, Clashes
  <2>3. path' \in Seq(DOMAIN deps')
    BY <1>0
  <2> QED
    BY <1>0, <1>3, <2>1, <2>2, <2>3 DEF ResolverTypeOK
<1>5. Phased'
  <2>1. \A u \in DOMAIN color' : color'[u] = 0
    BY <1>0 DEF ResolverTypeOK, Phased
  <2> QED
    BY <1>0, <2>1 DEF Phased
<1>6. Compatible'
  <2> SUFFICES ASSUME ~conflict', NEW i \in DOMAIN deps', NEW j \in DOMAIN deps',
                      i # j, deps'[i].name = deps'[j].name
               PROVE  \/ Satisfies(deps'[i].req, deps'[j].req)
                      \/ Satisfies(deps'[j].req, deps'[i].req)
    BY DEF Compatible, SameName
  <2>1. ~conflict /\ ~Clashes(line)
    BY <1>1
  <2>2. CASE i \in DOMAIN deps /\ j \in DOMAIN deps
    BY <1>0, <1>3, <2>1, <2>2 DEF Compatible, SameName
  <2>3. CASE i = n /\ j \in DOMAIN deps
    BY <1>3, <2>1, <2>3 DEF Clashes
  <2>4. CASE j = n /\ i \in DOMAIN deps
    BY <1>3, <2>1, <2>4 DEF Clashes
  <2> QED
    BY <1>3, <2>2, <2>3, <2>4
<1>7. Resolved'
  <2> SUFFICES ASSUME NEW i \in DOMAIN deps' PROVE deps'[i].resolved = deps'[i].req.version
    BY <1>0, <1>3 DEF Resolved
  <2> QED
    BY <1>0, <1>3 DEF Resolved
<1>8. Optional'
  BY <1>0, <1>3 DEF Optional
<1>9. Searching' /\ Searched'
  BY <1>0 DEF Searching, Searched
<1> QED
  BY <1>4, <1>5, <1>6, <1>7, <1>8, <1>9 DEF ResolverInv

\* The end of the file: nothing was visited yet.
LEMMA ParseDoneKeeps == ResolverInv /\ ParseDone => ResolverInv'
<1> SUFFICES ASSUME ResolverInv, ParseDone PROVE ResolverInv'
  OBVIOUS
<1> USE DEF ParseDone
<1>1. ResolverTypeOK'
  BY DEF ResolverInv, ResolverTypeOK, Phases
<1>2. Phased'
  BY DEF ResolverInv, Phased
<1>3. Compatible' /\ Resolved' /\ Optional'
  BY LinesStay
<1>4. Searching'
  <2>1. path' = <<>> /\ DOMAIN path' = {} /\ ~cycle'
    BY DEF ResolverInv, Phased
  <2>2. \A u \in DOMAIN deps' : color'[u] = 0
    BY DEF ResolverInv, Phased, ResolverTypeOK
  <2>3. Black' = {}
    BY <2>2 DEF Black
  <2> QED
    BY <2>1, <2>2, <2>3 DEF Searching
<1>5. Searched'
  BY DEF Searched
<1> QED
  BY <1>1, <1>2, <1>3, <1>4, <1>5 DEF ResolverInv

-----------------------------------------------------------------------------
(* The search.                                                             *)

\* A step of the search touches the colors, the stack and the verdict.
LEMMA SearchStep ==
  ASSUME ResolverInv, phase = "visit", UNCHANGED <<phase, deps, conflict, next, lock>>,
         cycle' \in BOOLEAN, color' \in Seq({0, 1, 2}), Len(color') = Len(color),
         path' \in Seq(DOMAIN deps), Searching'
  PROVE  ResolverInv'
<1>1. ResolverTypeOK'
  BY DEF ResolverInv, ResolverTypeOK
<1>2. Phased'
  BY DEF ResolverInv, Phased
<1>3. Compatible' /\ Resolved' /\ Optional'
  BY LinesStay
<1>4. Searched'
  BY DEF Searched
<1> QED
  BY <1>1, <1>2, <1>3, <1>4 DEF ResolverInv

\* Coloring a white line grey and pushing it, under the line it is the parent
\* of or on an empty stack.
LEMMA PushKeeps ==
  ASSUME ResolverInv, phase = "visit", UNCHANGED <<phase, deps, conflict, cycle, next, lock>>,
         NEW v \in DOMAIN deps, color[v] = 0,
         path = <<>> \/ v = Parents[path[Len(path)]],
         path' = Append(path, v), color' = [color EXCEPT ![v] = 1]
  PROVE  ResolverInv'
<1>0. /\ path \in Seq(DOMAIN deps) /\ color \in Seq({0, 1, 2}) /\ DOMAIN color = DOMAIN deps
      /\ deps \in Seq(Dep) /\ cycle \in BOOLEAN /\ Searching
  BY DEF ResolverInv, ResolverTypeOK
<1>1. color' \in Seq({0, 1, 2}) /\ Len(color') = Len(color)
  BY <1>0
<1>2. /\ path' \in Seq(DOMAIN deps) /\ DOMAIN path' = DOMAIN path \cup {Len(path) + 1}
      /\ path'[Len(path) + 1] = v /\ \A k \in DOMAIN path : path'[k] = path[k]
      /\ DOMAIN path = 1 .. Len(path) /\ Len(path) \in Nat
  BY <1>0
<1>3. color'[v] = 1 /\ \A u \in DOMAIN deps : u # v => color'[u] = color[u]
  BY <1>0
<1>4. Parents' = Parents /\ Circular' = Circular
  BY <1>0, SameParents
<1>5. Black' = Black /\ Black \subseteq DOMAIN deps
  BY <1>0, <1>3 DEF Black
<1>6. \A k \in DOMAIN path : color[path[k]] = 1 /\ path[k] # v
  BY <1>0 DEF Searching
<1>7. ASSUME NEW k \in DOMAIN path', k + 1 \in DOMAIN path'
      PROVE  path'[k + 1] = Parents'[path'[k]]
  <2>1. k \in DOMAIN path
    BY <1>2, <1>7
  <2>2. CASE k + 1 \in DOMAIN path
    BY <1>0, <1>2, <1>4, <2>1, <2>2 DEF Searching
  <2>3. CASE k = Len(path)
    <3>1. path # <<>>
      BY <1>2, <2>1
    <3> QED
      BY <1>2, <1>4, <2>1, <2>3, <3>1
  <2> QED
    BY <1>2, <2>1, <2>2, <2>3
<1>8. \A k \in DOMAIN path' : color'[path'[k]] = 1
  BY <1>0, <1>2, <1>3, <1>6
<1>9. \A k, m \in DOMAIN path' : path'[k] = path'[m] => k = m
  BY <1>0, <1>2, <1>6 DEF Searching
<1>10. \A u \in DOMAIN deps : color'[u] = 1 => \E k \in DOMAIN path' : path'[k] = u
  BY <1>0, <1>2, <1>3 DEF Searching
<1>11. \A lines \in SUBSET Black : Closed(lines)' = Closed(lines)
  BY <1>4, <1>5 DEF Closed
<1>12. Searching'
  BY <1>0, <1>4, <1>5, <1>7, <1>8, <1>9, <1>10, <1>11 DEF Searching
<1> QED
  BY <1>1, <1>2, <1>0, <1>12, SearchStep

LEMMA VisitKeeps == ResolverInv /\ Visit => ResolverInv'
<1> SUFFICES ASSUME ResolverInv, Visit PROVE ResolverInv'
  OBVIOUS
<1>1. PICK u \in DOMAIN deps : /\ color[u] = 0 /\ path' = <<u>>
                               /\ color' = [color EXCEPT ![u] = 1]
  BY DEF Visit
<1>2. path = <<>> /\ path' = Append(path, u)
  BY <1>1 DEF Visit
<1> QED
  BY <1>1, <1>2, PushKeeps DEF Visit

LEMMA DescendKeeps == ResolverInv /\ Descend => ResolverInv'
<1> SUFFICES ASSUME ResolverInv, Descend PROVE ResolverInv'
  OBVIOUS
<1> DEFINE u == path[Len(path)]
           v == Up(u)
<1>0. deps \in Seq(Dep) /\ path \in Seq(DOMAIN deps) /\ path # <<>>
  BY DEF ResolverInv, ResolverTypeOK, Descend
<1>1. u \in DOMAIN deps /\ Last(path) = u
  BY <1>0 DEF Last
<1>2. /\ v # 0 /\ color[v] = 0
      /\ path' = Append(path, v) /\ color' = [color EXCEPT ![v] = 1]
      /\ phase = "visit" /\ UNCHANGED <<phase, deps, conflict, cycle, next, lock>>
  BY <1>1 DEF Descend
<1>3. v \in DOMAIN deps /\ v = Parents[u]
  BY <1>0, <1>1, <1>2, UpIsLine DEF Parents
<1> HIDE DEF v
<1> QED
  BY <1>2, <1>3, PushKeeps

\* dfs_cycle returns: a line becomes black whose parent is black, or the
\* stack from the parent on is a circle.
LEMMA ReturnKeeps == ResolverInv /\ Return => ResolverInv'
<1> SUFFICES ASSUME ResolverInv, Return PROVE ResolverInv'
  OBVIOUS
<1> DEFINE n == Len(path)
           u == path[n]
           v == Parents[u]
<1>0. /\ path \in Seq(DOMAIN deps) /\ color \in Seq({0, 1, 2}) /\ DOMAIN color = DOMAIN deps
      /\ deps \in Seq(Dep) /\ cycle \in BOOLEAN /\ Searching /\ path # <<>>
      /\ Parents \in [DOMAIN deps -> DOMAIN deps \cup {0}]
      /\ phase = "visit" /\ UNCHANGED <<phase, deps, conflict, next, lock>>
  BY ParentIsLine DEF ResolverInv, ResolverTypeOK, Return
<1>1. /\ n \in DOMAIN path /\ n \in Nat /\ DOMAIN path = 1 .. n
      /\ u \in DOMAIN deps /\ Last(path) = u
  BY <1>0 DEF Last
<1>2. v = Up(u) /\ v \in DOMAIN deps \cup {0}
  BY <1>0, <1>1 DEF Parents
<1>3. /\ v # 0 => color[v] # 0
      /\ cycle' = (cycle \/ Meets(v))
      /\ color' = [color EXCEPT ![u] = 2]
      /\ path' = Front(path)
  BY <1>1, <1>2 DEF Return
<1> HIDE DEF v, u
<1>4. /\ path' \in Seq(DOMAIN deps) /\ DOMAIN path' = 1 .. n - 1
      /\ \A k \in DOMAIN path' : path'[k] = path[k]
  BY <1>0, <1>1, <1>3 DEF Front
<1>5. /\ color' \in Seq({0, 1, 2}) /\ Len(color') = Len(color)
      /\ color'[u] = 2 /\ \A w \in DOMAIN deps : w # u => color'[w] = color[w]
  BY <1>0, <1>1, <1>3
<1>6. Parents' = Parents /\ Circular' = Circular
  BY <1>0, SameParents
<1>7. color[u] = 1
  BY <1>0, <1>1 DEF Searching, u
<1>8. /\ Black' = Black \cup {u} /\ u \notin Black /\ Black \subseteq DOMAIN deps
  BY <1>0, <1>1, <1>5, <1>7 DEF Black
<1>9. \A k \in DOMAIN path' : k + 1 \in DOMAIN path' => path'[k + 1] = Parents'[path'[k]]
  BY <1>0, <1>1, <1>4, <1>6 DEF Searching
<1>10. \A k \in DOMAIN path' : color'[path'[k]] = 1
  <2> SUFFICES ASSUME NEW k \in DOMAIN path' PROVE color'[path'[k]] = 1
    OBVIOUS
  <2>1. k \in DOMAIN path /\ k # n /\ path'[k] = path[k] /\ path[k] \in DOMAIN deps
    BY <1>0, <1>1, <1>4
  <2>2. path[k] # u
    BY <1>0, <1>1, <2>1 DEF Searching, u
  <2> QED
    BY <1>0, <1>5, <2>1, <2>2 DEF Searching
<1>11. \A k, m \in DOMAIN path' : path'[k] = path'[m] => k = m
  BY <1>0, <1>1, <1>4 DEF Searching
<1>12. \A w \in DOMAIN deps : color'[w] = 1 => \E k \in DOMAIN path' : path'[k] = w
  <2> SUFFICES ASSUME NEW w \in DOMAIN deps, color'[w] = 1
               PROVE  \E k \in DOMAIN path' : path'[k] = w
    OBVIOUS
  <2>1. w # u /\ color[w] = 1
    BY <1>5
  <2>2. PICK k \in DOMAIN path : path[k] = w
    BY <1>0, <2>1 DEF Searching
  <2> QED
    BY <1>1, <1>4, <2>1, <2>2 DEF u
<1>13. ASSUME ~cycle' PROVE v \in Black \cup {0} /\ ~cycle
  <2>1. ~cycle /\ ~Meets(v)
    BY <1>3, <1>13
  <2>2. v # 0 => v \in DOMAIN deps /\ color[v] # 1 /\ color[v] # 0 /\ color[v] \in {0, 1, 2}
    BY <1>0, <1>2, <1>3, <2>1 DEF Meets
  <2> QED
    BY <2>1, <2>2 DEF Black
<1>14. ~cycle' => \A w \in Black' : Parents'[w] \in Black' \cup {0}
  BY <1>0, <1>6, <1>8, <1>13 DEF Searching, v
<1>15. ASSUME ~cycle', NEW lines \in SUBSET Black', Closed(lines)' PROVE lines = {}
  <2>1. \A w \in lines : Parents[w] \in lines
    BY <1>6, <1>15 DEF Closed
  <2>2. CASE u \notin lines
    <3>1. lines \in SUBSET Black /\ Closed(lines)
      BY <1>8, <2>1, <2>2 DEF Closed
    <3> QED
      BY <1>0, <1>13, <1>15, <3>1 DEF Searching
  <2>3. CASE u \in lines
    <3> DEFINE rest == lines \ {u}
    <3>1. v \in lines /\ v \in Black /\ v # u
      <4>1. v \in lines
        BY <2>1, <2>3 DEF v
      <4>2. 0 \notin lines
        BY <1>0, <1>1, <1>8
      <4> QED
        BY <1>8, <1>13, <1>15, <4>1, <4>2
    <3>2. rest \in SUBSET Black
      BY <1>8
    <3>3. ASSUME NEW w \in rest PROVE Parents[w] \in rest
      <4>1. w \in Black
        BY <3>2
      <4>2. Parents[w] \in Black \cup {0}
        BY <1>0, <1>13, <1>15, <4>1 DEF Searching
      <4>3. Parents[w] \in lines
        BY <2>1
      <4>4. 0 # u
        BY <1>0, <1>1
      <4>5. 0 \notin lines
        BY <1>0, <1>1, <1>8
      <4> QED
        BY <1>8, <4>2, <4>3, <4>5
    <3>4. rest = {}
      BY <1>0, <1>13, <1>15, <3>2, <3>3 DEF Searching, Closed
    <3> QED
      BY <3>1, <3>4
  <2> QED
    BY <2>2, <2>3
<1>16. ASSUME cycle' PROVE Circular'
  <2>1. CASE cycle
    BY <1>0, <1>6, <2>1 DEF Searching
  <2>2. CASE Meets(v)
    <3>1. v \in DOMAIN deps /\ color[v] = 1
      BY <1>2, <2>2 DEF Meets
    <3>2. PICK k \in DOMAIN path : path[k] = v
      BY <1>0, <3>1 DEF Searching
    <3> DEFINE lines == {path[m] : m \in k .. n}
    <3>3. v \in lines /\ lines \in SUBSET DOMAIN deps
      BY <1>0, <1>1, <3>2
    <3>4. ASSUME NEW w \in lines PROVE Parents[w] \in lines
      <4>1. PICK m \in k .. n : w = path[m]
        OBVIOUS
      <4>2. CASE m = n
        BY <3>3, <4>1, <4>2 DEF u, v
      <4>3. CASE m # n
        <5>1. k \in 1 .. n /\ m \in k .. n /\ m # n /\ n \in Nat
          BY <1>1, <3>2, <4>1, <4>3
        <5> HIDE DEF n
        <5>2. m \in 1 .. n /\ m + 1 \in 1 .. n /\ m + 1 \in k .. n
          BY ONLY <5>1
        <5>3. m \in DOMAIN path /\ m + 1 \in DOMAIN path /\ m + 1 \in k .. n
          BY <1>1, <5>2
        <5>4. Parents[w] = path[m + 1]
          BY <1>0, <4>1, <5>3 DEF Searching
        <5> QED
          BY <5>3, <5>4
      <4> QED
        BY <4>2, <4>3
    <3>5. Closed(lines) /\ lines # {}
      BY <3>3, <3>4 DEF Closed
    <3>6. Circular
      BY <1>0, <3>3, <3>5, ParentIsLine
    <3> QED
      BY <1>6, <3>6
  <2> QED
    BY <1>3, <1>16, <2>1, <2>2
<1>17. Searching'
  BY <1>0, <1>9, <1>10, <1>11, <1>12, <1>14, <1>15, <1>16 DEF Searching
<1>18. cycle' \in BOOLEAN
  BY <1>0, <1>3 DEF Meets
<1> QED
  BY <1>0, <1>4, <1>5, <1>17, <1>18, SearchStep

\* When the loop over the lines ends, all are black.
LEMMA VisitDoneKeeps == ResolverInv /\ VisitDone => ResolverInv'
<1> SUFFICES ASSUME ResolverInv, VisitDone PROVE ResolverInv'
  OBVIOUS
<1>0. /\ deps \in Seq(Dep) /\ color \in Seq({0, 1, 2}) /\ DOMAIN color = DOMAIN deps
      /\ Searching /\ cycle \in BOOLEAN
      /\ phase = "visit" /\ phase' = "unify" /\ path = <<>>
      /\ \A u \in DOMAIN deps : color[u] # 0
      /\ UNCHANGED <<deps, conflict, cycle, color, path, next, lock>>
  BY DEF ResolverInv, ResolverTypeOK, VisitDone
<1>1. ResolverTypeOK'
  BY <1>0 DEF ResolverInv, ResolverTypeOK, Phases
<1>2. Phased'
  BY <1>0 DEF ResolverInv, Phased
<1>3. Compatible' /\ Resolved' /\ Optional'
  BY <1>0, LinesStay
<1>4. Black = DOMAIN deps
  <2>1. \A u \in DOMAIN deps : color[u] # 1
    BY <1>0 DEF Searching
  <2>2. \A u \in DOMAIN deps : color[u] \in {0, 1, 2}
    BY <1>0
  <2>3. \A u \in DOMAIN deps : color[u] = 2
    BY <1>0, <2>1, <2>2
  <2> QED
    BY <2>3 DEF Black
<1>5. cycle = Circular
  <2>1. cycle => Circular
    BY <1>0 DEF Searching
  <2>2. ~cycle => ~Circular
    BY <1>0, <1>4, ParentIsLine DEF Searching
  <2>3. Circular \in BOOLEAN
    BY DEF Circular
  <2> QED
    BY <1>0, <2>1, <2>2, <2>3
<1>6. Circular' = Circular
  BY <1>0, SameParents
<1>7. Searching' /\ Searched'
  BY <1>0, <1>5, <1>6 DEF Searching, Searched
<1> QED
  BY <1>1, <1>2, <1>3, <1>7 DEF ResolverInv

-----------------------------------------------------------------------------
(* Unification and the lock file.                                          *)

\* What one turn of the unification loop makes of the lines.
LEMMA UnifyLines ==
  ASSUME ResolverInv, Unify
  PROVE  /\ deps' \in Seq(Dep) /\ DOMAIN deps' = DOMAIN deps /\ Len(deps') = Len(deps)
         /\ next \in DOMAIN deps
         /\ \A k \in DOMAIN deps :
              /\ deps'[k].name = deps[k].name /\ deps'[k].parent = deps[k].parent
              /\ deps'[k].req = deps[k].req
              /\ deps'[k].optional = OptionalAfter(next, k)
              /\ k # next => deps'[k].resolved = deps[k].resolved
         /\ \/ Overtaken(next) /\ Admits(deps[next].req, deps'[next].resolved)
            \/ ~Overtaken(next) /\ deps'[next].resolved \in {deps[next].req.version, Garbage}
<1>0. /\ deps \in Seq(Dep) /\ next \in DOMAIN deps /\ ~conflict /\ Compatible
      /\ \A j \in DOMAIN deps : j >= next => deps[j].resolved = deps[j].req.version
  <2>1. deps \in Seq(Dep) /\ next \in Nat \ {0} /\ Compatible /\ Resolved
    BY DEF ResolverInv, ResolverTypeOK
  <2>2. ~conflict /\ next <= Len(deps)
    BY DEF ResolverInv, Phased, Unify
  <2>3. next \in DOMAIN deps
    BY <2>1, <2>2
  <2> QED
    BY <2>1, <2>2, <2>3 DEF Resolved
<1>1. /\ Best(next) \in Version /\ Admits(deps[next].req, Best(next))
      /\ Best(next) = deps[next].req.version <=> ~Overtaken(next)
      /\ deps[next].resolved = deps[next].req.version
  BY <1>0, BestFits
<1> DEFINE choice == {Best(next)}
                       \cup (IF Best(next) = deps[next].resolved THEN {Garbage} ELSE {})
<1>2. PICK version \in choice :
        deps' = [k \in DOMAIN deps |->
                  [deps[k] EXCEPT !.optional = OptionalAfter(next, k),
                                  !.resolved = IF k = next THEN version ELSE @]]
  BY DEF Unify
<1>6. version = Best(next) \/ (version = Garbage /\ ~Overtaken(next))
  <2>1. CASE Best(next) = deps[next].resolved
    BY <1>1, <2>1
  <2>2. CASE Best(next) # deps[next].resolved
    <3>1. choice = {Best(next)}
      BY <2>2, Zenon
    <3> HIDE DEF choice
    <3>2. version \in choice
      OBVIOUS
    <3> QED
      BY ONLY <3>1, <3>2
  <2> QED
    BY <2>1, <2>2
<1> HIDE DEF choice
<1>3. ASSUME NEW k \in DOMAIN deps
      PROVE  /\ deps'[k] \in Dep
             /\ deps'[k].name = deps[k].name /\ deps'[k].parent = deps[k].parent
             /\ deps'[k].req = deps[k].req
             /\ deps'[k].optional = OptionalAfter(next, k)
             /\ deps'[k].resolved = IF k = next THEN version ELSE deps[k].resolved
  <2>1. deps[k] \in Dep
    BY <1>0
  <2>2. version \in Version \cup {Garbage}
    BY <1>1, <1>6
  <2>3. OptionalAfter(next, k) \in BOOLEAN
    <3>1. deps[k].optional \in BOOLEAN
      BY <2>1 DEF Dep
    <3> QED
      BY <3>1 DEF OptionalAfter
  <2>4. deps'[k] = [deps[k] EXCEPT !.optional = OptionalAfter(next, k),
                                   !.resolved = IF k = next THEN version ELSE @]
    BY <1>2
  <2> QED
    BY <2>1, <2>2, <2>3, <2>4 DEF Dep
<1>4. DOMAIN deps' = DOMAIN deps /\ deps' \in [DOMAIN deps -> Dep]
  BY <1>2, <1>3
<1>5. deps' \in Seq(Dep) /\ Len(deps') = Len(deps)
  BY <1>0, <1>4
<1> QED
  BY <1>0, <1>1, <1>6, <1>3, <1>4, <1>5

LEMMA Flags ==
  ASSUME ResolverInv, NEW k \in DOMAIN deps
  PROVE  deps[k].optional \in BOOLEAN
<1>1. deps[k] \in Dep
  BY DEF ResolverInv, ResolverTypeOK
<1> QED
  BY <1>1 DEF Dep

\* The loop over the later lines of a name keeps the flags in agreement.
LEMMA OptionalStep ==
  ASSUME ResolverInv, Unify
  PROVE  Optional'
<1>0. /\ DOMAIN deps' = DOMAIN deps /\ next \in DOMAIN deps /\ next' = next + 1
      /\ \A k \in DOMAIN deps : deps'[k].name = deps[k].name
      /\ \A k \in DOMAIN deps : deps'[k].optional = OptionalAfter(next, k)
      /\ Optional /\ DOMAIN deps = 1 .. Len(deps) /\ Len(deps) \in Nat
  <2>1. deps \in Seq(Dep) /\ Optional
    BY DEF ResolverInv, ResolverTypeOK
  <2>2. next' = next + 1
    BY DEF Unify
  <2>3. DOMAIN deps = 1 .. Len(deps) /\ Len(deps) \in Nat
    BY <2>1
  <2> QED
    BY <2>1, <2>2, <2>3, UnifyLines
<1> DEFINE Later == {k \in DOMAIN deps : k >= next /\ SameName(next, k)}
           any   == \E k \in Later : deps[k].optional
<1>1. next \in Later
  BY <1>0 DEF SameName
<1>2. ASSUME NEW k \in DOMAIN deps, k < next PROVE OptionalAfter(next, k) = deps[k].optional
  <2>1. deps[k].optional \in BOOLEAN /\ k # next /\ ~(k > next)
    BY <1>0, <1>2, Flags
  <2> QED
    BY <2>1 DEF OptionalAfter
<1>3. OptionalAfter(next, next) = any
  BY <1>0 DEF OptionalAfter, SameName
<1>4. ASSUME NEW k \in DOMAIN deps, ~SameName(next, k)
      PROVE  OptionalAfter(next, k) = deps[k].optional
  <2>1. deps[k].optional \in BOOLEAN /\ k # next
    BY <1>4, Flags DEF SameName
  <2> QED
    BY <1>4, <2>1 DEF OptionalAfter
<1>5. ASSUME NEW k \in Later, k > next
      PROVE  /\ OptionalAfter(next, k) => any
             /\ deps[k].optional \/ deps[next].optional => OptionalAfter(next, k)
  BY <1>0, <1>1, <1>5 DEF OptionalAfter, SameName
<1>6. ASSUME NEW i \in DOMAIN deps, i < next, SameName(i, next)
      PROVE  deps[i].optional = any
  <2>1. deps[i].optional \in BOOLEAN /\ any \in BOOLEAN
    BY Flags
  <2>2. deps[i].optional => any
    BY <1>0, <1>6 DEF Optional, SameName
  <2>3. any => deps[i].optional
    BY <1>0, <1>6 DEF Optional, SameName
  <2> QED
    BY <2>1, <2>2, <2>3
<1>7. any => \A k \in DOMAIN deps : k > next /\ SameName(next, k) =>
               \E m \in DOMAIN deps : m > next /\ SameName(next, m) /\ OptionalAfter(next, m)
  BY <1>0, <1>1, <1>5
<1> HIDE DEF any
<1> SUFFICES ASSUME NEW i \in DOMAIN deps, NEW j \in DOMAIN deps, i < next + 1, SameName(i, j)
             PROVE  /\ j < next + 1 => OptionalAfter(next, i) = OptionalAfter(next, j)
                    /\ j >= next + 1 /\ OptionalAfter(next, j) => OptionalAfter(next, i)
                    /\ j >= next + 1 /\ OptionalAfter(next, i) =>
                         \E k \in DOMAIN deps : /\ k >= next + 1 /\ SameName(i, k)
                                                /\ OptionalAfter(next, k)
  BY <1>0 DEF Optional, SameName
<1>8. CASE SameName(i, next)
  <2>1. OptionalAfter(next, i) = any
    <3>1. CASE i < next
      BY <1>2, <1>6, <1>8, <3>1
    <3>2. CASE i = next
      BY <1>3, <3>2
    <3> QED
      BY <1>0, <3>1, <3>2
  <2>2. SameName(j, next) /\ SameName(next, j)
    BY <1>8 DEF SameName
  <2>3. j < next + 1 => OptionalAfter(next, j) = any
    <3>1. CASE j < next
      BY <1>2, <1>6, <2>2, <3>1
    <3>2. CASE j = next
      BY <1>3, <3>2
    <3> QED
      BY <1>0, <3>1, <3>2
  <2>4. j >= next + 1 => j \in Later /\ j > next
    BY <1>0, <2>2
  <2>5. \A k \in DOMAIN deps : SameName(next, k) => SameName(i, k)
    BY <1>8 DEF SameName
  <2> QED
    BY <1>0, <1>5, <1>7, <2>1, <2>2, <2>3, <2>4, <2>5
<1>9. CASE ~SameName(i, next)
  <2>1. \A k \in DOMAIN deps : SameName(i, k) =>
          OptionalAfter(next, k) = deps[k].optional /\ k # next
    BY <1>4, <1>9 DEF SameName
  <2>2. i < next /\ SameName(i, i) /\ j # next
    BY <1>0, <1>9, <2>1 DEF SameName
  <2> QED
    BY <1>0, <2>1, <2>2 DEF Optional
<1> QED
  BY <1>8, <1>9

LEMMA UnifyKeeps == ResolverInv /\ Unify => ResolverInv'
<1> SUFFICES ASSUME ResolverInv, Unify PROVE ResolverInv'
  OBVIOUS
<1>1. /\ phase = "unify" /\ next' = next + 1
      /\ UNCHANGED <<phase, conflict, cycle, color, path, lock>>
  BY DEF Unify
<1>2. deps \in Seq(Dep) /\ ResolverTypeOK /\ next \in Nat /\ Compatible /\ Resolved
  BY DEF ResolverInv, ResolverTypeOK
<1>3. ResolverTypeOK'
  BY <1>1, <1>2, UnifyLines DEF ResolverTypeOK
<1>4. Phased'
  BY <1>1 DEF ResolverInv, Phased
<1>5. Compatible'
  <2>1. /\ DOMAIN deps' = DOMAIN deps
        /\ \A k \in DOMAIN deps : deps'[k].name = deps[k].name /\ deps'[k].req = deps[k].req
    BY UnifyLines
  <2> QED
    BY <1>1, <1>2, <2>1 DEF Compatible, SameName
<1>6. Resolved'
  <2> SUFFICES ASSUME NEW i \in DOMAIN deps
               PROVE  /\ i >= next + 1 => deps'[i].resolved = deps'[i].req.version
                      /\ i < next + 1 => Settled(i)'
    BY <1>1, UnifyLines DEF Resolved
  <2>1. deps'[i].req = deps[i].req /\ i \in Nat /\ Overtaken(i)' = Overtaken(i)
    BY <1>2, UnifyLines DEF Overtaken, SameName
  <2>2. CASE i = next
    <3>1. \/ Overtaken(i) /\ Admits(deps[i].req, deps'[i].resolved)
          \/ ~Overtaken(i) /\ deps'[i].resolved \in {deps[i].req.version, Garbage}
      BY <2>2, UnifyLines
    <3> QED
      BY <1>2, <2>1, <2>2, <3>1 DEF Settled
  <2>3. CASE i # next
    <3>1. deps'[i].resolved = deps[i].resolved
      BY <2>3, UnifyLines
    <3> QED
      BY <1>2, <2>1, <2>3, <3>1 DEF Resolved, Settled
  <2> QED
    BY <2>2, <2>3
<1>7. Optional'
  BY OptionalStep
<1>8. Searching' /\ Searched'
  <2>1. Circular' = Circular
    BY <1>2, UnifyLines, SameParents
  <2> QED
    BY <1>1, <2>1 DEF ResolverInv, Searching, Searched
<1> QED
  BY <1>3, <1>4, <1>5, <1>6, <1>7, <1>8 DEF ResolverInv

\* The steps after the loop leave the lines alone.
LEMMA LateKeeps ==
  ASSUME ResolverInv, UnifyDone \/ OpenLock \/ WriteLock \/ Crash
  PROVE  ResolverInv'
<1>1. UNCHANGED <<deps, cycle, color, path, next>> /\ (conflict => conflict')
  <2>1. CASE UnifyDone
    BY <2>1 DEF UnifyDone
  <2>2. CASE OpenLock \/ WriteLock \/ Crash
    BY <2>2 DEF OpenLock, WriteLock, Crash
  <2> QED
    BY <2>1, <2>2
<1>2. phase \in Phases /\ conflict \in BOOLEAN /\ cycle \in BOOLEAN
  BY DEF ResolverInv, ResolverTypeOK
<1>3. phase' \in Phases /\ conflict' \in BOOLEAN
  BY <1>2 DEF UnifyDone, OpenLock, WriteLock, Crash, Phases
<1>4. ResolverTypeOK'
  BY <1>1, <1>3 DEF ResolverInv, ResolverTypeOK
<1>5. Phased'
  BY <1>1, <1>2 DEF UnifyDone, OpenLock, WriteLock, Crash, ResolverInv, Phased
<1>6. Compatible' /\ Resolved' /\ Optional'
  BY <1>1, LinesStay
<1>7. Searching' /\ Searched'
  <2>1. Circular' = Circular
    BY <1>1 DEF Circular, Up, FindDep
  <2>2. phase' # "visit"
    BY DEF UnifyDone, OpenLock, WriteLock, Crash
  <2>3. phase' \in {"unify", "lock", "write", "done"} => phase \in {"unify", "lock", "write", "done"}
    BY DEF UnifyDone, OpenLock, WriteLock, Crash
  <2> QED
    BY <1>1, <2>1, <2>2, <2>3 DEF ResolverInv, Searching, Searched
<1> QED
  BY <1>4, <1>5, <1>6, <1>7 DEF ResolverInv

LEMMA ResolverStep == ResolverInv /\ [ResolverNext]_resolverVars => ResolverInv'
<1> SUFFICES ASSUME ResolverInv, [ResolverNext]_resolverVars PROVE ResolverInv'
  OBVIOUS
<1>1. CASE ParseLine \/ ParseDone
  BY <1>1, ParseLineKeeps, ParseDoneKeeps
<1>2. CASE Visit \/ Descend \/ Return \/ VisitDone
  BY <1>2, VisitKeeps, DescendKeeps, ReturnKeeps, VisitDoneKeeps
<1>3. CASE Unify
  BY <1>3, UnifyKeeps
<1>4. CASE UnifyDone \/ OpenLock \/ WriteLock \/ Crash
  BY <1>4, LateKeeps
<1>5. CASE UNCHANGED resolverVars
  <2>1. UNCHANGED <<phase, deps, conflict, cycle, color, path, next, lock>>
    BY <1>5 DEF resolverVars
  <2>2. ResolverTypeOK' /\ Phased'
    BY <2>1 DEF ResolverInv, ResolverTypeOK, Phased
  <2>3. Compatible' /\ Resolved' /\ Optional'
    BY <2>1, LinesStay
  <2>4. Circular' = Circular /\ Parents' = Parents /\ Black' = Black
    BY <2>1 DEF Circular, Parents, Black, Up, FindDep
  <2>5. Searched'
    BY <2>1, <2>4 DEF ResolverInv, Searched
  <2>6. Searching'
    BY <2>1, <2>4 DEF ResolverInv, Searching, Closed
  <2> QED
    BY <2>2, <2>3, <2>5, <2>6 DEF ResolverInv
<1> QED
  BY <1>1, <1>2, <1>3, <1>4, <1>5 DEF ResolverNext

-----------------------------------------------------------------------------
(* The theorems.                                                           *)

\* What is said of resolve (resolver.c) below follows from this.
THEOREM ResolverInvariant == ResolverSpec => []ResolverInv
BY ResolverInitInvariant, ResolverStep, PTL DEF ResolverSpec

\* dfs_cycle (resolver.c) reports a cycle exactly where lines require one
\* another in a circle, however many lines there are and however many of them
\* share a name; no lock file is written for such a file.
THEOREM CyclesAreAlwaysFound == ResolverSpec => []CyclesAreFound
<1>1. ResolverInv => CyclesAreFound
  BY DEF ResolverInv, Searched, Phased, CyclesAreFound
<1> QED
  BY <1>1, ResolverInvariant, PTL

\* The unification loop leaves all lines of a name optional or none, in
\* whatever order they stand.
THEOREM OptionalAlwaysAgrees == ResolverSpec => []OptionalAgrees
<1>1. ResolverInv => OptionalAgrees
  <2> SUFFICES ASSUME ResolverInv, phase \in {"lock", "write", "done"},
                      NEW i \in DOMAIN deps, NEW j \in DOMAIN deps, SameName(i, j)
               PROVE  deps[i].optional = deps[j].optional
    BY DEF OptionalAgrees
  <2>1. i < next /\ j < next
    BY DEF ResolverInv, ResolverTypeOK, Phased
  <2> QED
    BY <2>1 DEF ResolverInv, Optional
<1> QED
  BY <1>1, ResolverInvariant, PTL

\* A resolve that gives up leaves the lock file as it was (main.c).
THEOREM FailureAlwaysKeepsLock == ResolverSpec => []FailureKeepsLock
<1>1. ResolverInv => FailureKeepsLock
  BY DEF ResolverInv, Phased, FailureKeepsLock
<1> QED
  BY <1>1, ResolverInvariant, PTL

\* A line that a later one overtakes is locked to a version its requirement
\* admits, any other to the one it requires or to what the memory holds that
\* was freed before it is read (resolver.c, 171); and for any two lines of a
\* name there is a version that both admit.
THEOREM LockIsAlwaysAdmitted == ResolverSpec => []LockIsAdmitted
<1>1. ResolverInv => LockIsAdmitted
  <2> SUFFICES ASSUME ResolverInv, phase = "done" PROVE LockIsAdmitted
    BY DEF LockIsAdmitted
  <2>0. /\ deps \in Seq(Dep) /\ lock = deps /\ ~conflict /\ Compatible /\ Resolved
        /\ \A i \in DOMAIN deps : i < next
    BY DEF ResolverInv, ResolverTypeOK, Phased
  <2>1. \A i \in DOMAIN deps : Settled(i)
    BY <2>0 DEF Resolved
  <2>2. ASSUME NEW i \in DOMAIN deps, NEW j \in DOMAIN deps, SameName(i, j)
        PROVE  \E k \in {i, j} : /\ Admits(deps[i].req, deps[k].req.version)
                                 /\ Admits(deps[j].req, deps[k].req.version)
    <3>1. /\ Admits(deps[i].req, deps[i].req.version)
          /\ Admits(deps[j].req, deps[j].req.version)
      BY <2>0, AdmitsItself
    <3>2. CASE i = j
      BY <3>1, <3>2
    <3>3. CASE i # j
      BY <2>0, <2>2, <3>1, <3>3 DEF Compatible, Satisfies
    <3> QED
      BY <3>2, <3>3
  <2> QED
    BY <2>0, <2>1, <2>2 DEF LockIsAdmitted, Settled
<1> QED
  BY <1>1, ResolverInvariant, PTL
=============================================================================
