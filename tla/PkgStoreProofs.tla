--------------------------- MODULE PkgStoreProofs ---------------------------
(***************************************************************************)
(* Theorems about PkgStore: commands that do not overlap, killed or not,   *)
(* keep the invariant StoreInv for any packages, versions and files.       *)
(***************************************************************************)
EXTENDS PkgStore, TLAPS

\* Writing what was less or equal keeps it so.
LEMMA RewrittenFollows ==
  ASSUME NEW a \in SUBSET Lines, NEW b \in SUBSET Lines, NEW c \in Commands,
         Follows(a, b)
  PROVE  /\ Follows(Rewritten(a, c), Rewritten(b, c))
         /\ Rewritten(a, c) \in SUBSET Lines
  BY DEF Follows, Rewritten, Found, LineOf, Commands, Lines

\* Closing an empty file leaves in it what was written.
LEMMA OverlayOfNothing ==
  ASSUME NEW new, NEW lines \in Overlays({}, new)
  PROVE  lines = new
  BY DEF Overlays

LEMMA StoreInitInvariant == StoreInit => StoreInv
  <1> SUFFICES ASSUME StoreInit PROVE StoreInv
    OBVIOUS
  <1>1. StoreTypeOK
    BY DEF StoreInit, StoreTypeOK, Stages
  <1>2. \A p \in Procs : Progress(p)
    BY DEF StoreInit, Progress, Follows, Listed
  <1> QED
    BY <1>1, <1>2 DEF StoreInit, StoreInv

\* A command that ends leaves the others, of which there are none, alone.
LEMMA EndKeepsInvariant ==
  ASSUME Alone, StoreInv, NEW p \in Procs, End(p),
         list' \in Files \cup {NoFile}, tmp' \in Files \cup {NoFile},
         content' = content, list' # NoFile => list' # tmp',
         ledger' \in SUBSET Lines, lost' \in BOOLEAN, Follows(Listed, ledger)'
  PROVE  StoreInv'
  <1>1. StoreTypeOK'
    BY DEF StoreInv, StoreTypeOK, End, Stages
  <1>2. ASSUME NEW q \in Procs PROVE Progress(q)'
    <2>1. q = p
      BY DEF Alone
    <2>2. /\ stage'[q] = "idle" /\ command'[q] = NoCommand
          /\ in'[q] = NoFile /\ out'[q] = NoFile
      BY <2>1 DEF End, StoreInv, StoreTypeOK
    <2> QED
      BY <2>2 DEF Progress
  <1> QED
    BY <1>1, <1>2 DEF StoreInv

\* A step of the one process that keeps the files apart and makes progress.
LEMMA StepKeepsInvariant ==
  ASSUME Alone, NEW p \in Procs, StoreTypeOK', list' # NoFile => list' # tmp', Progress(p)'
  PROVE  StoreInv'
  <1>1. \A q \in Procs : Progress(q)'
    BY DEF Alone
  <1> QED
    BY <1>1 DEF StoreInv

\* The command of a process is one while it runs.
LEMMA Running ==
  ASSUME StoreInv, NEW p \in Procs, stage[p] # "idle"
  PROVE  command[p] \in Commands
  BY DEF StoreInv, StoreTypeOK, Progress

LEMMA BeginKeepsInvariant ==
  ASSUME Alone, StoreInv, NEW p \in Procs, Begin(p)
  PROVE  StoreInv'
  <1>1. PICK c \in Commands : command' = [command EXCEPT ![p] = c]
    BY DEF Begin
  <1>2. StoreTypeOK'
    BY <1>1 DEF StoreInv, StoreTypeOK, Begin, files, history, Stages
  <1>3. c # NoCommand
    BY DEF Commands, NoCommand
  <1>4. Progress(p)'
    BY <1>1, <1>3 DEF StoreInv, StoreTypeOK, Begin, files, history, Progress, Listed, Follows
  <1> QED
    BY <1>2, <1>4, StepKeepsInvariant DEF StoreInv, Begin, files

LEMMA OpenListKeepsInvariant ==
  ASSUME Alone, StoreInv, NEW p \in Procs, OpenList(p)
  PROVE  StoreInv'
  <1>1. CASE End(p)
    <2>1. Follows(Listed, ledger)'
      BY DEF OpenList, files, history, StoreInv, Progress, Listed, Follows
    <2> QED
      BY <1>1, <2>1, EndKeepsInvariant DEF OpenList, files, history, StoreInv, StoreTypeOK
  <1>2. CASE /\ in' = [in EXCEPT ![p] = list]
             /\ stage' = [stage EXCEPT ![p] = "reading"]
             /\ UNCHANGED <<command, out, buffer, started>>
    <2>1. StoreTypeOK'
      BY <1>2 DEF StoreInv, StoreTypeOK, OpenList, files, history, Stages
    <2>2. Progress(p)'
      BY <1>2 DEF StoreInv, StoreTypeOK, OpenList, files, history, Progress, Listed, Follows
    <2> QED
      BY <2>1, <2>2, StepKeepsInvariant DEF StoreInv, OpenList, files
  <1> QED
    BY <1>1, <1>2 DEF OpenList

LEMMA OpenTmpKeepsInvariant ==
  ASSUME Alone, StoreAssumption, StoreInv, NEW p \in Procs, OpenTmp(p)
  PROVE  StoreInv'
  <1>1. PICK f \in Files : /\ f = tmp \/ f # list
                           /\ tmp' = f
                           /\ content' = [content EXCEPT ![f] = {}]
                           /\ out' = [out EXCEPT ![p] = f]
    BY DEF OpenTmp, Truncated, Unused, StoreInv, StoreTypeOK
  <1>2. f # list
    BY <1>1 DEF StoreInv, StoreAssumption
  <1>3. StoreTypeOK'
    BY <1>1 DEF StoreInv, StoreTypeOK, OpenTmp, Stages, history
  <1>4. Listed' = Listed
    BY <1>1, <1>2 DEF OpenTmp, Listed, StoreInv, StoreTypeOK
  <1>5. Progress(p)'
    BY <1>1, <1>4 DEF StoreInv, StoreTypeOK, StoreAssumption, OpenTmp, Progress, Follows, history
  <1> QED
    BY <1>1, <1>2, <1>3, <1>5, StepKeepsInvariant DEF OpenTmp

LEMMA CopyKeepsInvariant ==
  ASSUME Alone, StoreInv, NEW p \in Procs, Copy(p)
  PROVE  StoreInv'
  <1>1. command[p] \in Commands
    BY Running DEF Copy
  <1>2. buffer' = [buffer EXCEPT ![p] = Rewritten(Listed, command[p])]
    BY DEF Copy, StoreInv, Progress, Listed
  <1>3. Rewritten(Listed, command[p]) \in SUBSET Lines
    BY <1>1, RewrittenFollows DEF Follows, Listed, StoreInv, StoreTypeOK
  <1>4. StoreTypeOK'
    BY <1>2, <1>3 DEF StoreInv, StoreTypeOK, Copy, files, history, Stages
  <1>5. Listed' = Listed
    BY DEF Copy, files, history, Listed
  <1>6. Progress(p)'
    BY <1>2, <1>5 DEF StoreInv, StoreTypeOK, Copy, files, history, Progress, Follows
  <1> QED
    BY <1>4, <1>6, StepKeepsInvariant DEF StoreInv, Copy, files

LEMMA CloseKeepsInvariant ==
  ASSUME Alone, StoreInv, NEW p \in Procs, Close(p)
  PROVE  StoreInv'
  <1>1. out[p] = tmp /\ tmp \in Files /\ content[tmp] = {}
    BY DEF Close, StoreInv, StoreTypeOK, Progress
  <1>2. content' = [content EXCEPT ![tmp] = buffer[p]]
    BY <1>1, OverlayOfNothing DEF Close
  <1>3. StoreTypeOK'
    BY <1>1, <1>2 DEF StoreInv, StoreTypeOK, Close, Stages, history
  <1>4. Listed' = Listed
    BY <1>2 DEF Close, Listed, StoreInv, StoreTypeOK
  <1>5. Progress(p)'
    BY <1>1, <1>2, <1>4 DEF StoreInv, StoreTypeOK, Close, Progress, Follows, history
  <1> QED
    BY <1>3, <1>5, StepKeepsInvariant DEF StoreInv, Close

LEMMA RemoveListKeepsInvariant ==
  ASSUME Alone, StoreInv, NEW p \in Procs, RemoveList(p)
  PROVE  StoreInv'
  <1>1. list' = NoFile
    <2>1. ASSUME list # NoFile PROVE MayMove(list)
      BY <2>1 DEF MayMove, IsOpen, Alone, RemoveList, StoreInv, Progress
    <2> QED
      BY <2>1 DEF RemoveList
  <1>2. command[p] \in Commands
    BY Running DEF RemoveList
  <1>3. Follows(buffer[p], Rewritten(ledger, command[p]))
    <2>1. Follows(Listed, ledger) /\ buffer[p] = Rewritten(Listed, command[p])
      BY DEF RemoveList, StoreInv, Progress
    <2>2. Listed \in SUBSET Lines /\ ledger \in SUBSET Lines
      BY DEF Listed, StoreInv, StoreTypeOK
    <2> QED
      BY <1>2, <2>1, <2>2, RewrittenFollows
  <1>4. StoreTypeOK'
    BY <1>1 DEF StoreInv, StoreTypeOK, RemoveList, Stages, history
  <1>5. Progress(p)'
    BY <1>1, <1>3 DEF StoreInv, StoreTypeOK, RemoveList, Progress, Follows, history
  <1> QED
    BY <1>1, <1>4, <1>5, StepKeepsInvariant

LEMMA RenameTmpKeepsInvariant ==
  ASSUME Alone, StoreAssumption, StoreInv, NEW p \in Procs, RenameTmp(p)
  PROVE  StoreInv'
  <1>1. /\ list = NoFile /\ tmp # NoFile /\ content[tmp] = buffer[p]
        /\ Follows(buffer[p], Rewritten(ledger, command[p]))
    BY DEF RenameTmp, StoreInv, Progress
  <1>2. MayMove(tmp)
    BY <1>1 DEF MayMove, IsOpen, Alone, RenameTmp, StoreInv, Progress
  <1>3. list' = tmp /\ tmp' = NoFile
    BY <1>1, <1>2 DEF RenameTmp
  <1>4. command[p] \in Commands
    BY Running DEF RenameTmp
  <1>5. ledger' \in SUBSET Lines
    BY <1>4, RewrittenFollows DEF RenameTmp, Follows, StoreInv, StoreTypeOK
  <1>6. Follows(Listed, ledger)'
    BY <1>1, <1>3 DEF RenameTmp, Listed, Follows
  <1> QED
    BY <1>1, <1>3, <1>5, <1>6, EndKeepsInvariant DEF RenameTmp, StoreInv, StoreTypeOK

\* Commands that end without a change of installed.txt.
LEMMA EarlyEndKeepsInvariant ==
  ASSUME Alone, StoreInv, NEW p \in Procs,
         OpenTmpFails(p) \/ GiveUp(p) \/ Crash(p)
  PROVE  StoreInv'
  <1>1. /\ End(p) /\ list' = list /\ content' = content /\ ledger' = ledger
        /\ tmp' \in {tmp, NoFile} /\ lost' \in BOOLEAN
        /\ IF stage[p] = "cleared" THEN lost' = TRUE ELSE lost' = lost
    BY DEF OpenTmpFails, GiveUp, Crash, files, history, StoreInv, StoreTypeOK
  <1>2. Follows(Listed, ledger)'
    <2>1. CASE stage[p] = "cleared"
      BY <1>1, <2>1 DEF StoreInv, StoreTypeOK, Progress, Follows, Listed
    <2>2. CASE stage[p] # "cleared"
      BY <1>1, <2>2 DEF StoreInv, Progress, Follows, Listed, history
    <2> QED
      BY <2>1, <2>2
  <1> QED
    BY <1>1, <1>2, EndKeepsInvariant DEF StoreInv, StoreTypeOK

LEMMA StoreNextInvariant ==
  ASSUME Alone, StoreAssumption, StoreInv, [StoreNext]_storeVars
  PROVE  StoreInv'
  <1>1. CASE UNCHANGED storeVars
    BY <1>1 DEF storeVars, files, history, StoreInv, StoreTypeOK, Progress, Follows, Listed
  <1>2. ASSUME NEW p \in Procs,
               \/ Begin(p) \/ OpenList(p) \/ OpenTmp(p) \/ OpenTmpFails(p) \/ Copy(p)
               \/ Close(p) \/ GiveUp(p) \/ RemoveList(p) \/ RenameTmp(p) \/ Crash(p)
        PROVE  StoreInv'
    BY <1>2, BeginKeepsInvariant, OpenListKeepsInvariant, OpenTmpKeepsInvariant,
       CopyKeepsInvariant, CloseKeepsInvariant, RemoveListKeepsInvariant,
       RenameTmpKeepsInvariant, EarlyEndKeepsInvariant
  <1> QED
    BY <1>1, <1>2 DEF StoreNext

-----------------------------------------------------------------------------
\* The invariant of commands that do not overlap holds for any packages,
\* versions and files, killed or not, on Posix and elsewhere.
THEOREM StoreInvariant ==
  ASSUME Alone PROVE StoreSpec => []StoreInv
  <1>1. StoreInit => StoreInv
    BY StoreInitInvariant
  <1>2. StoreInv /\ [StoreNext]_storeVars => StoreInv'
    BY StoreNextInvariant, StoreAssumption
  <1> QED
    BY <1>1, <1>2, PTL DEF StoreSpec

\* What list prints (main.c, list) is never stale, even when commands are
\* killed, as long as none of them overlap.
THEOREM AloneNeverStale ==
  ASSUME Alone, Procs # {} PROVE StoreSpec => []NeverStale
  <1>1. StoreInv => NeverStale
    BY DEF StoreInv, Progress, NeverStale, Listed, Follows
  <1> QED
    BY <1>1, StoreInvariant, PTL

\* Where no commands overlap and none was killed between its remove and its
\* rename, installed.txt reflects every command that succeeded.
THEOREM AloneListReflects ==
  ASSUME Alone, Procs # {} PROVE StoreSpec => []ListReflectsCommands
  <1>1. StoreInv => ListReflectsCommands
    BY DEF StoreInv, Progress, ListReflectsCommands, Idle, Follows
  <1> QED
    BY <1>1, StoreInvariant, PTL
-----------------------------------------------------------------------------
(* The commands implement the registry.                                    *)

\* Of a process alone, the registry is the temporary file or the list.
LEMMA InstalledAlone ==
  ASSUME Alone, StoreInv, NEW p \in Procs
  PROVE  Installed = IF stage[p] = "cleared" THEN content[tmp] ELSE Listed
  BY DEF Alone, StoreInv, Progress, Installed

\* What a command writes is what the registry's operation of that name makes.
LEMMA RewrittenIsRegistryStep ==
  ASSUME NEW c \in Commands, Installed' = Rewritten(Installed, c), lost' = lost,
         c.op = "update" => Found(Rewritten(Installed, c), c),
         Installed \in SUBSET Lines
  PROVE  Registry!RegistryNext \/ UNCHANGED <<Installed, lost>>
  <1>1. /\ c.name \in Packages /\ c.version \in Versions
        /\ c.op \in {"install", "update", "remove"}
    BY DEF Commands
  <1>2. CASE c.op = "install"
    <2>1. Registry!Install(c.name, c.version)
      BY <1>2 DEF Registry!Install, Registry!Others, Registry!Line, Rewritten, LineOf
    <2> QED
      BY <1>1, <2>1 DEF Registry!RegistryNext
  <1>3. CASE c.op = "update"
    <2>1. Found(Installed, c)
      BY <1>3 DEF Rewritten, Found
    <2>2. Registry!Update(c.name, c.version)
      BY <1>3, <2>1 DEF Registry!Update, Registry!IsInstalled, Registry!Others,
         Registry!Line, Rewritten, Found, LineOf
    <2> QED
      BY <1>1, <2>2 DEF Registry!RegistryNext
  <1>4. CASE c.op = "remove" /\ Found(Installed, c)
    <2>1. Registry!Remove(c.name)
      BY <1>4 DEF Registry!Remove, Registry!IsInstalled, Registry!Others, Rewritten, Found
    <2> QED
      BY <1>1, <2>1 DEF Registry!RegistryNext
  <1>5. CASE c.op = "remove" /\ ~Found(Installed, c)
    BY <1>5 DEF Rewritten, Found
  <1> QED
    BY <1>1, <1>2, <1>3, <1>4, <1>5

LEMMA StepImplementsRegistry ==
  ASSUME Alone, StoreInv, StoreInv', [StoreNext]_storeVars
  PROVE  Registry!RegistryNext \/ UNCHANGED <<Installed, lost>>
  <1>1. CASE UNCHANGED storeVars
    BY <1>1 DEF storeVars, files, history, Installed, Listed
  <1>2. ASSUME NEW p \in Procs,
               \/ Begin(p) \/ OpenList(p) \/ OpenTmp(p) \/ OpenTmpFails(p) \/ Copy(p)
               \/ Close(p) \/ GiveUp(p) \/ RemoveList(p) \/ RenameTmp(p) \/ Crash(p)
        PROVE  Registry!RegistryNext \/ UNCHANGED <<Installed, lost>>
    <2>1. /\ Installed = IF stage[p] = "cleared" THEN content[tmp] ELSE Listed
          /\ Installed' = IF stage'[p] = "cleared" THEN content'[tmp'] ELSE Listed'
      <3>1. Installed = IF stage[p] = "cleared" THEN content[tmp] ELSE Listed
        BY InstalledAlone
      <3>2. Installed' = IF stage'[p] = "cleared" THEN content'[tmp'] ELSE Listed'
        BY DEF Alone, StoreInv, Progress, Installed
      <3> QED
        BY <3>1, <3>2
    <2>2. p \in DOMAIN stage
      BY DEF StoreInv, StoreTypeOK
    <2>3. CASE \/ Begin(p) \/ OpenList(p) \/ OpenTmpFails(p) \/ Copy(p) \/ GiveUp(p)
      BY <2>1, <2>2, <2>3 DEF Begin, OpenList, OpenTmpFails, Copy, GiveUp, End, files, history, Listed
    <2>4. CASE OpenTmp(p)
      <3>1. Listed' = Listed
        BY <2>4 DEF OpenTmp, Truncated, Unused, Listed, StoreInv, StoreTypeOK
      <3> QED
        BY <2>1, <2>2, <2>4, <3>1 DEF OpenTmp, history
    <2>5. CASE Close(p)
      <3>1. Listed' = Listed
        BY <2>5 DEF Close, Listed, StoreInv, StoreTypeOK, Progress
      <3> QED
        BY <2>1, <2>2, <2>5, <3>1 DEF Close, history
    <2>6. CASE RemoveList(p)
      <3>1. /\ Installed = Listed /\ Installed' = buffer[p]
            /\ buffer[p] = Rewritten(Listed, command[p])
        BY <2>1, <2>2, <2>6 DEF RemoveList, StoreInv, Progress
      <3>2. command[p].op = "update" => Found(buffer[p], command[p])
        BY <2>6 DEF RemoveList, NotFound
      <3>3. command[p] \in Commands /\ Listed \in SUBSET Lines /\ lost' = lost
        BY <2>6, Running DEF RemoveList, Listed, StoreInv, StoreTypeOK, history
      <3> QED
        BY <3>1, <3>2, <3>3, RewrittenIsRegistryStep
    <2>7. CASE RenameTmp(p)
      <3>1. list = NoFile /\ tmp # NoFile
        BY <2>7 DEF RenameTmp, StoreInv, Progress
      <3>2. MayMove(tmp)
        BY <2>7, <3>1 DEF MayMove, IsOpen, Alone, RenameTmp, StoreInv, Progress
      <3>3. list' = tmp /\ content' = content
        BY <2>7, <3>1, <3>2 DEF RenameTmp
      <3> QED
        BY <2>1, <2>2, <2>7, <3>1, <3>3 DEF RenameTmp, End, Listed
    <2>8. CASE Crash(p)
      <3>1. CASE stage[p] = "cleared"
        <4>1. Installed' = {}
          BY <2>1, <2>2, <2>8, <3>1 DEF Crash, End, files, history, Listed, StoreInv, Progress
        <4> QED
          BY <2>8, <3>1, <4>1 DEF Crash, Registry!RegistryNext, Registry!Lose
      <3>2. CASE stage[p] # "cleared"
        BY <2>1, <2>2, <2>8, <3>2 DEF Crash, End, files, history, Listed
      <3> QED
        BY <3>1, <3>2
    <2> QED
      BY <1>2, <2>3, <2>4, <2>5, <2>6, <2>7, <2>8
  <1> QED
    BY <1>1, <1>2 DEF StoreNext

\* Commands that do not overlap implement the registry: each changes the set
\* of installed packages as a whole or not at all, and a killed one either
\* changes nothing or loses everything.
THEOREM AloneImplementsRegistry ==
  ASSUME Alone PROVE StoreSpec => ImplementsRegistry
  <1>1. StoreInit => Registry!RegistryInit
    BY DEF StoreInit, Registry!RegistryInit, Installed, Listed
  <1>2. StoreInv /\ StoreInv' /\ [StoreNext]_storeVars => [Registry!RegistryNext]_<<Installed, lost>>
    BY StepImplementsRegistry
  <1> QED
    BY <1>1, <1>2, StoreInvariant, PTL DEF StoreSpec, ImplementsRegistry, Registry!RegistrySpec
=============================================================================
