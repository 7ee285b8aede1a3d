------------------------------ MODULE PkgStore ------------------------------
(***************************************************************************)
(* The list of installed packages of nprt-pkg (main.c): every command is a *)
(* process of its own that copies installed.txt to installed.txt.tmp, then *)
(* removes the one and renames the other.  No result of remove or rename   *)
(* is looked at and nothing keeps two commands apart.                      *)
(*                                                                         *)
(* A file holds a set of lines: their order is abstracted, a file is       *)
(* shorter than one buffer of the C library and all lines are equally      *)
(* long, so that each file is read and written in one piece.               *)
(***************************************************************************)
EXTENDS FiniteSets, Naturals

CONSTANTS Procs,        \* commands that may run at a time
          Packages,
          Versions,
          Files,        \* what a name in the cache directory can refer to
          NoFile,
          Posix,        \* rename replaces its target; an open file can be removed
          MayCrash,     \* a command may be killed
          MaxCommands   \* bound: commands started

ASSUME StoreAssumption ==
  /\ NoFile \notin Files
  /\ Posix \in BOOLEAN /\ MayCrash \in BOOLEAN
  /\ MaxCommands \in Nat

Lines == [name : Packages, version : Versions]
Commands == [op : {"install", "update", "remove"}, name : Packages, version : Versions]
NoCommand == [op |-> "none"]
Stages == {"idle", "started", "reading", "copying", "written", "closed", "cleared"}

VARIABLES
  list, tmp,  \* what installed.txt and installed.txt.tmp refer to
  content,    \* the lines in each file
  stage,      \* how far each command is
  command,    \* what each command was asked to do
  in, out,    \* the files each command has open
  buffer,     \* the lines each command wrote and did not flush
  started,    \* how much of the bound is used
  ledger,     \* history: the list, had each command that reached its rename
              \* done all of its work there and then
  lost        \* history: a command was killed between its remove and its rename

files == <<list, tmp, content>>
history == <<ledger, lost>>
storeVars == <<files, stage, command, in, out, buffer, started, history>>

-----------------------------------------------------------------------------
(* What a command does to the lines it copies.                             *)

LineOf(c) == [name |-> c.name, version |-> c.version]
Found(lines, c) == \E l \in lines : l.name = c.name

\* Mutant: the lines of that name are kept as they are.
RewrittenAdding(lines, c) ==
  lines \cup IF c.op = "install" \/ (c.op = "update" /\ Found(lines, c))
             THEN {LineOf(c)} ELSE {}

\* Every line of that name is replaced or dropped; only install appends.
Rewritten(lines, c) ==
  {l \in lines : l.name # c.name}
    \cup IF c.op = "install" \/ (c.op = "update" /\ Found(lines, c))
         THEN {LineOf(c)} ELSE {}

\* Closing a file writes from its beginning; what another writer put behind
\* the end stays.
Overlays(old, new) ==
  {new \cup tail : tail \in {s \in SUBSET old :
     Cardinality(s) = IF Cardinality(old) > Cardinality(new)
                      THEN Cardinality(old) - Cardinality(new) ELSE 0}}

IsOpen(f) == \E p \in Procs : f = in[p] \/ f = out[p]
Unused == {f \in Files : f # list /\ f # tmp /\ ~IsOpen(f)}

\* What list prints and search looks through.
Listed == IF list = NoFile THEN {} ELSE content[list]

-----------------------------------------------------------------------------
StoreInit ==
  /\ list = NoFile /\ tmp = NoFile
  /\ content = [f \in Files |-> {}]
  /\ stage = [p \in Procs |-> "idle"]
  /\ command = [p \in Procs |-> NoCommand]
  /\ in = [p \in Procs |-> NoFile] /\ out = [p \in Procs |-> NoFile]
  /\ buffer = [p \in Procs |-> {}]
  /\ started = 0
  /\ ledger = {} /\ lost = FALSE

\* A command starts: main dispatches on its arguments.
Begin(p) ==
  /\ stage[p] = "idle"
  /\ started < MaxCommands
  /\ started' = started + 1
  /\ \E c \in Commands : command' = [command EXCEPT ![p] = c]
  /\ stage' = [stage EXCEPT ![p] = "started"]
  /\ UNCHANGED <<files, in, out, buffer, history>>

\* The end of a command, or of the process that ran it.
End(p) ==
  /\ stage' = [stage EXCEPT ![p] = "idle"]
  /\ command' = [command EXCEPT ![p] = NoCommand]
  /\ in' = [in EXCEPT ![p] = NoFile]
  /\ out' = [out EXCEPT ![p] = NoFile]
  /\ buffer' = [buffer EXCEPT ![p] = {}]
  /\ UNCHANGED started

\* in = fopen(path, "rb") finds nothing in a new cache: for remove that is
\* the end of it.
OpenList(p) ==
  /\ stage[p] = "started"
  /\ IF list = NoFile /\ command[p].op = "remove"
     THEN End(p)
     ELSE /\ in' = [in EXCEPT ![p] = list]
          /\ stage' = [stage EXCEPT ![p] = "reading"]
          /\ UNCHANGED <<command, out, buffer, started>>
  /\ UNCHANGED <<files, history>>

\* Mutant: the file is opened to append.
TruncatedKeeping(f) == content

\* fopen(tmp_path, "wb") empties the file.
Truncated(f) == [content EXCEPT ![f] = {}]

\* out = fopen(tmp_path, "wb").
OpenTmp(p) ==
  /\ stage[p] = "reading"
  /\ \E f \in IF tmp = NoFile THEN Unused ELSE {tmp} :
       /\ tmp' = f
       /\ content' = Truncated(f)
       /\ out' = [out EXCEPT ![p] = f]
  /\ stage' = [stage EXCEPT ![p] = "copying"]
  /\ UNCHANGED <<list, command, in, buffer, started, history>>

\* The temporary file cannot be opened: the command fails.
OpenTmpFails(p) == stage[p] = "reading" /\ End(p) /\ UNCHANGED <<files, history>>

\* The loop over the lines, and fclose(in).
Copy(p) ==
  /\ stage[p] = "copying"
  /\ buffer' = [buffer EXCEPT ![p] =
       Rewritten(IF in[p] = NoFile THEN {} ELSE content[in[p]], command[p])]
  /\ in' = [in EXCEPT ![p] = NoFile]
  /\ stage' = [stage EXCEPT ![p] = "written"]
  /\ UNCHANGED <<files, command, out, started, history>>

\* fclose(out).
Close(p) ==
  /\ stage[p] = "written"
  /\ \E lines \in Overlays(content[out[p]], buffer[p]) :
       content' = [content EXCEPT ![out[p]] = lines]
  /\ out' = [out EXCEPT ![p] = NoFile]
  /\ stage' = [stage EXCEPT ![p] = "closed"]
  /\ UNCHANGED <<list, tmp, command, in, buffer, started, history>>

\* require_existing without found: an update found its package iff what it
\* wrote mentions it.
NotFound(p) == command[p].op = "update" /\ ~Found(buffer[p], command[p])

\* Elsewhere than on Posix an open file cannot be removed.
MayMove(f) == Posix \/ ~IsOpen(f)

\* remove(tmp_path), where an update gives up.
GiveUp(p) ==
  /\ stage[p] = "closed"
  /\ NotFound(p)
  /\ tmp' = IF tmp # NoFile /\ MayMove(tmp) THEN NoFile ELSE tmp
  /\ End(p)
  /\ UNCHANGED <<list, content, history>>

\* Mutant: the rename is trusted to replace its target.
RemoveListNot(p) ==
  /\ stage[p] = "closed"
  /\ ~NotFound(p)
  /\ stage' = [stage EXCEPT ![p] = "cleared"]
  /\ UNCHANGED <<files, command, in, out, buffer, started, history>>

\* remove(path).
RemoveList(p) ==
  /\ stage[p] = "closed"
  /\ ~NotFound(p)
  /\ list' = IF list # NoFile /\ MayMove(list) THEN NoFile ELSE list
  /\ stage' = [stage EXCEPT ![p] = "cleared"]
  /\ UNCHANGED <<tmp, content, command, in, out, buffer, started, history>>

\* rename(tmp_path, path), and the command reports success.
RenameTmp(p) ==
  /\ stage[p] = "cleared"
  /\ IF tmp # NoFile /\ MayMove(tmp) /\ (Posix \/ list = NoFile)
     THEN list' = tmp /\ tmp' = NoFile
     ELSE UNCHANGED <<list, tmp>>
  /\ ledger' = Rewritten(ledger, command[p])
  /\ End(p)
  /\ UNCHANGED <<content, lost>>

\* A command is killed, and all it had open closed.
Crash(p) ==
  /\ MayCrash /\ stage[p] # "idle"
  /\ lost' = IF stage[p] = "cleared" THEN TRUE ELSE lost
  /\ End(p)
  /\ UNCHANGED <<files, ledger>>

StoreNext ==
  \E p \in Procs :
    \/ Begin(p) \/ OpenList(p) \/ OpenTmp(p) \/ OpenTmpFails(p) \/ Copy(p)
    \/ Close(p) \/ GiveUp(p) \/ RemoveList(p) \/ RenameTmp(p) \/ Crash(p)

StoreSpec == StoreInit /\ [][StoreNext]_storeVars

-----------------------------------------------------------------------------
(* Properties.                                                             *)

Idle == \A p \in Procs : stage[p] = "idle"
Alone == \A p, q \in Procs : p = q

StoreTypeOK ==
  /\ list \in Files \cup {NoFile} /\ tmp \in Files \cup {NoFile}
  /\ content \in [Files -> SUBSET Lines]
  /\ stage \in [Procs -> Stages]
  /\ command \in [Procs -> Commands \cup {NoCommand}]
  /\ in \in [Procs -> Files \cup {NoFile}] /\ out \in [Procs -> Files \cup {NoFile}]
  /\ buffer \in [Procs -> SUBSET Lines]
  /\ ledger \subseteq Lines /\ lost \in BOOLEAN

\* docs/verification/minimal-toolchain-checklist.md: the installed packages
\* are stored in installed.txt, and list reflects updates and removal.  While
\* no command runs, list prints what the commands that succeeded left, even if
\* others were killed: all but those killed between their remove and their
\* rename.
ListReflectsCommands == Idle /\ ~lost => Listed = ledger

\* Whenever a command is killed, what is listed afterwards, and after any
\* further commands, is what the commands that completed left of each package:
\* a package may be missing, but is never listed with a version it no longer
\* has, and never after its removal.
NeverStale == Listed \subseteq ledger

\* One set is what another says it should be, or a part of it once a list was
\* lost.
Follows(a, b) == a \subseteq b /\ (lost \/ a = b)

\* What each stage of a command that runs alone has reached.
Progress(p) ==
  /\ stage[p] = "idle" <=> command[p] = NoCommand
  /\ in[p] = IF stage[p] \in {"reading", "copying"} THEN list ELSE NoFile
  /\ out[p] = IF stage[p] \in {"copying", "written"} THEN tmp ELSE NoFile
  /\ stage[p] \in {"copying", "written"} => tmp # NoFile /\ content[tmp] = {}
  /\ stage[p] \in {"written", "closed"} => buffer[p] = Rewritten(Listed, command[p])
  /\ stage[p] \in {"closed", "cleared"} => tmp # NoFile /\ content[tmp] = buffer[p]
  /\ stage[p] = "cleared" => list = NoFile /\ Follows(buffer[p], Rewritten(ledger, command[p]))
  /\ stage[p] # "cleared" => Follows(Listed, ledger)

\* The inductive invariant of commands that do not overlap.
StoreInv ==
  /\ StoreTypeOK
  /\ list # NoFile => list # tmp
  /\ \A p \in Procs : Progress(p)

\* The commands implement the registry; the list is away only where the
\* temporary file replaces it.
Installed ==
  IF list = NoFile /\ tmp # NoFile /\ (\E p \in Procs : stage[p] = "cleared")
  THEN content[tmp] ELSE Listed
Registry == INSTANCE PkgRegistry WITH installed <- Installed
ImplementsRegistry == Registry!RegistrySpec
=============================================================================
