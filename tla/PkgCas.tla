------------------------------- MODULE PkgCas -------------------------------
(***************************************************************************)
(* The blob store of nprt-pkg (cas.c): `get' fetches a body, compares its  *)
(* SHA-256 with the one asked for and stores the compressed body under its *)
(* hash, unless a file of that name can be opened already.  Commands run   *)
(* as processes of their own.                                              *)
(*                                                                         *)
(* A hash stands for the data it is the hash of: SHA-256 is taken to have  *)
(* no collisions.                                                          *)
(***************************************************************************)
EXTENDS Integers, SequencesExt

CONSTANTS Procs,
          Bodies,      \* what may be received: sequences of bytes other than 0
          Absent,      \* no file
          MaxRun,      \* the longest run: 255
          ChunkSize,   \* how much the C library writes at once, in bytes
          MayCrash,    \* a command may be killed
          DiskMayFill, \* a write may fail
          MaxGets      \* bound: commands started

ASSUME CasAssumption ==
  /\ Bodies \subseteq Seq(Nat \ {0}) /\ Absent \notin Seq(Nat)
  /\ MaxRun \in Nat \ {0} /\ ChunkSize \in Nat \ {0}
  /\ MayCrash \in BOOLEAN /\ DiskMayFill \in BOOLEAN /\ MaxGets \in Nat

Hashes == Bodies
Sha256(body) == body

-----------------------------------------------------------------------------
(* The compression.                                                        *)

\* Mutant: a run may grow by one too many.
CountOne(pairs, b) ==
  IF pairs # <<>> /\ Last(pairs)[2] = b
  THEN Append(Front(pairs), <<(Last(pairs)[1] + 1) % (MaxRun + 1), b>>)
  ELSE Append(pairs, <<1, b>>)

\* The loop of rle_compress, one byte further.
Count(pairs, b) ==
  IF pairs # <<>> /\ Last(pairs)[2] = b /\ Last(pairs)[1] < MaxRun
  THEN Append(Front(pairs), <<Last(pairs)[1] + 1, b>>)
  ELSE Append(pairs, <<1, b>>)

\* rle_compress: each run as its length and its byte.
Compressed(body) == FlattenSeq(FoldLeft(Count, <<>>, body))

\* What a reader would have to do; no reader is part of the program.
Expanded(file) ==
  FlattenSeq([k \in 1 .. Len(file) \div 2 |-> [j \in 1 .. file[2 * k - 1] |-> file[2 * k]]])

-----------------------------------------------------------------------------
VARIABLES
  blobs,    \* the file under each hash, or Absent
  stage,    \* how far each command is
  expect,   \* the hash each command was given
  body,     \* what each command has received
  position, \* where each command writes next
  status,   \* how the last command of each process ended
  gets,     \* how much of the bound is used
  cut       \* history: the hashes a command was killed or failed while writing

casVars == <<blobs, stage, expect, body, position, status, gets, cut>>

CasInit ==
  /\ blobs = [h \in Hashes |-> Absent]
  /\ stage = [p \in Procs |-> "idle"]
  /\ expect = [p \in Procs |-> <<>>] /\ body = [p \in Procs |-> <<>>]
  /\ position = [p \in Procs |-> 0]
  /\ status = [p \in Procs |-> "none"]
  /\ gets = 0 /\ cut = {}

\* A command ends and reports.
Report(p, result) ==
  /\ stage' = [stage EXCEPT ![p] = "idle"]
  /\ body' = [body EXCEPT ![p] = <<>>]
  /\ position' = [position EXCEPT ![p] = 0]
  /\ status' = [status EXCEPT ![p] = result]

\* The command starts; what it receives may be another body, or one cut off.
Get(p) ==
  /\ stage[p] = "idle" /\ gets < MaxGets
  /\ gets' = gets + 1
  /\ stage' = [stage EXCEPT ![p] = "received"]
  /\ \E h \in Hashes, b \in Bodies :
       /\ expect' = [expect EXCEPT ![p] = h]
       /\ body' = [body EXCEPT ![p] = b]
  /\ status' = [status EXCEPT ![p] = "none"]
  /\ UNCHANGED <<blobs, position, cut>>

\* Mutant: the body is stored under the hash that was asked for, unseen.
AcceptedAll(p) == TRUE

\* strcmp(hex, expect) == 0.
Accepted(p) == Sha256(body[p]) = expect[p]

Mismatch(p) ==
  /\ stage[p] = "received"
  /\ ~Accepted(p)
  /\ Report(p, "mismatch")
  /\ UNCHANGED <<blobs, expect, gets, cut>>

\* A file that can be opened is taken for the blob.
Present(p) ==
  /\ stage[p] = "received" /\ Accepted(p)
  /\ blobs[expect[p]] # Absent
  /\ Report(p, "ok")
  /\ UNCHANGED <<blobs, expect, gets, cut>>

NotPresent(p) ==
  /\ stage[p] = "received" /\ Accepted(p)
  /\ blobs[expect[p]] = Absent
  /\ stage' = [stage EXCEPT ![p] = "missing"]
  /\ UNCHANGED <<blobs, expect, body, position, status, gets, cut>>

\* fopen(full, "wb") creates the file, or empties one that another command
\* created in the meantime.
Create(p) ==
  /\ stage[p] = "missing"
  /\ blobs' = [blobs EXCEPT ![expect[p]] = <<>>]
  /\ stage' = [stage EXCEPT ![p] = "writing"]
  /\ UNCHANGED <<expect, body, position, status, gets, cut>>

\* Bytes at a position of a file; a gap before them reads as zeros.
Written(file, at, bytes) ==
  [k \in 1 .. (IF at + Len(bytes) > Len(file) THEN at + Len(bytes) ELSE Len(file)) |->
     IF k > at /\ k <= at + Len(bytes) THEN bytes[k - at]
     ELSE IF k <= Len(file) THEN file[k] ELSE 0]

\* The next chunk of fwrite, and of fclose.
Write(p) ==
  LET all  == Compressed(body[p])
      upto == IF position[p] + ChunkSize < Len(all) THEN position[p] + ChunkSize ELSE Len(all)
  IN /\ stage[p] = "writing"
     /\ position[p] < Len(all)
     /\ blobs' = [blobs EXCEPT ![expect[p]] =
                    Written(@, position[p], SubSeq(all, position[p] + 1, upto))]
     /\ position' = [position EXCEPT ![p] = upto]
     /\ UNCHANGED <<stage, expect, body, status, gets, cut>>

\* A write fails: the command says so if fwrite did, not if fclose did.  What
\* was written stays.
WriteFails(p) ==
  /\ DiskMayFill
  /\ stage[p] = "writing" /\ position[p] < Len(Compressed(body[p]))
  /\ \E result \in {"failed", "ok"} : Report(p, result)
  /\ cut' = cut \cup {expect[p]}
  /\ UNCHANGED <<blobs, expect, gets>>

Done(p) ==
  /\ stage[p] = "writing"
  /\ position[p] = Len(Compressed(body[p]))
  /\ Report(p, "ok")
  /\ UNCHANGED <<blobs, expect, gets, cut>>

Crash(p) ==
  /\ MayCrash /\ stage[p] # "idle"
  /\ Report(p, "none")
  /\ cut' = IF stage[p] = "writing" THEN cut \cup {expect[p]} ELSE cut
  /\ UNCHANGED <<blobs, expect, gets>>

CasNext ==
  \E p \in Procs :
    \/ Get(p) \/ Mismatch(p) \/ Present(p) \/ NotPresent(p) \/ Create(p)
    \/ Write(p) \/ WriteFails(p) \/ Done(p) \/ Crash(p)

CasSpec == CasInit /\ [][CasNext]_casVars

-----------------------------------------------------------------------------
(* Properties.                                                             *)

Whole(h) == blobs[h] = Compressed(h)
BeingWritten(h) == \E p \in Procs : stage[p] = "writing" /\ expect[p] = h

\* A command that will still write byte k of the file of h.
WillWrite(p, h, k) == stage[p] = "writing" /\ expect[p] = h /\ position[p] < k

\* spec/npkg/registry-protocol.md, 3.3: only what was verified is stored.  A
\* byte of a file is that of the body whose hash names it, at its place, or a 0
\* in a gap, which two commands on one file leave.  A gap does not stay: some
\* command is about to fill it, unless one was killed, or out of disk, while it
\* wrote that blob.
OnlyVerifiedBytes ==
  \A h \in Hashes : blobs[h] # Absent =>
    /\ Len(blobs[h]) <= Len(Compressed(h))
    /\ \A k \in DOMAIN blobs[h] : blobs[h][k] # Compressed(h)[k] =>
         /\ blobs[h][k] = 0
         /\ h \in cut \/ \E p \in Procs : WillWrite(p, h, k)

\* Commands that overlap on one hash, one emptying what the other wrote, still
\* leave the whole blob, which expands to the data; a command that reports
\* success leaves a blob, whoever wrote it.  Only a command killed, or out of
\* disk, while it writes that very blob leaves less than the whole.
AtRestBlobsAreWhole ==
  /\ \A h \in Hashes : blobs[h] # Absent /\ ~BeingWritten(h) /\ h \notin cut =>
       Whole(h) /\ Expanded(blobs[h]) = h
  /\ \A p \in Procs : status[p] = "ok" => blobs[expect[p]] # Absent
=============================================================================
