----------------------------- MODULE PkgCasProofs -----------------------------
(***************************************************************************)
(* Theorems about PkgCas, for any number of commands that overlap, any     *)
(* bodies and any way the C library cuts what it writes.                   *)
(***************************************************************************)
EXTENDS PkgCas, TLAPS

\* What is asked of rle_compress (cas.c): a sequence of bytes for each body,
\* from which the body can be had back.
Lossless ==
  \A b \in Bodies : Compressed(b) \in Seq(Nat) /\ Expanded(Compressed(b)) = b

-----------------------------------------------------------------------------
(* Files.                                                                  *)

\* A file that holds nothing but bytes of another one, at their places.
Fits(file, all) ==
  Len(file) <= Len(all) /\ \A k \in DOMAIN file : file[k] \in {0, all[k]}

\* A file whose first n bytes are right.
Right(file, all, n) ==
  n <= Len(file) /\ \A k \in 1 .. n : file[k] = all[k]

\* Writing a piece of a blob at its place.
LEMMA WrittenPiece ==
  ASSUME NEW file \in Seq(Nat), NEW all \in Seq(Nat), NEW at \in Nat, NEW upto \in Nat,
         at <= upto, upto <= Len(all), Len(file) <= Len(all)
  PROVE  LET new == Written(file, at, SubSeq(all, at + 1, upto)) IN
         /\ new \in Seq(Nat)
         /\ Len(new) = IF upto > Len(file) THEN upto ELSE Len(file)
         /\ \A k \in 1 .. Len(new) :
              new[k] = IF at < k /\ k <= upto THEN all[k]
                       ELSE IF k <= Len(file) THEN file[k] ELSE 0
<1> DEFINE bytes == SubSeq(all, at + 1, upto)
           n     == IF at + Len(bytes) > Len(file) THEN at + Len(bytes) ELSE Len(file)
           value(k) == IF k > at /\ k <= at + Len(bytes) THEN bytes[k - at]
                       ELSE IF k <= Len(file) THEN file[k] ELSE 0
           new   == [k \in 1 .. n |-> value(k)]
<1>1. Len(bytes) = upto - at /\ \A k \in 1 .. upto - at : bytes[k] = all[at + k]
  OBVIOUS
<1>2. n = (IF upto > Len(file) THEN upto ELSE Len(file)) /\ n \in Nat /\ n <= Len(all)
  BY <1>1
<1>3. ASSUME NEW k \in 1 .. n
      PROVE  value(k) = IF at < k /\ k <= upto THEN all[k]
                        ELSE IF k <= Len(file) THEN file[k] ELSE 0
  <2>1. CASE k > at /\ k <= upto
    <3>1. k - at \in 1 .. upto - at /\ at + (k - at) = k
      BY <1>2, <2>1
    <3> QED
      BY <1>1, <2>1, <3>1
  <2>2. CASE ~(k > at /\ k <= upto)
    BY <1>1, <1>2, <2>2
  <2> QED
    BY <2>1, <2>2
<1>4. \A k \in 1 .. n : value(k) \in Nat
  BY <1>2, <1>3
<1> HIDE DEF value, n
<1>5. new \in Seq(Nat) /\ Len(new) = n /\ \A k \in 1 .. n : new[k] = value(k)
  BY <1>2, <1>4
<1>6. new = Written(file, at, bytes)
  BY DEF Written, n, value
<1> QED
  BY <1>2, <1>3, <1>5, <1>6

\* It leaves a file of the same bytes, in which what was right stays right, and
\* what comes before the end of the piece becomes so.
LEMMA WrittenRight ==
  ASSUME NEW file \in Seq(Nat), NEW all \in Seq(Nat), NEW at \in Nat, NEW upto \in Nat,
         at <= upto, upto <= Len(all), Fits(file, all)
  PROVE  LET new == Written(file, at, SubSeq(all, at + 1, upto)) IN
         /\ new \in Seq(Nat) /\ Fits(new, all)
         /\ \A n \in Nat : Right(file, all, n) => Right(new, all, n)
         /\ Right(file, all, at) => Right(new, all, upto)
         /\ file = all => new = all
<1> DEFINE new == Written(file, at, SubSeq(all, at + 1, upto))
<1>1. /\ new \in Seq(Nat)
      /\ Len(new) = IF upto > Len(file) THEN upto ELSE Len(file)
      /\ \A k \in 1 .. Len(new) :
           new[k] = IF at < k /\ k <= upto THEN all[k]
                    ELSE IF k <= Len(file) THEN file[k] ELSE 0
  BY WrittenPiece DEF Fits
<1> HIDE DEF new
<1>2. /\ Len(new) \in Nat /\ Len(file) \in Nat /\ Len(all) \in Nat /\ Len(file) <= Len(all)
      /\ Len(file) <= Len(new) /\ upto <= Len(new) /\ Len(new) <= Len(all)
      /\ DOMAIN new = 1 .. Len(new) /\ DOMAIN file = 1 .. Len(file)
  BY <1>1 DEF Fits
<1>3. ASSUME NEW k \in 1 .. Len(new)
      PROVE  /\ at < k /\ k <= upto => new[k] = all[k]
             /\ k <= Len(file) => new[k] = all[k] \/ new[k] = file[k]
             /\ ~(at < k /\ k <= upto) /\ k <= Len(file) => new[k] = file[k]
             /\ k > Len(file) => new[k] \in {0, all[k]}
  BY <1>1
<1>4. Fits(new, all)
  <2>1. ASSUME NEW k \in 1 .. Len(new) PROVE new[k] \in {0, all[k]}
    <3>1. CASE k <= Len(file)
      <4>1. k \in DOMAIN file
        BY <1>2, <3>1
      <4> QED
        BY <1>3, <3>1, <4>1 DEF Fits
    <3>2. CASE k > Len(file)
      BY <1>3, <3>2
    <3> QED
      BY <1>2, <3>1, <3>2
  <2> QED
    BY <1>2, <2>1 DEF Fits
<1>5. ASSUME NEW n \in Nat, Right(file, all, n) PROVE Right(new, all, n)
  <2>1. n <= Len(file) /\ n <= Len(new)
    BY <1>2, <1>5 DEF Right
  <2>2. ASSUME NEW k \in 1 .. n PROVE new[k] = all[k]
    <3>1. k \in 1 .. Len(new) /\ k <= Len(file) /\ file[k] = all[k]
      BY <1>2, <1>5, <2>1 DEF Right
    <3> QED
      BY <1>3, <3>1
  <2> QED
    BY <2>1, <2>2 DEF Right
<1>6. ASSUME Right(file, all, at) PROVE Right(new, all, upto)
  <2>1. ASSUME NEW k \in 1 .. upto PROVE new[k] = all[k]
    <3>1. k \in 1 .. Len(new) /\ k <= upto
      BY <1>2
    <3>2. CASE k <= at
      <4>1. k \in 1 .. at /\ k <= Len(file) /\ file[k] = all[k]
        BY <1>2, <1>6, <3>2 DEF Right
      <4> QED
        BY <1>3, <3>1, <4>1
    <3>3. CASE at < k
      BY <1>3, <3>1, <3>3
    <3> QED
      BY <3>1, <3>2, <3>3
  <2> QED
    BY <1>2, <2>1 DEF Right
<1>7. ASSUME file = all PROVE new = all
  <2>1. Right(all, all, Len(all)) /\ Len(new) = Len(all)
    <3>1. Len(file) = Len(all)
      BY <1>7
    <3>2. Len(new) \in Nat /\ Len(all) \in Nat /\ Len(all) <= Len(new) /\ Len(new) <= Len(all)
      BY <1>2, <3>1
    <3>3. Len(new) = Len(all)
      BY <3>2
    <3> QED
      BY <1>2, <3>3 DEF Right
  <2>2. \A k \in 1 .. Len(all) : new[k] = all[k]
    BY <1>2, <1>5, <1>7, <2>1 DEF Right
  <2> QED
    BY <1>1, <2>1, <2>2
<1> QED
  BY <1>1, <1>4, <1>5, <1>6, <1>7 DEF new

\* A file that is right up to the end is the blob.
LEMMA RightIsWhole ==
  ASSUME NEW file \in Seq(Nat), NEW all \in Seq(Nat), Fits(file, all), Right(file, all, Len(all))
  PROVE  file = all
BY DEF Fits, Right

-----------------------------------------------------------------------------
(* The invariant.                                                          *)

Stages == {"idle", "received", "missing", "writing"}

CasTypeOK ==
  /\ blobs \in [Hashes -> Seq(Nat) \cup {Absent}]
  /\ stage \in [Procs -> Stages]
  /\ expect \in [Procs -> Hashes \cup {<<>>}]
  /\ body \in [Procs -> Bodies \cup {<<>>}]
  /\ position \in [Procs -> Nat]
  /\ status \in [Procs -> {"none", "ok", "failed", "mismatch"}]
  /\ gets \in Nat
  /\ cut \subseteq Hashes

\* A command that writes has opened the file of what it verified.
Verified ==
  \A p \in Procs :
    /\ stage[p] # "idle" => expect[p] \in Hashes /\ body[p] \in Bodies
    /\ stage[p] \in {"missing", "writing"} => expect[p] = body[p]
    /\ stage[p] = "writing" => /\ blobs[expect[p]] # Absent
                               /\ position[p] <= Len(Compressed(expect[p]))
    /\ stage[p] # "writing" => position[p] = 0
    /\ status[p] = "ok" => expect[p] \in Hashes /\ blobs[expect[p]] # Absent

AllFit == \A h \in Hashes : blobs[h] # Absent => Fits(blobs[h], Compressed(h))

\* A command that has written nothing wrong so far, and nobody emptied its file.
Covers(p, h) ==
  stage[p] = "writing" /\ expect[p] = h /\ Right(blobs[h], Compressed(h), position[p])

\* Each file is whole, or the command that emptied it last is at work on it.
Covered ==
  \A h \in Hashes : blobs[h] # Absent /\ h \notin cut =>
    Whole(h) \/ \E p \in Procs : Covers(p, h)

CasInv == CasTypeOK /\ Verified /\ AllFit /\ Covered

LEMMA CasInitInvariant == CasInit => CasInv
<1> SUFFICES ASSUME CasInit PROVE CasInv
  OBVIOUS
<1> USE DEF CasInit
<1>1. CasTypeOK
  BY DEF CasTypeOK, Stages
<1>2. Verified /\ AllFit /\ Covered
  BY DEF Verified, AllFit, Covered
<1> QED
  BY <1>1, <1>2 DEF CasInv

\* A step that writes to no file, after which the commands that were writing
\* still are, or have given up on a blob that counts as cut, or are done.
LEMMA FilesStay ==
  ASSUME CasInv, UNCHANGED blobs, cut \subseteq cut', NEW p \in Procs,
         \A q \in Procs : q # p => /\ stage'[q] = stage[q] /\ expect'[q] = expect[q]
                                   /\ position'[q] = position[q],
         stage[p] = "writing" => \/ expect[p] \in cut'
                                 \/ Covers(p, expect[p]) => Whole(expect[p])
  PROVE  AllFit' /\ Covered'
<1>1. AllFit'
  BY DEF CasInv, AllFit
<1>2. ASSUME NEW h \in Hashes, blobs[h] # Absent, h \notin cut'
      PROVE  blobs[h] = Compressed(h) \/ \E q \in Procs : Covers(q, h)'
  <2>1. Whole(h) \/ \E q \in Procs : Covers(q, h)
    BY <1>2 DEF CasInv, Covered
  <2>2. ASSUME NEW q \in Procs, q # p, Covers(q, h) PROVE Covers(q, h)'
    BY <2>2 DEF Covers
  <2>3. CASE Covers(p, h)
    BY <1>2, <2>3 DEF Covers, Whole
  <2> QED
    BY <2>1, <2>2, <2>3 DEF Whole
<1> QED
  BY <1>1, <1>2 DEF Covered, Whole

LEMMA GetStep == ASSUME CasInv, NEW p \in Procs, Get(p) PROVE CasInv'
<1> USE DEF CasInv, Get
<1>1. CasTypeOK'
  BY CasAssumption DEF CasTypeOK, Stages, Hashes
<1>2. Verified'
  BY DEF CasTypeOK, Stages, Verified
<1>3. AllFit' /\ Covered'
  <2>1. \A q \in Procs : q # p => /\ stage'[q] = stage[q] /\ expect'[q] = expect[q]
                                  /\ position'[q] = position[q]
    BY DEF CasTypeOK
  <2> QED
    BY <2>1, FilesStay
<1> QED
  BY <1>1, <1>2, <1>3

\* A command that ends, other than by writing to the end.
LEMMA ReportStep ==
  ASSUME CasInv, NEW p \in Procs, NEW result \in {"none", "ok", "failed", "mismatch"},
         Report(p, result), UNCHANGED <<blobs, expect, gets>>,
         cut \subseteq cut', cut' \subseteq Hashes,
         result = "ok" => expect[p] \in Hashes /\ blobs[expect[p]] # Absent,
         stage[p] = "writing" => expect[p] \in cut' \/ Whole(expect[p])
  PROVE  CasInv'
<1> USE DEF CasInv, Report
<1>1. CasTypeOK'
  BY DEF CasTypeOK, Stages
<1>2. Verified'
  BY DEF CasTypeOK, Stages, Verified
<1>3. AllFit' /\ Covered'
  <2>1. \A q \in Procs : q # p => /\ stage'[q] = stage[q] /\ expect'[q] = expect[q]
                                  /\ position'[q] = position[q]
    BY DEF CasTypeOK
  <2> QED
    BY <2>1, FilesStay
<1> QED
  BY <1>1, <1>2, <1>3

LEMMA MismatchStep == ASSUME CasInv, NEW p \in Procs, Mismatch(p) PROVE CasInv'
<1>1. cut \subseteq cut' /\ cut' \subseteq Hashes /\ stage[p] # "writing"
  BY DEF Mismatch, CasInv, CasTypeOK
<1> QED
  BY <1>1, ReportStep DEF Mismatch

LEMMA PresentStep == ASSUME CasInv, NEW p \in Procs, Present(p) PROVE CasInv'
<1>1. cut \subseteq cut' /\ cut' \subseteq Hashes /\ stage[p] # "writing"
  BY DEF Present, CasInv, CasTypeOK
<1>2. expect[p] \in Hashes /\ blobs[expect[p]] # Absent
  BY DEF Present, CasInv, Verified
<1> QED
  BY <1>1, <1>2, ReportStep DEF Present

LEMMA NotPresentStep == ASSUME CasInv, NEW p \in Procs, NotPresent(p) PROVE CasInv'
<1> USE DEF CasInv, NotPresent
<1>1. CasTypeOK'
  BY DEF CasTypeOK, Stages
<1>2. Verified'
  BY DEF CasTypeOK, Stages, Verified, Accepted, Sha256
<1>3. AllFit' /\ Covered'
  <2>1. \A q \in Procs : q # p => /\ stage'[q] = stage[q] /\ expect'[q] = expect[q]
                                  /\ position'[q] = position[q]
    BY DEF CasTypeOK
  <2> QED
    BY <2>1, FilesStay
<1> QED
  BY <1>1, <1>2, <1>3

\* The file is empty now, whoever wrote to it before; this command covers it.
LEMMA CreateStep == ASSUME Lossless, CasInv, NEW p \in Procs, Create(p) PROVE CasInv'
<1> USE DEF CasInv, Create
<1>0. <<>> \in Seq(Nat)
  OBVIOUS
<1>1. CasTypeOK'
  BY <1>0 DEF CasTypeOK, Stages
<1>2. expect[p] \in Hashes /\ position[p] = 0 /\ blobs'[expect[p]] = <<>>
  BY DEF CasTypeOK, Verified
<1>3. <<>> # Absent /\ Compressed(expect[p]) \in Seq(Nat)
  BY <1>0, <1>2, CasAssumption DEF Lossless, Hashes
<1>4. Verified'
  <2>1. \A q \in Procs : /\ expect'[q] = expect[q] /\ body'[q] = body[q]
                         /\ position'[q] = position[q] /\ status'[q] = status[q]
                         /\ stage'[q] = IF q = p THEN "writing" ELSE stage[q]
    BY DEF CasTypeOK
  <2>2. \A h \in Hashes : blobs[h] # Absent => blobs'[h] # Absent
    BY <1>3 DEF CasTypeOK
  <2>3. ASSUME NEW q \in Procs, stage'[q] = "writing"
        PROVE  blobs'[expect'[q]] # Absent /\ position'[q] <= Len(Compressed(expect'[q]))
    <3>1. CASE q = p
      BY <1>2, <1>3, <2>1, <3>1
    <3>2. CASE q # p
      BY <2>1, <2>2, <2>3, <3>2 DEF Verified
    <3> QED
      BY <3>1, <3>2
  <2> QED
    BY <2>1, <2>2, <2>3 DEF Verified
<1>5. Fits(<<>>, Compressed(expect[p])) /\ Right(<<>>, Compressed(expect[p]), 0)
  BY <1>3 DEF Fits, Right
<1>6. AllFit'
  BY <1>2, <1>5 DEF AllFit, CasTypeOK
<1>7. Covered'
  <2>1. Covers(p, expect[p])'
    BY <1>2, <1>5 DEF Covers, CasTypeOK
  <2>2. ASSUME NEW h \in Hashes, h # expect[p], blobs'[h] # Absent, h \notin cut'
        PROVE  Whole(h)' \/ \E q \in Procs : Covers(q, h)'
    <3>1. blobs'[h] = blobs[h]
      BY <2>2 DEF CasTypeOK
    <3>2. ASSUME NEW q \in Procs, Covers(q, h) PROVE Covers(q, h)'
      <4>1. q # p
        BY <2>2, <3>2 DEF Covers
      <4> QED
        BY <3>1, <3>2, <4>1 DEF Covers, CasTypeOK
    <3> QED
      BY <2>2, <3>1, <3>2 DEF Covered, Whole
  <2> QED
    BY <2>1, <2>2 DEF Covered
<1> QED
  BY <1>1, <1>4, <1>6, <1>7

\* A piece goes to its place: what is whole stays whole, what a command covers
\* stays covered, by this command up to where it has come.
LEMMA WriteStep == ASSUME Lossless, CasInv, NEW p \in Procs, Write(p) PROVE CasInv'
<1> DEFINE h    == expect[p]
           all  == Compressed(h)
           at   == position[p]
           upto == IF at + ChunkSize < Len(all) THEN at + ChunkSize ELSE Len(all)
           file == blobs[h]
           new  == Written(file, at, SubSeq(all, at + 1, upto))
<1>1. /\ h \in Hashes /\ body[p] = h /\ blobs[h] # Absent /\ blobs[h] \in Seq(Nat)
      /\ all \in Seq(Nat) /\ at \in Nat /\ at <= Len(all)
      /\ file \in Seq(Nat) /\ Fits(file, all)
  BY DEF Write, CasInv, CasTypeOK, Verified, AllFit, Lossless, Hashes
<1>2. upto \in Nat /\ at <= upto /\ upto <= Len(all)
  BY <1>1, CasAssumption
<1>3. /\ stage[p] = "writing"
      /\ blobs' = [blobs EXCEPT ![h] = new]
      /\ position' = [position EXCEPT ![p] = upto]
      /\ UNCHANGED <<stage, expect, body, status, gets, cut>>
  BY <1>1 DEF Write
<1> HIDE DEF upto, all, at, h, file
<1>4. /\ new \in Seq(Nat) /\ Fits(new, all)
      /\ \A n \in Nat : Right(file, all, n) => Right(new, all, n)
      /\ Right(file, all, at) => Right(new, all, upto)
      /\ file = all => new = all
  BY <1>1, <1>2, WrittenRight
<1> USE DEF file
<1> HIDE DEF new
<1>5. /\ \A g \in Hashes : blobs'[g] = IF g = h THEN new ELSE blobs[g]
      /\ \A q \in Procs : position'[q] = IF q = p THEN upto ELSE position[q]
      /\ new # Absent
  BY <1>1, <1>3, <1>4, CasAssumption DEF CasInv, CasTypeOK
<1>6. CasTypeOK'
  BY <1>1, <1>2, <1>3, <1>4 DEF CasInv, CasTypeOK
<1>7. Verified'
  <2>1. \A g \in Hashes : blobs[g] # Absent => blobs'[g] # Absent
    BY <1>5
  <2>2. \A q \in Procs : stage[q] = "writing" => position'[q] <= Len(Compressed(expect[q]))
    BY <1>2, <1>5 DEF CasInv, Verified, all, h
  <2>3. \A q \in Procs : stage[q] # "writing" => position'[q] = 0
    BY <1>3, <1>5 DEF CasInv, Verified
  <2> QED
    BY <1>3, <2>1, <2>2, <2>3 DEF CasInv, Verified
<1>8. AllFit'
  BY <1>4, <1>5 DEF CasInv, AllFit, all
<1>9. Covered'
  <2>1. ASSUME NEW g \in Hashes, Whole(g) PROVE Whole(g)'
    BY <1>4, <1>5, <2>1 DEF Whole, all
  <2>2. ASSUME NEW g \in Hashes, NEW q \in Procs, Covers(q, g) PROVE Covers(q, g)'
    <3>1. stage'[q] = "writing" /\ expect'[q] = g /\ Right(blobs[g], Compressed(g), position[q])
      BY <1>3, <2>2 DEF Covers
    <3>2. position[q] \in Nat
      BY DEF CasInv, CasTypeOK
    <3>3. CASE q = p
      <4>1. g = h /\ position[q] = at
        BY <2>2, <3>3 DEF Covers, h, at
      <4> QED
        BY <1>4, <1>5, <3>1, <3>3, <4>1 DEF Covers, all
    <3>4. CASE q # p /\ g = h
      BY <1>4, <1>5, <3>1, <3>2, <3>4 DEF Covers, all
    <3>5. CASE q # p /\ g # h
      BY <1>5, <3>1, <3>5 DEF Covers
    <3>6. CASE q = p /\ g # h
      BY <2>2, <3>6 DEF Covers, h
    <3> QED
      BY <3>3, <3>4, <3>5, <3>6
  <2>3. \A g \in Hashes : blobs'[g] # Absent => blobs[g] # Absent
    BY <1>1, <1>5
  <2> QED
    BY <1>3, <2>1, <2>2, <2>3 DEF CasInv, Covered
<1> QED
  BY <1>6, <1>7, <1>8, <1>9 DEF CasInv

LEMMA WriteFailsStep == ASSUME CasInv, NEW p \in Procs, WriteFails(p) PROVE CasInv'
<1>1. expect[p] \in Hashes /\ blobs[expect[p]] # Absent
  BY DEF WriteFails, CasInv, Verified
<1>2. cut \subseteq cut' /\ cut' \subseteq Hashes /\ expect[p] \in cut'
  BY <1>1 DEF WriteFails, CasInv, CasTypeOK
<1> QED
  BY <1>1, <1>2, ReportStep DEF WriteFails

\* A command that is done and still covers its file has made it whole.
LEMMA DoneStep == ASSUME Lossless, CasInv, NEW p \in Procs, Done(p) PROVE CasInv'
<1> DEFINE h == expect[p]
<1>1. /\ h \in Hashes /\ blobs[h] # Absent /\ blobs[h] \in Seq(Nat)
      /\ Compressed(h) \in Seq(Nat) /\ Fits(blobs[h], Compressed(h))
      /\ position[p] = Len(Compressed(h)) /\ stage[p] = "writing"
  BY DEF Done, CasInv, CasTypeOK, Verified, AllFit, Lossless, Hashes
<1>2. Covers(p, h) => Whole(h)
  BY <1>1, RightIsWhole DEF Covers, Whole
<1>3. CasTypeOK'
  BY DEF Done, Report, CasInv, CasTypeOK, Stages
<1>4. Verified'
  BY <1>1 DEF Done, Report, CasInv, CasTypeOK, Stages, Verified
<1>5. AllFit' /\ Covered'
  <2>1. \A q \in Procs : q # p => /\ stage'[q] = stage[q] /\ expect'[q] = expect[q]
                                  /\ position'[q] = position[q]
    BY DEF Done, Report, CasInv, CasTypeOK
  <2> QED
    BY <1>2, <2>1, FilesStay DEF Done
<1> QED
  BY <1>3, <1>4, <1>5 DEF CasInv

LEMMA CrashStep == ASSUME CasInv, NEW p \in Procs, Crash(p) PROVE CasInv'
<1>1. cut \subseteq cut' /\ cut' \subseteq Hashes /\ (stage[p] = "writing" => expect[p] \in cut')
  BY DEF Crash, CasInv, CasTypeOK, Verified
<1> QED
  BY <1>1, ReportStep DEF Crash

LEMMA CasStep == ASSUME Lossless, CasInv, [CasNext]_casVars PROVE CasInv'
<1>1. ASSUME NEW p \in Procs, Get(p) PROVE CasInv'
  BY <1>1, GetStep
<1>2. ASSUME NEW p \in Procs, Mismatch(p) PROVE CasInv'
  BY <1>2, MismatchStep
<1>3. ASSUME NEW p \in Procs, Present(p) PROVE CasInv'
  BY <1>3, PresentStep
<1>4. ASSUME NEW p \in Procs, NotPresent(p) PROVE CasInv'
  BY <1>4, NotPresentStep
<1>5. ASSUME NEW p \in Procs, Create(p) PROVE CasInv'
  BY <1>5, CreateStep
<1>6. ASSUME NEW p \in Procs, Write(p) PROVE CasInv'
  BY <1>6, WriteStep
<1>7. ASSUME NEW p \in Procs, WriteFails(p) PROVE CasInv'
  BY <1>7, WriteFailsStep
<1>8. ASSUME NEW p \in Procs, Done(p) PROVE CasInv'
  BY <1>8, DoneStep
<1>9. ASSUME NEW p \in Procs, Crash(p) PROVE CasInv'
  BY <1>9, CrashStep
<1>10. CASE UNCHANGED casVars
  BY <1>10 DEF casVars, CasInv, CasTypeOK, Verified, AllFit, Covered, Covers, Whole
<1> QED
  BY <1>1, <1>2, <1>3, <1>4, <1>5, <1>6, <1>7, <1>8, <1>9, <1>10 DEF CasNext

-----------------------------------------------------------------------------
(* The theorems.                                                           *)

\* The invariant holds in every behaviour of commands that overlap, are killed
\* or run out of disk, if the compression loses nothing.
THEOREM CasInvariant == ASSUME Lossless PROVE CasSpec => []CasInv
<1>1. CasInv /\ [CasNext]_casVars => CasInv'
  BY CasStep
<1> QED
  BY <1>1, CasInitInvariant, PTL DEF CasSpec

\* spec/npkg/registry-protocol.md, 3.3: a byte of a file is that of the body
\* whose hash names it, at its place, or a 0 that a command is about to
\* overwrite, unless one was killed or out of disk while it wrote that blob.
THEOREM OnlyVerifiedBytesAlways == ASSUME Lossless PROVE CasSpec => []OnlyVerifiedBytes
<1>1. CasInv => OnlyVerifiedBytes
  <2> SUFFICES ASSUME CasInv, NEW h \in Hashes, blobs[h] # Absent
               PROVE  /\ Len(blobs[h]) <= Len(Compressed(h))
                      /\ \A k \in DOMAIN blobs[h] : blobs[h][k] # Compressed(h)[k] =>
                           /\ blobs[h][k] = 0
                           /\ h \in cut \/ \E p \in Procs : WillWrite(p, h, k)
    BY DEF OnlyVerifiedBytes
  <2>1. Fits(blobs[h], Compressed(h)) /\ blobs[h] \in Seq(Nat)
    BY DEF CasInv, AllFit, CasTypeOK
  <2>2. ASSUME NEW k \in DOMAIN blobs[h], blobs[h][k] # Compressed(h)[k], h \notin cut
        PROVE  \E p \in Procs : WillWrite(p, h, k)
    <3>1. PICK p \in Procs : Covers(p, h)
      BY <2>2 DEF CasInv, Covered, Whole
    <3>2. position[p] \in Nat /\ k \in Nat \ {0}
      BY <2>1 DEF CasInv, CasTypeOK
    <3>3. ~(k <= position[p])
      BY <2>2, <3>1, <3>2 DEF Covers, Right
    <3> QED
      BY <3>1, <3>2, <3>3 DEF Covers, WillWrite
  <2> QED
    BY <2>1, <2>2 DEF Fits
<1> QED
  BY <1>1, CasInvariant, PTL

\* cas.c, npkg_cas_put: a file nobody writes to is the whole blob and expands
\* to the data, unless a command was killed or ran out of disk while it wrote
\* it; a command that reports success leaves a file.
THEOREM AtRestBlobsAreAlwaysWhole == ASSUME Lossless PROVE CasSpec => []AtRestBlobsAreWhole
<1>1. CasInv => AtRestBlobsAreWhole
  <2> SUFFICES ASSUME CasInv PROVE AtRestBlobsAreWhole
    OBVIOUS
  <2>1. ASSUME NEW h \in Hashes, blobs[h] # Absent, ~BeingWritten(h), h \notin cut
        PROVE  Whole(h) /\ Expanded(blobs[h]) = h
    <3>1. Whole(h)
      BY <2>1 DEF CasInv, Covered, Covers, BeingWritten
    <3> QED
      BY <3>1 DEF Whole, Lossless, Hashes
  <2> QED
    BY <2>1 DEF CasInv, Verified, AtRestBlobsAreWhole
<1> QED
  BY <1>1, CasInvariant, PTL
=============================================================================
