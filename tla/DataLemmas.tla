----------------------------- MODULE DataLemmas -----------------------------
(***************************************************************************)
(* Lemmas about the data the models are built from, which several modules  *)
(* of proofs cite: least numbers, functions defined by recursion on a      *)
(* number, the elements Only keeps, flattened sequences and folds.         *)
(*                                                                         *)
(* The provers cannot instantiate a lemma with an operator as parameter.   *)
(* So induction is stated over a set, and recursion over a function F of   *)
(* the step and the value before.                                          *)
(***************************************************************************)
EXTENDS Selection, SequencesExt, SequenceTheorems, WellFoundedInduction, TLAPS

-----------------------------------------------------------------------------
(* Least numbers, induction, recursion.                                    *)

\* The order of the natural numbers is a well-founded relation.
LEMMA LessThan ==
  \E R : IsWellFoundedOn(R, Nat) /\ \A x, y \in Nat : <<x, y>> \in R <=> x < y
<1> DEFINE R == {ss \in Nat \X Nat : ss[1] < ss[2]}
<1>1. IsWellFoundedOn(OpToRel(<, Nat), Nat)
  BY NatLessThanWellFounded, Zenon
<1>2. OpToRel(<, Nat) = R
  BY Zenon DEF OpToRel
<1>3. IsWellFoundedOn(R, Nat)
  BY <1>1, <1>2, Zenon
<1>4. \A x, y \in Nat : <<x, y>> \in R <=> x < y
  OBVIOUS
<1> QED
  BY <1>3, <1>4, Zenon

\* The first of what there is: of the lines with a name (find_dep of
\* resolver.c), or of those with an input (a1_build_graph_record).
LEMMA LeastNumber ==
  ASSUME NEW S \in SUBSET Nat, S # {}
  PROVE  \E x \in S : \A y \in S : x <= y
<1>0. S \subseteq Nat /\ S # {}
  OBVIOUS
<1>1. PICK R : IsWellFoundedOn(R, Nat) /\ \A x, y \in Nat : <<x, y>> \in R <=> x < y
  BY LessThan
<1>2. ASSUME NEW Q, NEW T, IsWellFoundedOn(Q, T), NEW U, U \subseteq T, U # {}
      PROVE \E x \in U : \A y \in U : <<y, x>> \notin Q
  BY WFMin, <1>2, Zenon
<1>3. PICK x \in S : \A y \in S : <<y, x>> \notin R
  <2>1. IsWellFoundedOn(R, Nat)
    BY <1>1, Zenon
  <2>2. \A U : U \subseteq Nat /\ U # {} => \E z \in U : \A y \in U : <<y, z>> \notin R
    BY <2>1, <1>2, Zenon
  <2> QED
    BY <1>0, <2>2, Zenon
<1>4. ASSUME NEW y \in S PROVE x <= y
  <2>1. x \in Nat /\ y \in Nat
    BY <1>0
  <2>2. <<y, x>> \in R <=> y < x
    BY <1>1, <2>1, Zenon
  <2> QED
    BY <2>1, <2>2, <1>3
<1> QED
  BY <1>4

\* Induction up to a number: a set that has 0, and with a number the next.
LEMMA UpTo ==
  ASSUME NEW n \in Nat, NEW P, 0 \in P, \A i \in 1 .. n : i - 1 \in P => i \in P
  PROVE  0 .. n \subseteq P
<1> DEFINE bad == {i \in 0 .. n : i \notin P}
<1>1. CASE bad # {}
  <2>1. PICK i \in bad : \A j \in bad : i <= j
    BY <1>1, LeastNumber, bad \in SUBSET Nat
  <2>2. i \in 1 .. n /\ i - 1 \in 0 .. n /\ i - 1 \notin bad
    BY <2>1
  <2> QED
    BY <2>2
<1> QED
  BY <1>1

\* f starts with a, and F says how it goes on.
Runs(f, n, A, a, F) ==
  f \in [0 .. n -> A] /\ f[0] = a /\ \A i \in 1 .. n : f[i] = F[i][f[i - 1]]

\* There is a function that is defined by recursion.
LEMMA Recursion ==
  ASSUME NEW n \in Nat, NEW A, NEW a \in A, NEW F \in [1 .. n -> [A -> A]]
  PROVE  \E f : Runs(f, n, A, a, F)
<1> DEFINE P == {m \in 0 .. n : \E f : Runs(f, m, A, a, F)}
<1>1. \E f : Runs(f, 0, A, a, F)
  <2>1. Runs([i \in 0 .. 0 |-> a], 0, A, a, F)
    BY DEF Runs
  <2> QED
    BY <2>1, Zenon
<1>2. ASSUME NEW m \in 1 .. n, NEW f, Runs(f, m - 1, A, a, F)
      PROVE  \E g : Runs(g, m, A, a, F)
  <2> DEFINE g == [i \in 0 .. m |-> IF i < m THEN f[i] ELSE F[m][f[m - 1]]]
  <2>0. f[m - 1] \in A /\ m - 1 \in 0 .. m - 1
    BY <1>2 DEF Runs
  <2>2. g \in [0 .. m -> A]
    BY <1>2, <2>0 DEF Runs
  <2>3. \A i \in 0 .. m - 1 : g[i] = f[i]
    OBVIOUS
  <2>4. g[m] = F[m][g[m - 1]]
    BY <2>3
  <2> HIDE DEF g
  <2>5. Runs(g, m, A, a, F)
    <3>1. \A i \in 1 .. m - 1 : i \in 0 .. m - 1 /\ i - 1 \in 0 .. m - 1
      OBVIOUS
    <3>2. \A i \in 1 .. m - 1 : g[i] = F[i][g[i - 1]]
      BY <1>2, <2>3, <3>1 DEF Runs
    <3>3. g[0] = a
      BY <1>2, <2>3 DEF Runs
    <3> QED
      BY <2>2, <2>4, <3>2, <3>3 DEF Runs
  <2> QED
    BY <2>5, Zenon
<1>3. n \in P
  <2>1. \A m \in 1 .. n : m - 1 \in P => m \in P
    BY <1>2
  <2>2. 0 \in P
    BY <1>1
  <2> HIDE DEF P
  <2>3. 0 .. n \subseteq P
    BY <2>1, <2>2, UpTo
  <2> QED
    BY <2>3
<1> QED
  BY <1>3

-----------------------------------------------------------------------------
(* What Only keeps.                                                        *)

\* kept[n] is what a loop has kept after n elements of seq.
KeepsOnly(kept, seq, S, A) ==
  /\ kept \in [0 .. Len(seq) -> Seq(A)] /\ kept[0] = <<>>
  /\ \A n \in 1 .. Len(seq) :
       kept[n] = IF seq[n] \in S THEN Append(kept[n - 1], seq[n]) ELSE kept[n - 1]

\* Only is the last value of such a loop, and there is one such loop.
LEMMA OnlySteps ==
  ASSUME NEW A, NEW seq \in Seq(A), NEW S
  PROVE  \E kept : KeepsOnly(kept, seq, S, A) /\ Only(seq, S) = kept[Len(seq)]
<1> DEFINE F == [n \in 1 .. Len(seq) |-> [s \in Seq(A) |->
                   IF seq[n] \in S THEN Append(s, seq[n]) ELSE s]]
           Is(g) == g = [n \in 0 .. Len(seq) |->
                        IF n = 0 THEN <<>>
                        ELSE IF seq[n] \in S THEN Append(g[n - 1], seq[n]) ELSE g[n - 1]]
           kept == CHOOSE g : Is(g)
<1>0. Len(seq) \in Nat /\ <<>> \in Seq(A)
  OBVIOUS
<1>1. F \in [1 .. Len(seq) -> [Seq(A) -> Seq(A)]]
  OBVIOUS
<1>2. PICK f : Runs(f, Len(seq), Seq(A), <<>>, F)
  <2> HIDE DEF F
  <2> QED
    BY <1>0, <1>1, Recursion
<1>3. Is(f)
  <2>1. f \in [0 .. Len(seq) -> Seq(A)] /\ f[0] = <<>>
    BY <1>2 DEF Runs
  <2>2. ASSUME NEW n \in 1 .. Len(seq)
        PROVE  f[n] = IF seq[n] \in S THEN Append(f[n - 1], seq[n]) ELSE f[n - 1]
    <3>1. f[n - 1] \in Seq(A)
      BY <2>1
    <3>2. f[n] = F[n][f[n - 1]]
      BY <1>2, Zenon DEF Runs
    <3> QED
      BY <3>1, <3>2
  <2>3. \A n \in 0 .. Len(seq) : n # 0 => n \in 1 .. Len(seq)
    OBVIOUS
  <2> QED
    BY <2>1, <2>2, <2>3
<1>4. Is(kept)
  <2> HIDE DEF Is
  <2> QED
    BY <1>3, Zenon
<1>5. Only(seq, S) = kept[Len(seq)]
  BY DEF Only
<1> HIDE DEF kept, F
<1>6. DOMAIN kept = 0 .. Len(seq) /\ kept = [n \in DOMAIN kept |-> kept[n]] /\ kept[0] = <<>>
  BY <1>4
<1>7. ASSUME NEW n \in 1 .. Len(seq)
      PROVE  kept[n] = IF seq[n] \in S THEN Append(kept[n - 1], seq[n]) ELSE kept[n - 1]
  <2>1. n \in 0 .. Len(seq) /\ n # 0
    OBVIOUS
  <2> QED
    BY <1>4, <2>1, Zenon
<1>8. 0 .. Len(seq) \subseteq {n \in 0 .. Len(seq) : kept[n] \in Seq(A)}
  <2> DEFINE P == {n \in 0 .. Len(seq) : kept[n] \in Seq(A)}
  <2>1. 0 \in P
    BY <1>6
  <2>2. ASSUME NEW n \in 1 .. Len(seq), n - 1 \in P
        PROVE  n \in P
    <3>1. Append(kept[n - 1], seq[n]) \in Seq(A)
      BY <2>2
    <3>2. kept[n] = Append(kept[n - 1], seq[n]) \/ kept[n] = kept[n - 1]
      BY <1>7, Zenon
    <3>3. kept[n] \in Seq(A)
      BY <2>2, <3>1, <3>2
    <3> QED
      BY <3>3
  <2> HIDE DEF P
  <2>3. 0 .. Len(seq) \subseteq P
    BY <1>0, <2>1, <2>2, UpTo
  <2> QED
    BY <2>3 DEF P
<1>9. KeepsOnly(kept, seq, S, A)
  BY <1>6, <1>7, <1>8 DEF KeepsOnly
<1> QED
  BY <1>5, <1>9

\* It keeps the elements that are in S, and no others, and is no longer.
LEMMA OnlyKeeps ==
  ASSUME NEW A, NEW seq \in Seq(A), NEW S
  PROVE  /\ Only(seq, S) \in Seq(A) /\ Len(Only(seq, S)) <= Len(seq)
         /\ Range(Only(seq, S)) = Range(seq) \cap S
<1>1. PICK kept : KeepsOnly(kept, seq, S, A) /\ Only(seq, S) = kept[Len(seq)]
  BY OnlySteps
<1> DEFINE P == {n \in 0 .. Len(seq) :
                   /\ Len(kept[n]) <= n
                   /\ Range(kept[n]) = {seq[i] : i \in 1 .. n} \cap S}
<1>2. 0 \in P
  BY <1>1 DEF KeepsOnly, Range
<1>3. ASSUME NEW n \in 1 .. Len(seq), n - 1 \in P
      PROVE  n \in P
  <2>1. kept[n - 1] \in Seq(A) /\ seq[n] \in A
    BY <1>1 DEF KeepsOnly
  <2>2. {seq[i] : i \in 1 .. n} = {seq[i] : i \in 1 .. n - 1} \cup {seq[n]}
    OBVIOUS
  <2>3. CASE seq[n] \in S
    <3>1. kept[n] = Append(kept[n - 1], seq[n])
      BY <1>1, <2>3 DEF KeepsOnly
    <3>2. Range(kept[n]) = Range(kept[n - 1]) \cup {seq[n]} /\ Len(kept[n]) = Len(kept[n - 1]) + 1
      BY <2>1, <3>1, SMTT(30) DEF Range
    <3>3. Len(kept[n]) <= n
      BY <1>3, <2>1, <3>2
    <3> QED
      BY <1>3, <2>2, <2>3, <3>2, <3>3
  <2>4. CASE seq[n] \notin S
    <3>1. kept[n] = kept[n - 1]
      BY <1>1, <2>4 DEF KeepsOnly
    <3>2. Len(kept[n]) <= n
      BY <1>3, <2>1, <3>1
    <3> QED
      BY <1>3, <2>2, <2>4, <3>1, <3>2
  <2> QED
    BY <2>3, <2>4
<1>4. Len(seq) \in P
  <2> HIDE DEF P
  <2>1. \A n \in 1 .. Len(seq) : n - 1 \in P => n \in P
    BY <1>3
  <2>2. 0 .. Len(seq) \subseteq P
    BY <1>2, <2>1, UpTo, Len(seq) \in Nat
  <2> QED
    BY <2>2
<1>5. Only(seq, S) \in Seq(A)
  BY <1>1 DEF KeepsOnly
<1> QED
  BY <1>1, <1>4, <1>5 DEF Range

\* Where it keeps everything, it keeps the sequence; where nothing, nothing.
LEMMA OnlyAllOrNone ==
  ASSUME NEW A, NEW seq \in Seq(A), NEW S
  PROVE  /\ Range(seq) \subseteq S => Only(seq, S) = seq
         /\ Range(seq) \cap S = {} => Only(seq, S) = <<>>
<1>1. PICK kept : KeepsOnly(kept, seq, S, A) /\ Only(seq, S) = kept[Len(seq)]
  BY OnlySteps
<1>2. ASSUME Range(seq) \subseteq S PROVE Only(seq, S) = seq
  <2> DEFINE P == {n \in 0 .. Len(seq) : kept[n] = SubSeq(seq, 1, n)}
  <2>1. 0 \in P
    BY <1>1 DEF KeepsOnly
  <2>2. ASSUME NEW n \in 1 .. Len(seq), n - 1 \in P
        PROVE  n \in P
    <3>0. seq[n] \in S
      BY <1>2 DEF Range
    <3>1. kept[n] = Append(kept[n - 1], seq[n])
      BY <1>1, <3>0, Zenon DEF KeepsOnly
    <3>2. SubSeq(seq, 1, n) = Append(SubSeq(seq, 1, n - 1), seq[n])
      OBVIOUS
    <3>3. kept[n - 1] = SubSeq(seq, 1, n - 1)
      BY <2>2
    <3>4. kept[n] = SubSeq(seq, 1, n)
      BY <3>1, <3>2, <3>3, Zenon
    <3> QED
      BY <3>4
  <2>3. Len(seq) \in P
    <3> HIDE DEF P
    <3>1. 0 .. Len(seq) \subseteq P
      BY <2>1, <2>2, UpTo, Len(seq) \in Nat
    <3> QED
      BY <3>1
  <2>4. SubSeq(seq, 1, Len(seq)) = seq
    OBVIOUS
  <2> QED
    BY <1>1, <2>3, <2>4
<1>3. ASSUME Range(seq) \cap S = {} PROVE Only(seq, S) = <<>>
  <2> DEFINE o == Only(seq, S)
  <2>1. Range(o) = {} /\ o \in Seq(A)
    BY <1>3, OnlyKeeps
  <2> HIDE DEF o
  <2>2. o # <<>> => 1 \in DOMAIN o
    BY <2>1
  <2>3. o = <<>>
    BY <2>1, <2>2 DEF Range
  <2> QED
    BY <2>3 DEF o
<1> QED
  BY <1>2, <1>3

\* What is kept of two sequences one after the other.
LEMMA OnlyConcat ==
  ASSUME NEW A, NEW s \in Seq(A), NEW t \in Seq(A), NEW S
  PROVE  Only(s \o t, S) = Only(s, S) \o Only(t, S)
<1> DEFINE st == s \o t
<1>0. /\ st \in Seq(A) /\ Len(st) = Len(s) + Len(t)
      /\ \A n \in 1 .. Len(s) : st[n] = s[n]
      /\ \A n \in 1 .. Len(t) : st[Len(s) + n] = t[n]
      /\ Len(s) \in Nat /\ Len(t) \in Nat
  OBVIOUS
<1> HIDE DEF st
<1>1. PICK k : KeepsOnly(k, st, S, A) /\ Only(st, S) = k[Len(st)]
  BY <1>0, OnlySteps
<1>2. PICK ks : KeepsOnly(ks, s, S, A) /\ Only(s, S) = ks[Len(s)]
  BY OnlySteps
<1>3. PICK kt : KeepsOnly(kt, t, S, A) /\ Only(t, S) = kt[Len(t)]
  BY OnlySteps
<1>4. ASSUME NEW u \in Seq(A), NEW v \in Seq(A), NEW x \in A
      PROVE  Append(u \o v, x) = u \o Append(v, x)
  <2> DEFINE one == <<x>>
  <2>1. one \in Seq(A) /\ u \o v \in Seq(A)
    OBVIOUS
  <2>2. Append(u \o v, x) = (u \o v) \o one /\ Append(v, x) = v \o one
    BY <2>1, AppendIsConcat
  <2> HIDE DEF one
  <2>3. (u \o v) \o one = u \o (v \o one)
    BY <2>1, ConcatAssociative, SMTT(30)
  <2> QED
    BY <2>2, <2>3
<1>5. k[Len(s)] = ks[Len(s)]
  <2> DEFINE P == {n \in 0 .. Len(s) : k[n] = ks[n]}
  <2>1. 0 \in P
    BY <1>0, <1>1, <1>2 DEF KeepsOnly
  <2>2. ASSUME NEW n \in 1 .. Len(s), n - 1 \in P
        PROVE  n \in P
    <3>1. n \in 1 .. Len(st) /\ st[n] = s[n]
      BY <1>0
    <3>2. k[n] = IF st[n] \in S THEN Append(k[n - 1], st[n]) ELSE k[n - 1]
      BY <1>1, <3>1 DEF KeepsOnly
    <3>3. ks[n] = IF s[n] \in S THEN Append(ks[n - 1], s[n]) ELSE ks[n - 1]
      BY <1>2 DEF KeepsOnly
    <3> QED
      BY <2>2, <3>1, <3>2, <3>3
  <2> HIDE DEF P
  <2>3. 0 .. Len(s) \subseteq P
    BY <1>0, <2>1, <2>2, UpTo
  <2> QED
    BY <1>0, <2>3, SMTT(30) DEF P
<1>6. k[Len(s) + Len(t)] = ks[Len(s)] \o kt[Len(t)]
  <2> DEFINE P == {n \in 0 .. Len(t) : k[Len(s) + n] = ks[Len(s)] \o kt[n]}
             base == ks[Len(s)]
  <2>0. base \in Seq(A)
    BY <1>0, <1>2 DEF KeepsOnly
  <2>1. 0 \in P
    <3>1. kt[0] = <<>> /\ base \o <<>> = base
      BY <1>3, <2>0 DEF KeepsOnly
    <3>2. k[Len(s) + 0] = base
      BY <1>0, <1>5
    <3>3. k[Len(s) + 0] = base \o kt[0] /\ 0 \in 0 .. Len(t)
      BY <1>0, <3>1, <3>2
    <3> QED
      BY <3>3
  <2>2. ASSUME NEW n \in 1 .. Len(t), n - 1 \in P
        PROVE  n \in P
    <3> DEFINE m == Len(s) + n
    <3>1. m \in 1 .. Len(st) /\ st[m] = t[n] /\ m - 1 = Len(s) + (n - 1)
      BY <1>0
    <3>2. k[m] = IF st[m] \in S THEN Append(k[m - 1], st[m]) ELSE k[m - 1]
      BY <1>1, <3>1 DEF KeepsOnly
    <3>3. kt[n] = IF t[n] \in S THEN Append(kt[n - 1], t[n]) ELSE kt[n - 1]
      BY <1>3 DEF KeepsOnly
    <3>4. k[m - 1] = base \o kt[n - 1]
      BY <2>2, <3>1
    <3> DEFINE v == kt[n - 1]  x == t[n]
    <3>5. v \in Seq(A) /\ x \in A
      BY <1>3 DEF KeepsOnly
    <3> HIDE DEF m, base, v, x
    <3>6. Append(base \o v, x) = base \o Append(v, x)
      BY <1>4, <2>0, <3>5
    <3>7. k[m] = base \o kt[n]
      BY <3>1, <3>2, <3>3, <3>4, <3>6, Zenon DEF v, x
    <3>8. n \in 0 .. Len(t)
      OBVIOUS
    <3> QED
      BY <3>7, <3>8 DEF m, base
  <2>3. Len(t) \in P
    <3> HIDE DEF P
    <3>1. 0 .. Len(t) \subseteq P
      BY <1>0, <2>1, <2>2, UpTo
    <3> QED
      BY <1>0, <3>1
  <2> QED
    BY <2>3
<1> QED
  BY <1>0, <1>1, <1>2, <1>3, <1>6 DEF st

\* The same, of all sequences over a set.
Splits(S, A) == \A s, t \in Seq(A) : Only(s \o t, S) = Only(s, S) \o Only(t, S)

\* The same as a definition.
LEMMA OnlySplits ==
  ASSUME NEW A, NEW S
  PROVE  Splits(S, A)
BY OnlyConcat DEF Splits

\* What is kept of a single element, and of a sequence that grows at one end
\* and shrinks at the other.
LEMMA OnlySingle ==
  ASSUME NEW A, NEW x \in A, NEW S
  PROVE  Only(<<x>>, S) = IF x \in S THEN <<x>> ELSE <<>>
<1>1. <<x>> \in Seq(A) /\ Range(<<x>>) = {x}
  BY DEF Range
<1> QED
  BY <1>1, OnlyAllOrNone

\* The filter of a sequence with one more element.
LEMMA OnlyAppend ==
  ASSUME NEW A, NEW seq \in Seq(A), NEW x \in A, NEW S
  PROVE  Only(Append(seq, x), S) = IF x \in S THEN Append(Only(seq, S), x) ELSE Only(seq, S)
<1> DEFINE one == <<x>>
<1>1. Append(seq, x) = seq \o one /\ one \in Seq(A)
  OBVIOUS
<1>2. Only(Append(seq, x), S) = Only(seq, S) \o Only(one, S)
  <2> HIDE DEF one
  <2> QED
    BY <1>1, OnlyConcat
<1>3. Only(seq, S) \in Seq(A)
  BY OnlyKeeps
<1>4. Only(seq, S) \o <<x>> = Append(Only(seq, S), x) /\ Only(seq, S) \o <<>> = Only(seq, S)
  BY <1>3
<1> QED
  BY <1>2, <1>4, OnlySingle

\* The filter from the front.
LEMMA OnlyHeadTail ==
  ASSUME NEW A, NEW seq \in Seq(A), seq # <<>>, NEW S
  PROVE  Only(seq, S) = IF Head(seq) \in S THEN <<Head(seq)>> \o Only(Tail(seq), S)
                                           ELSE Only(Tail(seq), S)
<1>1. seq = <<Head(seq)>> \o Tail(seq) /\ Head(seq) \in A /\ Tail(seq) \in Seq(A)
      /\ <<Head(seq)>> \in Seq(A)
  OBVIOUS
<1>2. Only(seq, S) = Only(<<Head(seq)>>, S) \o Only(Tail(seq), S)
  <2> DEFINE h == <<Head(seq)>>  r == Tail(seq)
  <2>1. h \in Seq(A) /\ r \in Seq(A) /\ seq = h \o r
    BY <1>1
  <2> HIDE DEF h, r
  <2>2. Only(h \o r, S) = Only(h, S) \o Only(r, S)
    BY <2>1, OnlyConcat
  <2> QED
    BY <2>1, <2>2 DEF h, r
<1>3. Only(Tail(seq), S) \in Seq(A)
  BY <1>1, OnlyKeeps
<1>4. <<>> \o Only(Tail(seq), S) = Only(Tail(seq), S)
  BY <1>3
<1> QED
  BY <1>1, <1>2, <1>4, OnlySingle

\* It does not matter what else is in S.
LEMMA OnlyAlike ==
  ASSUME NEW A, NEW seq \in Seq(A), NEW S, NEW T,
         \A i \in 1 .. Len(seq) : seq[i] \in S <=> seq[i] \in T
  PROVE  Only(seq, S) = Only(seq, T)
<1>1. PICK k : KeepsOnly(k, seq, S, A) /\ Only(seq, S) = k[Len(seq)]
  BY OnlySteps
<1>2. PICK l : KeepsOnly(l, seq, T, A) /\ Only(seq, T) = l[Len(seq)]
  BY OnlySteps
<1> DEFINE P == {n \in 0 .. Len(seq) : k[n] = l[n]}
<1>3. 0 \in P
  BY <1>1, <1>2 DEF KeepsOnly
<1>4. ASSUME NEW n \in 1 .. Len(seq), n - 1 \in P
      PROVE  n \in P
  <2>1. k[n - 1] = l[n - 1]
    BY <1>4
  <2>2. k[n] = l[n]
    BY <1>1, <1>2, <2>1, Zenon DEF KeepsOnly
  <2> QED
    BY <2>2
<1>5. Len(seq) \in P
  <2> HIDE DEF P
  <2>1. 0 .. Len(seq) \subseteq P
    BY <1>3, <1>4, UpTo, Len(seq) \in Nat
  <2> QED
    BY <2>1
<1> QED
  BY <1>1, <1>2, <1>5

\* As much is kept of two sequences that are alike, place by place, in what is
\* kept.
LEMMA OnlyAlong ==
  ASSUME NEW A, NEW B, NEW s \in Seq(A), NEW t \in Seq(B), Len(s) = Len(t), NEW S, NEW T,
         \A i \in 1 .. Len(s) : s[i] \in S <=> t[i] \in T
  PROVE  Len(Only(s, S)) = Len(Only(t, T))
<1>1. PICK k : KeepsOnly(k, s, S, A) /\ Only(s, S) = k[Len(s)]
  BY OnlySteps
<1>2. PICK l : KeepsOnly(l, t, T, B) /\ Only(t, T) = l[Len(t)]
  BY OnlySteps
<1> DEFINE P == {n \in 0 .. Len(s) : Len(k[n]) = Len(l[n])}
<1>3. 0 \in P
  BY <1>1, <1>2 DEF KeepsOnly
<1>4. ASSUME NEW n \in 1 .. Len(s), n - 1 \in P
      PROVE  n \in P
  <2>1. Len(k[n - 1]) = Len(l[n - 1]) /\ k[n - 1] \in Seq(A) /\ l[n - 1] \in Seq(B)
    <3>1. n - 1 \in 0 .. Len(s) /\ n - 1 \in 0 .. Len(t)
      OBVIOUS
    <3> QED
      BY <1>1, <1>2, <1>4, <3>1 DEF KeepsOnly
  <2>2. /\ k[n] = IF s[n] \in S THEN Append(k[n - 1], s[n]) ELSE k[n - 1]
        /\ l[n] = IF t[n] \in T THEN Append(l[n - 1], t[n]) ELSE l[n - 1]
        /\ s[n] \in S <=> t[n] \in T
    BY <1>1, <1>2 DEF KeepsOnly
  <2>3. Len(k[n]) = Len(l[n])
    BY <2>1, <2>2
  <2> QED
    BY <2>3
<1>5. Len(s) \in P
  <2> HIDE DEF P
  <2>1. 0 .. Len(s) \subseteq P
    BY <1>3, <1>4, UpTo, Len(s) \in Nat
  <2> QED
    BY <2>1
<1> QED
  BY <1>1, <1>2, <1>5

\* So it is if each element of t stands for a pair of s of which only the second
\* can be kept.
LEMMA OnlyPaired ==
  ASSUME NEW A, NEW B, NEW s \in Seq(A), NEW t \in Seq(B), Len(s) = 2 * Len(t), NEW S, NEW T,
         \A i \in 1 .. Len(t) : s[2 * i - 1] \notin S /\ (s[2 * i] \in S <=> t[i] \in T)
  PROVE  Len(Only(s, S)) = Len(Only(t, T))
<1>1. PICK k : KeepsOnly(k, s, S, A) /\ Only(s, S) = k[Len(s)]
  BY OnlySteps
<1>2. PICK l : KeepsOnly(l, t, T, B) /\ Only(t, T) = l[Len(t)]
  BY OnlySteps
<1> DEFINE P == {n \in 0 .. Len(t) : Len(k[2 * n]) = Len(l[n])}
<1>3. 0 \in P
  BY <1>1, <1>2 DEF KeepsOnly
<1>4. ASSUME NEW n \in 1 .. Len(t), n - 1 \in P
      PROVE  n \in P
  <2>1. Len(k[2 * n - 2]) = Len(l[n - 1]) /\ k[2 * n - 2] \in Seq(A) /\ l[n - 1] \in Seq(B)
    <3>1. 2 * (n - 1) = 2 * n - 2 /\ 2 * n - 2 \in 0 .. Len(s) /\ n - 1 \in 0 .. Len(t)
      OBVIOUS
    <3> QED
      BY <1>1, <1>2, <1>4, <3>1 DEF KeepsOnly
  <2>2. k[2 * n - 1] = k[2 * n - 2]
    <3>1. 2 * n - 1 \in 1 .. Len(s) /\ (2 * n - 1) - 1 = 2 * n - 2 /\ s[2 * n - 1] \notin S
      OBVIOUS
    <3> QED
      BY <1>1, <3>1 DEF KeepsOnly
  <2>3. /\ k[2 * n] = IF s[2 * n] \in S THEN Append(k[2 * n - 1], s[2 * n]) ELSE k[2 * n - 1]
        /\ l[n] = IF t[n] \in T THEN Append(l[n - 1], t[n]) ELSE l[n - 1]
        /\ s[2 * n] \in S <=> t[n] \in T
    <3>1. 2 * n \in 1 .. Len(s)
      OBVIOUS
    <3> QED
      BY <1>1, <1>2, <3>1 DEF KeepsOnly
  <2>4. Len(k[2 * n]) = Len(l[n])
    <3> DEFINE a == s[2 * n]
               b == t[n]
               u == k[2 * n - 2]
               v == l[n - 1]
    <3>1. /\ u \in Seq(A) /\ v \in Seq(B) /\ Len(u) = Len(v) /\ a \in A /\ b \in B
      <4>1. 2 * n \in 1 .. Len(s)
        OBVIOUS
      <4> QED
        BY <2>1, <4>1
    <3>2. /\ k[2 * n] = IF a \in S THEN Append(u, a) ELSE u
          /\ l[n] = IF b \in T THEN Append(v, b) ELSE v
          /\ a \in S <=> b \in T
      BY <2>2, <2>3, Zenon
    <3> HIDE DEF a, b, u, v
    <3>3. Len(Append(u, a)) = Len(Append(v, b))
      BY <3>1
    <3>4. CASE a \in S
      BY <3>2, <3>3, <3>4, Zenon
    <3>5. CASE a \notin S
      BY <3>1, <3>2, <3>5, Zenon
    <3> QED
      BY <3>4, <3>5
  <2> QED
    BY <2>4
<1>5. Len(t) \in P
  <2> HIDE DEF P
  <2>1. 0 .. Len(t) \subseteq P
    BY <1>3, <1>4, UpTo, Len(t) \in Nat
  <2> QED
    BY <2>1
<1> QED
  BY <1>1, <1>2, <1>5

-----------------------------------------------------------------------------
(* Sequences one after the other.                                          *)

\* flat[i] is the first i sequences, one after the other.
Flattens(flat, seqs, A) ==
  /\ flat \in [0 .. Len(seqs) -> Seq(A)] /\ flat[0] = <<>>
  /\ \A i \in 1 .. Len(seqs) : flat[i] = flat[i - 1] \o seqs[i]

\* FlattenSeq is the last of these.
LEMMA FlattenSteps ==
  ASSUME NEW A, NEW seqs \in Seq(Seq(A))
  PROVE  \E flat : Flattens(flat, seqs, A) /\ FlattenSeq(seqs) = flat[Len(seqs)]
<1> DEFINE F == [i \in 1 .. Len(seqs) |-> [s \in Seq(A) |-> s \o seqs[i]]]
           Is(g) == g = [i \in 1 .. Len(seqs) |-> IF i = 1 THEN seqs[i] ELSE g[i - 1] \o seqs[i]]
           flat == CHOOSE g : Is(g)
<1>0. Len(seqs) \in Nat /\ <<>> \in Seq(A) /\ \A i \in 1 .. Len(seqs) : seqs[i] \in Seq(A)
  OBVIOUS
<1>1. F \in [1 .. Len(seqs) -> [Seq(A) -> Seq(A)]]
  OBVIOUS
<1>2. PICK f : Runs(f, Len(seqs), Seq(A), <<>>, F)
  <2> HIDE DEF F
  <2> QED
    BY <1>0, <1>1, Recursion
<1>3. f \in [0 .. Len(seqs) -> Seq(A)] /\ f[0] = <<>>
  BY <1>2 DEF Runs
<1>4. ASSUME NEW i \in 1 .. Len(seqs)
      PROVE  f[i] = f[i - 1] \o seqs[i]
  <2>1. f[i - 1] \in Seq(A)
    <3>1. i - 1 \in 0 .. Len(seqs)
      BY <1>0
    <3> QED
      BY <1>3, <3>1
  <2>2. f[i] = F[i][f[i - 1]]
    BY <1>2, Zenon DEF Runs
  <2> QED
    BY <2>1, <2>2
<1>5. Flattens(f, seqs, A)
  BY <1>3, <1>4 DEF Flattens
<1>6. CASE Len(seqs) = 0
  <2>1. seqs = <<>> /\ FlattenSeq(seqs) = <<>>
    BY <1>6 DEF FlattenSeq
  <2> QED
    BY <1>3, <1>5, <1>6, <2>1
<1>7. CASE Len(seqs) # 0
  <2>1. f[1] = seqs[1]
    <3>0. 1 \in 1 .. Len(seqs) /\ 1 - 1 = 0
      BY <1>0, <1>7
    <3>1. f[1] = f[0] \o seqs[1] /\ seqs[1] \in Seq(A)
      BY <1>0, <1>4, <3>0
    <3>2. <<>> \o seqs[1] = seqs[1]
      BY <3>1
    <3> QED
      BY <1>3, <3>1, <3>2
  <2>2. Is([i \in 1 .. Len(seqs) |-> f[i]])
    <3> DEFINE g == [i \in 1 .. Len(seqs) |-> f[i]]
    <3>1. ASSUME NEW i \in 1 .. Len(seqs)
          PROVE  g[i] = IF i = 1 THEN seqs[i] ELSE g[i - 1] \o seqs[i]
      <4>1. CASE i = 1
        BY <2>1, <4>1
      <4>2. CASE i # 1
        <5>1. i - 1 \in 1 .. Len(seqs)
          BY <1>0, <4>2
        <5> QED
          BY <1>4, <4>2, <5>1
      <4> QED
        BY <4>1, <4>2
    <3>2. g = [i \in 1 .. Len(seqs) |-> g[i]]
      OBVIOUS
    <3> HIDE DEF g
    <3>3. Is(g)
      BY <3>1, <3>2
    <3> QED
      BY <3>3 DEF g
  <2>3. Is(flat)
    <3> HIDE DEF Is
    <3> QED
      BY <2>2, Zenon
  <2>4. FlattenSeq(seqs) = flat[Len(seqs)]
    BY <1>7 DEF FlattenSeq
  <2> HIDE DEF flat
  <2> DEFINE P == {i \in 0 .. Len(seqs) : i = 0 \/ flat[i] = f[i]}
  <2>5. ASSUME NEW i \in 1 .. Len(seqs), i - 1 \in P
        PROVE  i \in P
    <3>1. flat[i] = IF i = 1 THEN seqs[i] ELSE flat[i - 1] \o seqs[i]
      BY <2>3
    <3>2. f[i] = f[i - 1] \o seqs[i]
      BY <1>4
    <3>3. i # 1 => flat[i - 1] = f[i - 1]
      BY <2>5
    <3>4. flat[i] = f[i]
      BY <2>1, <3>1, <3>2, <3>3
    <3> QED
      BY <3>4
  <2>6. Len(seqs) \in P
    <3>1. 0 \in P
      BY <1>0
    <3> HIDE DEF P
    <3>2. 0 .. Len(seqs) \subseteq P
      BY <1>0, <2>5, <3>1, UpTo
    <3> QED
      BY <1>0, <3>2
  <2> QED
    BY <1>5, <1>7, <2>4, <2>6
<1> QED
  BY <1>6, <1>7

\* What the first n sequences hold.
Held(seqs, n) == UNION {Range(seqs[i]) : i \in 1 .. n}

\* It holds what the sequences hold; of sequences with at most one element it
\* has no more than there are.
LEMMA FlattenHolds ==
  ASSUME NEW A, NEW seqs \in Seq(Seq(A))
  PROVE  /\ FlattenSeq(seqs) \in Seq(A)
         /\ Range(FlattenSeq(seqs)) = UNION {Range(seqs[i]) : i \in DOMAIN seqs}
         /\ (\A i \in DOMAIN seqs : Len(seqs[i]) <= 1) => Len(FlattenSeq(seqs)) <= Len(seqs)
<1>1. PICK flat : Flattens(flat, seqs, A) /\ FlattenSeq(seqs) = flat[Len(seqs)]
  BY FlattenSteps
<1>2. /\ Len(seqs) \in Nat /\ DOMAIN seqs = 1 .. Len(seqs)
      /\ flat \in [0 .. Len(seqs) -> Seq(A)] /\ flat[0] = <<>>
      /\ \A i \in 1 .. Len(seqs) : seqs[i] \in Seq(A) /\ i - 1 \in 0 .. Len(seqs)
  BY <1>1 DEF Flattens
<1>3. ASSUME NEW i \in 1 .. Len(seqs)
      PROVE  /\ Range(flat[i]) = Range(flat[i - 1]) \cup Range(seqs[i])
             /\ Len(flat[i]) = Len(flat[i - 1]) + Len(seqs[i])
             /\ Len(flat[i]) \in Nat /\ Len(flat[i - 1]) \in Nat /\ Len(seqs[i]) \in Nat
  <2>0. flat[i] = flat[i - 1] \o seqs[i]
    BY <1>1 DEF Flattens
  <2>1. flat[i - 1] \in Seq(A) /\ seqs[i] \in Seq(A)
    BY <1>2
  <2>2. ASSUME NEW u \in Seq(A), NEW v \in Seq(A)
        PROVE  /\ Range(u \o v) = Range(u) \cup Range(v) /\ Len(u \o v) = Len(u) + Len(v)
               /\ Len(u \o v) \in Nat /\ Len(u) \in Nat /\ Len(v) \in Nat
    BY RangeConcatenation
  <2> DEFINE u == flat[i - 1]  v == seqs[i]
  <2>3. u \in Seq(A) /\ v \in Seq(A)
    BY <2>1
  <2> HIDE DEF u, v
  <2>4. /\ Range(u \o v) = Range(u) \cup Range(v) /\ Len(u \o v) = Len(u) + Len(v)
        /\ Len(u \o v) \in Nat /\ Len(u) \in Nat /\ Len(v) \in Nat
    BY <2>2, <2>3
  <2>5. flat[i] = u \o v
    BY <2>0 DEF u, v
  <2> QED
    BY <2>4, <2>5, Zenon DEF u, v
<1>4. Range(flat[Len(seqs)]) = Held(seqs, Len(seqs))
  <2> DEFINE P == {n \in 0 .. Len(seqs) :
                     Range(flat[n]) = Held(seqs, n)}
  <2>1. 0 \in P
    <3>1. Range(flat[0]) = {}
      BY <1>2 DEF Range
    <3>2. Held(seqs, 0) = {}
      BY DEF Held
    <3>3. 0 \in 0 .. Len(seqs)
      BY <1>2
    <3> QED
      BY <3>1, <3>2, <3>3, Zenon
  <2>2. ASSUME NEW n \in 1 .. Len(seqs), n - 1 \in P
        PROVE  n \in P
    <3>1. 1 .. n = (1 .. n - 1) \cup {n}
      OBVIOUS
    <3>2. Held(seqs, n) = Held(seqs, n - 1) \cup Range(seqs[n])
      <4>1. \A k, x : x \in Held(seqs, k) <=> \E i \in 1 .. k : x \in Range(seqs[i])
        BY Zenon DEF Held
      <4>2. ASSUME NEW x PROVE x \in Held(seqs, n) <=> x \in Held(seqs, n - 1) \cup Range(seqs[n])
        BY <3>1, <4>1, Zenon
      <4> QED
        BY <4>2
    <3>3. Range(flat[n - 1]) = Held(seqs, n - 1)
      BY <2>2
    <3>4. Range(flat[n]) = Range(flat[n - 1]) \cup Range(seqs[n])
      BY <1>3
    <3>5. Range(flat[n]) = Held(seqs, n)
      BY <3>2, <3>3, <3>4, Zenon
    <3> QED
      BY <3>5, n \in 0 .. Len(seqs), Zenon
  <2>3. Len(seqs) \in P
    <3> HIDE DEF P
    <3>1. 0 .. Len(seqs) \subseteq P
      BY <1>2, <2>1, <2>2, UpTo
    <3> QED
      BY <1>2, <3>1
  <2> QED
    BY <2>3
<1>5. ASSUME \A i \in DOMAIN seqs : Len(seqs[i]) <= 1
      PROVE  Len(flat[Len(seqs)]) <= Len(seqs)
  <2> DEFINE P == {n \in 0 .. Len(seqs) : Len(flat[n]) <= n}
  <2>1. 0 \in P
    BY <1>2
  <2>2. ASSUME NEW n \in 1 .. Len(seqs), n - 1 \in P
        PROVE  n \in P
    <3>1. Len(flat[n - 1]) <= n - 1 /\ Len(seqs[n]) <= 1
      BY <1>2, <1>5, <2>2
    <3>2. /\ Len(flat[n]) = Len(flat[n - 1]) + Len(seqs[n])
          /\ Len(flat[n]) \in Nat /\ Len(flat[n - 1]) \in Nat /\ Len(seqs[n]) \in Nat
      BY <1>3
    <3> DEFINE x == Len(flat[n])  y == Len(flat[n - 1])  z == Len(seqs[n])
    <3>3. x \in Nat /\ y \in Nat /\ z \in Nat /\ x = y + z /\ y <= n - 1 /\ z <= 1
      BY <3>1, <3>2, Zenon
    <3> HIDE DEF x, y, z
    <3>4. x <= n
      BY <3>3
    <3> QED
      BY <3>4 DEF x
  <2>3. Len(seqs) \in P
    <3> HIDE DEF P
    <3>1. 0 .. Len(seqs) \subseteq P
      BY <1>2, <2>1, <2>2, UpTo
    <3> QED
      BY <1>2, <3>1
  <2> QED
    BY <2>3
<1> QED
  BY <1>1, <1>2, <1>4, <1>5, SMTT(30) DEF Held

\* Where one of the sequences has all that is in S, that one is kept of them.
LEMMA OnlyOfFlatten ==
  ASSUME NEW A, NEW seqs \in Seq(Seq(A)), NEW S, NEW j \in DOMAIN seqs,
         Range(seqs[j]) \subseteq S,
         \A i \in DOMAIN seqs : i # j => Range(seqs[i]) \cap S = {}
  PROVE  Only(FlattenSeq(seqs), S) = seqs[j]
<1>1. PICK flat : Flattens(flat, seqs, A) /\ FlattenSeq(seqs) = flat[Len(seqs)]
  BY FlattenSteps
<1>2. /\ Len(seqs) \in Nat /\ j \in 1 .. Len(seqs)
      /\ flat \in [0 .. Len(seqs) -> Seq(A)] /\ flat[0] = <<>>
      /\ \A i \in 1 .. Len(seqs) : seqs[i] \in Seq(A) /\ i - 1 \in 0 .. Len(seqs)
  BY <1>1 DEF Flattens
<1>4. /\ Only(seqs[j], S) = seqs[j] /\ Only(<<>>, S) = <<>>
      /\ \A i \in 1 .. Len(seqs) : i # j => Only(seqs[i], S) = <<>>
  <2>1. ASSUME NEW i \in 1 .. Len(seqs)
        PROVE  /\ Range(seqs[i]) \subseteq S => Only(seqs[i], S) = seqs[i]
               /\ Range(seqs[i]) \cap S = {} => Only(seqs[i], S) = <<>>
    BY <1>2, OnlyAllOrNone
  <2>2. Only(<<>>, S) = <<>>
    <3>1. <<>> \in Seq(A) /\ Range(<<>>) \subseteq S
      BY DEF Range
    <3> QED
      BY <3>1, OnlyAllOrNone
  <2>3. DOMAIN seqs = 1 .. Len(seqs)
    OBVIOUS
  <2> QED
    BY <1>2, <2>1, <2>2, <2>3
<1> DEFINE P == {n \in 0 .. Len(seqs) :
                   Only(flat[n], S) = IF n < j THEN <<>> ELSE seqs[j]}
<1>5. 0 \in P
  BY <1>2, <1>4
<1>6. ASSUME NEW n \in 1 .. Len(seqs), n - 1 \in P
      PROVE  n \in P
  <2> DEFINE u == flat[n - 1]  v == seqs[n]  w == seqs[j]
  <2>1. u \in Seq(A) /\ v \in Seq(A) /\ w \in Seq(A)
    BY <1>2
  <2>2. flat[n] = u \o v /\ Only(u, S) = IF n - 1 < j THEN <<>> ELSE w
    BY <1>1, <1>6 DEF Flattens
  <2>3. Only(v, S) = IF n = j THEN w ELSE <<>>
    BY <1>4
  <2> HIDE DEF u, v, w
  <2>4. Only(u \o v, S) = Only(u, S) \o Only(v, S)
    <3>1. Splits(S, A)
      BY OnlySplits, Zenon
    <3> QED
      BY <2>1, <3>1 DEF Splits
  <2>5. \A s \in Seq(A) : <<>> \o s = s /\ s \o <<>> = s
    OBVIOUS
  <2>6. <<>> \o <<>> = <<>> /\ <<>> \o w = w /\ w \o <<>> = w
    BY <2>1, <2>5
  <2>7. Only(u \o v, S) = IF n < j THEN <<>> ELSE w
    <3>1. CASE n < j
      <4>1. n - 1 < j /\ n # j
        BY <1>2, <3>1
      <4> QED
        BY <2>2, <2>3, <2>4, <2>6, <3>1, <4>1, Zenon
    <3>2. CASE n = j
      <4>1. n - 1 < j /\ ~(n < j)
        BY <1>2, <3>2
      <4> QED
        BY <2>2, <2>3, <2>4, <2>6, <3>2, <4>1, Zenon
    <3>3. CASE n > j
      <4>1. ~(n - 1 < j) /\ ~(n < j) /\ n # j
        BY <1>2, <3>3
      <4> QED
        BY <2>2, <2>3, <2>4, <2>6, <4>1, Zenon
    <3> QED
      BY <1>2, <3>1, <3>2, <3>3
  <2>8. n \in 0 .. Len(seqs)
    OBVIOUS
  <2> QED
    BY <2>2, <2>7, <2>8, Zenon DEF w
<1>7. Len(seqs) \in P
  <2> HIDE DEF P
  <2>1. 0 .. Len(seqs) \subseteq P
    BY <1>2, <1>5, <1>6, UpTo
  <2>2. Len(seqs) \in 0 .. Len(seqs)
    BY <1>2
  <2> QED
    BY <2>1, <2>2, Zenon
<1> QED
  BY <1>1, <1>2, <1>7

\* Two more elements.
LEMMA PairBehind ==
  ASSUME NEW A, NEW s \in Seq(A), NEW x \in A, NEW y \in A
  PROVE  /\ s \o <<x, y>> \in Seq(A) /\ Len(s \o <<x, y>>) = Len(s) + 2
         /\ \A i \in 1 .. Len(s) : (s \o <<x, y>>)[i] = s[i]
         /\ (s \o <<x, y>>)[Len(s) + 1] = x /\ (s \o <<x, y>>)[Len(s) + 2] = y
<1> DEFINE pair == <<x, y>>
<1>1. pair \in Seq(A) /\ Len(pair) = 2 /\ pair[1] = x /\ pair[2] = y
  OBVIOUS
<1> HIDE DEF pair
<1>2. /\ s \o pair \in Seq(A) /\ Len(s \o pair) = Len(s) + Len(pair)
      /\ \A i \in 1 .. Len(s) + Len(pair) :
           (s \o pair)[i] = IF i <= Len(s) THEN s[i] ELSE pair[i - Len(s)]
  BY <1>1, ConcatProperties
<1> DEFINE all == s \o pair
<1>3. Len(s) \in Nat
  OBVIOUS
<1> HIDE DEF all
<1>4. all[Len(s) + 1] = pair[1] /\ all[Len(s) + 2] = pair[2] /\ Len(all) = Len(s) + 2
      /\ \A i \in 1 .. Len(s) : all[i] = s[i]
  BY <1>1, <1>2, <1>3 DEF all
<1> QED
  BY <1>1, <1>2, <1>4 DEF pair, all

\* A sequence is its beginning and its end.
LEMMA CutInTwo ==
  ASSUME NEW A, NEW seq \in Seq(A), NEW c \in 0 .. Len(seq)
  PROVE  /\ SubSeq(seq, 1, c) \in Seq(A) /\ Len(SubSeq(seq, 1, c)) = c
         /\ \A i \in 1 .. c : SubSeq(seq, 1, c)[i] = seq[i]
         /\ SubSeq(seq, c + 1, Len(seq)) \in Seq(A)
         /\ Len(SubSeq(seq, c + 1, Len(seq))) = Len(seq) - c
         /\ \A i \in 1 .. Len(seq) - c : SubSeq(seq, c + 1, Len(seq))[i] = seq[c + i]
         /\ seq = SubSeq(seq, 1, c) \o SubSeq(seq, c + 1, Len(seq))
<1>1. /\ SubSeq(seq, 1, c) \in Seq(A) /\ Len(SubSeq(seq, 1, c)) = c
      /\ \A i \in 1 .. c : SubSeq(seq, 1, c)[i] = seq[i]
  OBVIOUS
<1>2. /\ SubSeq(seq, c + 1, Len(seq)) \in Seq(A)
      /\ Len(SubSeq(seq, c + 1, Len(seq))) = Len(seq) - c
      /\ \A i \in 1 .. Len(seq) - c : SubSeq(seq, c + 1, Len(seq))[i] = seq[c + i]
  OBVIOUS
<1>3. /\ 1 \in 1 .. Len(seq) + 1 /\ c \in 1 - 1 .. Len(seq) /\ Len(seq) \in c .. Len(seq)
  OBVIOUS
<1>4. SubSeq(seq, 1, c) \o SubSeq(seq, c + 1, Len(seq)) = SubSeq(seq, 1, Len(seq))
  BY <1>3, ConcatAdjacentSubSeq
<1>5. SubSeq(seq, 1, Len(seq)) = seq
  BY SubSeqFull
<1> QED
  BY <1>1, <1>2, <1>4, <1>5

\* The end of two sequences, one after the other.
LEMMA SecondPart ==
  ASSUME NEW A, NEW s \in Seq(A), NEW t \in Seq(A)
  PROVE  /\ s \o t \in Seq(A) /\ Len(s) \in 0 .. Len(s \o t)
         /\ \A i \in 1 .. Len(s) : (s \o t)[i] = s[i]
         /\ SubSeq(s \o t, Len(s) + 1, Len(s \o t)) = t
<1> DEFINE all == s \o t  end == SubSeq(all, Len(s) + 1, Len(all))
<1>1. /\ all \in Seq(A) /\ Len(all) = Len(s) + Len(t)
      /\ \A i \in 1 .. Len(s) + Len(t) : all[i] = IF i <= Len(s) THEN s[i] ELSE t[i - Len(s)]
  BY ConcatProperties
<1> HIDE DEF all
<1>2. Len(s) \in Nat /\ Len(t) \in Nat /\ Len(s) \in 0 .. Len(all)
  BY <1>1
<1>3. /\ end \in Seq(A) /\ Len(end) = Len(all) - Len(s)
      /\ \A i \in 1 .. Len(all) - Len(s) : end[i] = all[Len(s) + i]
  BY <1>1, <1>2, CutInTwo
<1> HIDE DEF end
<1>4. ASSUME NEW i \in 1 .. Len(end)
      PROVE  end[i] = t[i]
  <2>1. Len(s) + i \in 1 .. Len(s) + Len(t) /\ ~(Len(s) + i <= Len(s))
        /\ (Len(s) + i) - Len(s) = i /\ i \in 1 .. Len(all) - Len(s)
    BY <1>1, <1>2, <1>3
  <2> QED
    BY <1>1, <1>3, <2>1
<1>5. Len(end) = Len(t)
  BY <1>1, <1>2, <1>3
<1>6. end = t
  BY <1>3, <1>4, <1>5, SeqEqual
<1>7. \A i \in 1 .. Len(s) : all[i] = s[i]
  BY <1>1, <1>2
<1> QED
  BY <1>1, <1>2, <1>6, <1>7 DEF all, end

\* got is the beginning of all, the first n elements of t at its end; without
\* k of them and with the rest of t it is what is left of all.
ReadBehind(got, all, t, n, A) ==
  /\ got \in Seq(A) /\ Len(got) <= Len(all)
  /\ \A i \in 1 .. Len(got) : got[i] = all[i]
  /\ \A k \in 0 .. Len(got) :
       /\ SubSeq(got, k + 1, Len(got)) \in Seq(A)
       /\ Len(SubSeq(got, k + 1, Len(got))) = Len(got) - k
       /\ SubSeq(got, k + 1, Len(got)) \o SubSeq(t, n + 1, Len(t))
            = SubSeq(all, k + 1, Len(all))

\* After a read of n elements of t behind b.
LEMMA ReadAndTaken ==
  ASSUME NEW A, NEW b \in Seq(A), NEW t \in Seq(A), NEW n \in 1 .. Len(t)
  PROVE  ReadBehind(b \o SubSeq(t, 1, n), b \o t, t, n, A)
<1> DEFINE first == SubSeq(t, 1, n)  last == SubSeq(t, n + 1, Len(t))
           all == b \o t  got == b \o first
<1>1. /\ first \in Seq(A) /\ Len(first) = n /\ \A i \in 1 .. n : first[i] = t[i]
      /\ last \in Seq(A) /\ Len(last) = Len(t) - n
      /\ \A i \in 1 .. Len(t) - n : last[i] = t[n + i]
  OBVIOUS
<1>2. first \o last = t
  <2>1. /\ 1 \in 1 .. Len(t) + 1 /\ n \in 1 - 1 .. Len(t) /\ Len(t) \in n .. Len(t)
    OBVIOUS
  <2>2. first \o last = SubSeq(t, 1, Len(t))
    BY <2>1, ConcatAdjacentSubSeq
  <2> QED
    BY <2>2, SubSeqFull
<1> HIDE DEF first, last
<1>3. /\ all \in Seq(A) /\ Len(all) = Len(b) + Len(t)
      /\ \A i \in 1 .. Len(b) + Len(t) : all[i] = IF i <= Len(b) THEN b[i] ELSE t[i - Len(b)]
  BY ConcatProperties
<1>4. /\ got \in Seq(A) /\ Len(got) = Len(b) + Len(first)
      /\ \A i \in 1 .. Len(b) + Len(first) :
           got[i] = IF i <= Len(b) THEN b[i] ELSE first[i - Len(b)]
  BY <1>1, ConcatProperties
<1>5. got \o last = all
  <2>0. b \in Seq(A) /\ first \in Seq(A) /\ last \in Seq(A)
    BY <1>1
  <2>1. (b \o first) \o last = b \o (first \o last)
    BY ONLY <2>0, ConcatAssociative, SMTT(30)
  <2> QED
    BY <1>2, <2>1, Zenon
<1> HIDE DEF all, got
<1>6. Len(b) \in Nat /\ Len(t) \in Nat /\ n \in 1 .. Len(t)
  OBVIOUS
<1>7. ASSUME NEW i \in 1 .. Len(got)
      PROVE  got[i] = all[i]
  <2>1. CASE i <= Len(b)
    <3>1. i \in 1 .. Len(b) + Len(t) /\ i \in 1 .. Len(b) + Len(first)
      BY <1>1, <1>4, <1>6, <2>1
    <3> QED
      BY <1>3, <1>4, <2>1, <3>1
  <2>2. CASE ~(i <= Len(b))
    <3>1. i - Len(b) \in 1 .. n /\ i \in 1 .. Len(b) + Len(t)
      BY <1>1, <1>4, <1>6, <2>2
    <3> QED
      BY <1>1, <1>3, <1>4, <1>6, <2>2, <3>1
  <2> QED
    BY <2>1, <2>2
<1>8. ASSUME NEW k \in 0 .. Len(got)
      PROVE  /\ SubSeq(got, k + 1, Len(got)) \in Seq(A)
             /\ Len(SubSeq(got, k + 1, Len(got))) = Len(got) - k
             /\ SubSeq(got, k + 1, Len(got)) \o last = SubSeq(all, k + 1, Len(all))
  <2> DEFINE rest == SubSeq(got, k + 1, Len(got))
             left == SubSeq(all, k + 1, Len(all))
  <2>1. /\ rest \in Seq(A) /\ Len(rest) = Len(got) - k
        /\ \A i \in 1 .. Len(got) - k : rest[i] = got[k + i]
    BY <1>4, CutInTwo
  <2>2. /\ Len(got) \in Nat /\ Len(all) \in Nat /\ Len(all) = Len(got) + Len(last)
        /\ Len(last) \in Nat
    BY <1>1, <1>3, <1>4, <1>6
  <2>3. /\ left \in Seq(A) /\ Len(left) = Len(all) - k
        /\ \A i \in 1 .. Len(all) - k : left[i] = all[k + i]
    BY <1>3, <2>2
  <2> HIDE DEF rest, left
  <2>4. /\ rest \o last \in Seq(A) /\ Len(rest \o last) = Len(rest) + Len(last)
        /\ \A i \in 1 .. Len(rest) + Len(last) :
             (rest \o last)[i] = IF i <= Len(rest) THEN rest[i] ELSE last[i - Len(rest)]
    BY <1>1, <2>1, ConcatProperties
  <2>5. \A i \in 1 .. Len(got) + Len(last) :
             all[i] = IF i <= Len(got) THEN got[i] ELSE last[i - Len(got)]
    <3> DEFINE both == got \o last
    <3>1. \A i \in 1 .. Len(got) + Len(last) :
             both[i] = IF i <= Len(got) THEN got[i] ELSE last[i - Len(got)]
      BY <1>1, <1>4, ConcatProperties, SMTT(30)
    <3>2. both = all
      BY <1>5
    <3> HIDE DEF both
    <3> QED
      BY <3>1, <3>2
  <2>6. ASSUME NEW i \in 1 .. Len(left)
        PROVE  (rest \o last)[i] = left[i]
    <3>1. i \in 1 .. Len(rest) + Len(last) /\ k + i \in 1 .. Len(got) + Len(last)
          /\ i \in 1 .. Len(all) - k
      BY <2>1, <2>2, <2>3
    <3>2. CASE i <= Len(rest)
      <4>1. k + i <= Len(got) /\ i \in 1 .. Len(got) - k
        BY <2>1, <2>2, <3>1, <3>2
      <4> QED
        BY <2>1, <2>3, <2>4, <2>5, <3>1, <3>2, <4>1
    <3>3. CASE ~(i <= Len(rest))
      <4>1. ~(k + i <= Len(got)) /\ (k + i) - Len(got) = i - Len(rest)
        BY <2>1, <2>2, <3>1, <3>3
      <4> QED
        BY <2>3, <2>4, <2>5, <3>1, <3>3, <4>1
    <3> QED
      BY <3>2, <3>3
  <2>7. Len(rest \o last) = Len(left)
    BY <2>1, <2>2, <2>3, <2>4
  <2>8. rest \o last = left
    <3> DEFINE both == rest \o last
    <3>1. both \in Seq(A) /\ Len(both) = Len(left) /\ \A i \in 1 .. Len(both) : both[i] = left[i]
      BY <2>4, <2>6, <2>7
    <3> HIDE DEF both
    <3>2. both = left
      BY <2>3, <3>1, SeqEqual
    <3> QED
      BY <3>2 DEF both
  <2> QED
    BY <2>1, <2>8 DEF rest, left
<1>9. Len(got) <= Len(all)
  BY <1>1, <1>3, <1>4, <1>6
<1>10. ReadBehind(got, all, t, n, A)
  BY <1>4, <1>7, <1>8, <1>9, Zenon DEF ReadBehind, last
<1> QED
  BY <1>10 DEF all, got, first

-----------------------------------------------------------------------------
(* Folds: FoldLeft is defined by recursion on the set of the places that   *)
(* are left, from which it takes the last.                                 *)

\* it gives what the fold makes of the elements at the places s.
Descends(it, n, A, a, F) ==
  /\ it \in [SUBSET (1 .. n) -> A] /\ it[{}] = a
  /\ \A s \in SUBSET (1 .. n) : s # {} => it[s] = F[Max(s)][it[s \ {Max(s)}]]

\* The last of the places up to m, of which m is one.
LEMMA LastPlace ==
  ASSUME NEW m \in Nat, NEW s \in SUBSET (1 .. m), m \in s
  PROVE  Max(s) = m
<1>1. \A y \in s : y \in Int /\ m >= y
  OBVIOUS
<1>2. Max(s) \in s /\ \A y \in s : Max(s) >= y
  BY <1>1, Zenon DEF Max
<1> DEFINE x == Max(s)
<1>3. x \in 1 .. m /\ x >= m
  BY <1>2
<1> HIDE DEF x
<1>4. x = m
  BY <1>3
<1> QED
  BY <1>4 DEF x

\* Places that are not none have a last one.
LEMMA LastOne ==
  ASSUME NEW n \in Nat, NEW s \in SUBSET (1 .. n), s # {}
  PROVE  Max(s) \in s
<1> DEFINE left == {n - i : i \in s}
<1>1. PICK k \in left : \A j \in left : k <= j
  BY LeastNumber, left \in SUBSET Nat, left # {}
<1>2. PICK i \in s : k = n - i
  BY <1>1
<1>3. \A j \in s : i >= j
  <2>1. ASSUME NEW j \in s PROVE i >= j
    <3>1. n - j \in left /\ i \in 1 .. n /\ j \in 1 .. n
      OBVIOUS
    <3>2. n - i <= n - j
      BY <1>1, <1>2, <3>1
    <3> QED
      BY <3>1, <3>2
  <2> QED
    BY <2>1
<1> QED
  BY <1>3, Zenon DEF Max

\* There is a function that is defined by such a recursion.
LEMMA Descent ==
  ASSUME NEW n \in Nat, NEW A, NEW a \in A, NEW F \in [1 .. n -> [A -> A]]
  PROVE  \E it : Descends(it, n, A, a, F)
<1> DEFINE P == {m \in 0 .. n : \E it : Descends(it, m, A, a, F)}
<1>1. \E it : Descends(it, 0, A, a, F)
  <2> DEFINE it == [s \in SUBSET (1 .. 0) |-> a]
  <2>1. SUBSET (1 .. 0) = {{}}
    OBVIOUS
  <2>2. it \in [SUBSET (1 .. 0) -> A] /\ it[{}] = a
    OBVIOUS
  <2>3. \A s \in SUBSET (1 .. 0) : s = {}
    BY <2>1
  <2> HIDE DEF it
  <2>4. Descends(it, 0, A, a, F)
    BY <2>2, <2>3 DEF Descends
  <2> QED
    BY <2>4, Zenon
<1>2. ASSUME NEW m \in 1 .. n, NEW it, Descends(it, m - 1, A, a, F)
      PROVE  \E jt : Descends(jt, m, A, a, F)
  <2> DEFINE jt == [s \in SUBSET (1 .. m) |-> IF m \in s THEN F[m][it[s \ {m}]] ELSE it[s]]
  <2>1. \A s \in SUBSET (1 .. m) : /\ m \notin s => s \in SUBSET (1 .. m - 1)
                                   /\ s \ {m} \in SUBSET (1 .. m - 1)
                                   /\ s \ {m} \in SUBSET (1 .. m) /\ m \notin s \ {m}
    OBVIOUS
  <2>2. /\ \A s \in SUBSET (1 .. m - 1) : it[s] \in A
        /\ F[m] \in [A -> A] /\ it[{}] = a
    BY <1>2 DEF Descends
  <2>3. jt \in [SUBSET (1 .. m) -> A]
    BY <2>1, <2>2
  <2>4. ASSUME NEW s \in SUBSET (1 .. m)
        PROVE  /\ m \in s => jt[s] = F[m][it[s \ {m}]]
               /\ m \notin s => jt[s] = it[s]
    OBVIOUS
  <2> HIDE DEF jt
  <2>5. jt[{}] = a
    BY <2>2, <2>4
  <2>6. ASSUME NEW s \in SUBSET (1 .. m), s # {}
        PROVE  jt[s] = F[Max(s)][jt[s \ {Max(s)}]]
    <3>1. CASE m \in s
      <4>1. Max(s) = m
        BY <3>1, LastPlace
      <4>2. jt[s \ {m}] = it[s \ {m}]
        BY <2>1, <2>4
      <4> QED
        BY <2>4, <3>1, <4>1, <4>2
    <3>2. CASE m \notin s
      <4>1. s \in SUBSET (1 .. m - 1)
        BY <2>1, <3>2
      <4>2. jt[s] = it[s] /\ it[s] = F[Max(s)][it[s \ {Max(s)}]]
        BY <1>2, <2>4, <2>6, <3>2, <4>1 DEF Descends
      <4>3. s \ {Max(s)} \in SUBSET (1 .. m) /\ m \notin s \ {Max(s)}
        BY <3>2
      <4>4. jt[s \ {Max(s)}] = it[s \ {Max(s)}]
        BY <2>4, <4>3
      <4> QED
        BY <4>2, <4>4
    <3> QED
      BY <3>1, <3>2
  <2>7. Descends(jt, m, A, a, F)
    BY <2>3, <2>5, <2>6 DEF Descends
  <2> QED
    BY <2>7, Zenon
<1>3. n \in P
  <2>1. \A m \in 1 .. n : m - 1 \in P => m \in P
    BY <1>2
  <2>2. 0 \in P
    BY <1>1
  <2> HIDE DEF P
  <2>3. 0 .. n \subseteq P
    BY <2>1, <2>2, UpTo
  <2> QED
    BY <2>3
<1> QED
  BY <1>3

\* h is defined by recursion: F says what its value is, and looks only at the
\* values of what has a lower rank.
Obeys(h, D, A, F) == h \in [D -> A] /\ \A d \in D : h[d] = F[d][h]

LooksBelow(F, D, A, rank) ==
  \A d \in D : \A g, h \in [D -> A] :
    (\A c \in D : rank[c] < rank[d] => g[c] = h[c]) => F[d][g] = F[d][h]

\* Two functions that obey F for low ranks are the same there.
LEMMA ObeyAlike ==
  ASSUME NEW D, NEW A, NEW rank \in [D -> Nat], NEW F, LooksBelow(F, D, A, rank), NEW n \in Nat,
         NEW g \in [D -> A], \A d \in D : rank[d] < n => g[d] = F[d][g],
         NEW h \in [D -> A], \A d \in D : rank[d] < n => h[d] = F[d][h]
  PROVE  \A d \in D : rank[d] < n => g[d] = h[d]
<1> DEFINE bad == {d \in D : rank[d] < n /\ g[d] # h[d]}
<1>1. CASE bad # {}
  <2>1. {rank[d] : d \in bad} \in SUBSET Nat /\ {rank[d] : d \in bad} # {}
    BY <1>1
  <2>2. PICK r \in {rank[d] : d \in bad} : \A q \in {rank[d] : d \in bad} : r <= q
    BY <2>1, LeastNumber, Zenon
  <2>3. PICK d \in bad : r = rank[d]
    BY <2>2
  <2>4. ASSUME NEW c \in D, rank[c] < rank[d] PROVE g[c] = h[c]
    <3>1. c \notin bad
      BY <2>1, <2>2, <2>3, <2>4
    <3>2. rank[c] \in Nat /\ rank[d] \in Nat /\ rank[d] < n
      BY <2>3
    <3> QED
      BY <2>4, <3>1, <3>2
  <2>5. d \in D /\ rank[d] < n /\ g[d] # h[d]
    BY <2>3
  <2>6. F[d][g] = F[d][h]
    BY <2>4, <2>5, Zenon DEF LooksBelow
  <2> QED
    BY <2>5, <2>6
<1> QED
  BY <1>1

\* A function that looks only at lower ranks exists.
LEMMA RankRecursion ==
  ASSUME NEW D, NEW A, NEW a \in A, NEW rank \in [D -> Nat],
         NEW F \in [D -> [[D -> A] -> A]], LooksBelow(F, D, A, rank)
  PROVE  \E h : Obeys(h, D, A, F)
<1> DEFINE Low(h, n) == h \in [D -> A] /\ \A d \in D : rank[d] < n => h[d] = F[d][h]
<1>0. ASSUME NEW d \in D, NEW h \in [D -> A] PROVE F[d][h] \in A
  OBVIOUS
<1>1. ASSUME NEW n \in Nat PROVE \E h : Low(h, n)
  <2> DEFINE P == {m \in 0 .. n : \E h : Low(h, m)}
  <2>1. 0 \in P
    <3>1. Low([d \in D |-> a], 0)
      <4>1. \A d \in D : ~(rank[d] < 0)
        OBVIOUS
      <4> QED
        BY <4>1
    <3> HIDE DEF Low
    <3> QED
      BY <3>1
  <2>2. ASSUME NEW m \in 1 .. n, m - 1 \in P
        PROVE  m \in P
    <3>1. PICK h : Low(h, m - 1)
      BY <2>2
    <3> DEFINE g == [d \in D |-> F[d][h]]
    <3>2. g \in [D -> A]
      BY <1>0, <3>1
    <3>3. ASSUME NEW d \in D, rank[d] < m - 1 PROVE g[d] = h[d]
      BY <3>1, <3>3
    <3>4. ASSUME NEW d \in D, rank[d] < m PROVE g[d] = F[d][g]
      <4>1. g[d] = F[d][h]
        OBVIOUS
      <4>2. ASSUME NEW c \in D, rank[c] < rank[d] PROVE g[c] = h[c]
        <5>1. rank[c] \in Nat /\ rank[d] \in Nat /\ m \in Nat
          OBVIOUS
        <5>2. rank[c] < m - 1
          BY <3>4, <4>2, <5>1
        <5> QED
          BY <3>3, <5>2
      <4> HIDE DEF g
      <4> QED
        BY <3>1, <3>2, <4>1, <4>2, Zenon DEF LooksBelow
    <3> HIDE DEF g
    <3>5. Low(g, m)
      BY <3>2, <3>4
    <3> HIDE DEF Low
    <3> QED
      BY <3>5
  <2>3. \A m \in 1 .. n : m - 1 \in P => m \in P
    BY <2>2
  <2> HIDE DEF P
  <2>4. 0 .. n \subseteq P
    BY <2>1, <2>3, UpTo, Zenon
  <2>5. n \in P
    BY <2>4
  <2> QED
    BY <2>5 DEF P
<1> DEFINE f == [n \in Nat |-> CHOOSE h : Low(h, n)]
           g == [d \in D |-> f[rank[d] + 1][d]]
<1>2. ASSUME NEW n \in Nat PROVE Low(f[n], n)
  <2> HIDE DEF Low
  <2> QED
    BY <1>1, Zenon
<1> HIDE DEF f
<1>3. \A d \in D : rank[d] + 1 \in Nat
  OBVIOUS
<1>4. g \in [D -> A]
  BY <1>2, <1>3
<1>5. ASSUME NEW d \in D, NEW c \in D, rank[c] < rank[d] + 1
      PROVE  g[c] = f[rank[d] + 1][c]
  <2> DEFINE n == rank[c] + 1
             m == rank[d] + 1
  <2>1. n \in Nat /\ m \in Nat /\ n <= m /\ rank[c] < n
    BY <1>5
  <2>2. f[n] \in [D -> A] /\ f[m] \in [D -> A]
    BY <1>2, <2>1
  <2>3. \A e \in D : rank[e] < n => f[n][e] = F[e][f[n]]
    BY <1>2, <2>1
  <2>4. \A e \in D : rank[e] < n => f[m][e] = F[e][f[m]]
    <3>1. \A e \in D : rank[e] < n => rank[e] < m
      BY <2>1
    <3> QED
      BY <1>2, <2>1, <3>1
  <2>5. g[c] = f[n][c]
    OBVIOUS
  <2> HIDE DEF n, m
  <2>6. ASSUME NEW u \in [D -> A], \A e \in D : rank[e] < n => u[e] = F[e][u],
               NEW v \in [D -> A], \A e \in D : rank[e] < n => v[e] = F[e][v]
        PROVE  u[c] = v[c]
    BY <2>1, <2>6, ObeyAlike
  <2>7. f[n][c] = f[m][c]
    BY <2>2, <2>3, <2>4, <2>6, Zenon
  <2> QED
    BY <2>1, <2>5, <2>7 DEF m
<1>6. ASSUME NEW d \in D PROVE g[d] = F[d][g]
  <2> DEFINE k == f[rank[d] + 1]
  <2>1. k \in [D -> A] /\ k[d] = F[d][k]
    <3>1. rank[d] < rank[d] + 1
      OBVIOUS
    <3> QED
      BY <1>2, <1>3, <3>1
  <2>2. g[d] = k[d]
    OBVIOUS
  <2>3. \A c \in D : rank[c] < rank[d] => k[c] = g[c]
    <3>1. \A c \in D : rank[c] < rank[d] => rank[c] < rank[d] + 1
      OBVIOUS
    <3> HIDE DEF g
    <3> QED
      BY <1>5, <3>1
  <2> HIDE DEF g, k
  <2>4. F[d][k] = F[d][g]
    BY <1>4, <2>1, <2>3, Zenon DEF LooksBelow
  <2> QED
    BY <2>1, <2>2, <2>4
<1> HIDE DEF g
<1> QED
  BY <1>4, <1>6 DEF Obeys

\* What is flattened in two parts.
LEMMA FlattenAppend ==
  ASSUME NEW A, NEW seqs \in Seq(Seq(A)), NEW x \in Seq(A)
  PROVE  FlattenSeq(Append(seqs, x)) = FlattenSeq(seqs) \o x
<1> DEFINE n == Len(seqs)
           all == Append(seqs, x)
<1>0. n \in Nat /\ all \in Seq(Seq(A)) /\ Len(all) = n + 1 /\ all[n + 1] = x
        /\ \A i \in 1 .. n : all[i] = seqs[i]
  OBVIOUS
<1>1. PICK f : Flattens(f, seqs, A) /\ FlattenSeq(seqs) = f[n]
  BY FlattenSteps
<1> HIDE DEF all
<1>2. PICK g : Flattens(g, all, A) /\ FlattenSeq(all) = g[n + 1]
  BY <1>0, FlattenSteps
<1> HIDE DEF n
<1> DEFINE P == {i \in 0 .. n : g[i] = f[i]}
<1>3. 0 \in P
  BY <1>0, <1>1, <1>2 DEF Flattens
<1>4. ASSUME NEW i \in 1 .. n, i - 1 \in P PROVE i \in P
  <2>1. f[i] = f[i - 1] \o seqs[i]
    BY <1>1 DEF Flattens, n
  <2>2. i \in 1 .. Len(all)
    BY <1>0
  <2>3. g[i] = g[i - 1] \o all[i]
    BY <1>2, <2>2 DEF Flattens
  <2>4. g[i - 1] = f[i - 1] /\ all[i] = seqs[i] /\ i \in 0 .. n
    BY <1>0, <1>4
  <2> QED
    BY <2>1, <2>3, <2>4
<1> HIDE DEF P
<1>5. 0 .. n \subseteq P
  <2>1. \A i \in 1 .. n : i - 1 \in P => i \in P
    BY <1>4
  <2>2. n \in Nat
    BY <1>0
  <2> HIDE DEF n
  <2> QED
    BY <1>3, <2>1, <2>2, UpTo
<1>6. g[n] = f[n]
  BY <1>0, <1>5, n \in 0 .. n DEF P
<1>7. g[n + 1] = g[n] \o all[n + 1]
  <2>1. n + 1 \in 1 .. Len(all) /\ (n + 1) - 1 = n
    BY <1>0
  <2>2. \A i \in 1 .. Len(all) : g[i] = g[i - 1] \o all[i]
    BY <1>2 DEF Flattens
  <2> HIDE DEF n
  <2> QED
    BY <2>1, <2>2
<1> QED
  BY <1>0, <1>1, <1>2, <1>6, <1>7 DEF all

\* The flattening of two sequences of sequences.
LEMMA FlattenConcat ==
  ASSUME NEW A, NEW s \in Seq(Seq(A)), NEW t \in Seq(Seq(A))
  PROVE  FlattenSeq(s \o t) = FlattenSeq(s) \o FlattenSeq(t)
<1> DEFINE n == Len(t)
           front(k) == SubSeq(t, 1, k)
           P == {k \in 0 .. n : FlattenSeq(s \o front(k)) = FlattenSeq(s) \o FlattenSeq(front(k))}
<1>0. n \in Nat
  OBVIOUS
<1>1. 0 \in P
  <2>0. front(0) = <<>> /\ FlattenSeq(<<>>) = <<>>
    BY DEF FlattenSeq
  <2>1. front(0) = <<>> /\ FlattenSeq(<<>>) = <<>> /\ FlattenSeq(s) \in Seq(A)
    BY <2>0, FlattenHolds
  <2>2. s \o <<>> = s
    OBVIOUS
  <2> DEFINE w == FlattenSeq(s)
  <2>3. w \in Seq(A)
    BY <2>1
  <2> HIDE DEF w, front
  <2>4. w \o <<>> = w
    BY <2>3
  <2>5. FlattenSeq(s \o front(0)) = w /\ FlattenSeq(front(0)) = <<>>
    BY <2>1, <2>2 DEF w
  <2>6. FlattenSeq(s \o front(0)) = FlattenSeq(s) \o FlattenSeq(front(0))
    BY <2>4, <2>5, Zenon DEF w
  <2> HIDE DEF n
  <2> QED
    BY <1>0, <2>6
<1>2. ASSUME NEW k \in 1 .. n, k - 1 \in P PROVE k \in P
  <2>1. front(k - 1) \in Seq(Seq(A)) /\ t[k] \in Seq(A)
    OBVIOUS
  <2>2. front(k) = Append(front(k - 1), t[k])
    OBVIOUS
  <2> HIDE DEF front
  <2> DEFINE u == front(k - 1)
             x == t[k]
  <2>3. u \in Seq(Seq(A)) /\ x \in Seq(A) /\ front(k) = Append(u, x)
    BY <2>1, <2>2
  <2>4. FlattenSeq(s \o u) = FlattenSeq(s) \o FlattenSeq(u)
    BY <1>2
  <2> HIDE DEF u, x
  <2>5. s \o Append(u, x) = Append(s \o u, x) /\ s \o u \in Seq(Seq(A))
    BY <2>3
  <2>6. ASSUME NEW v \in Seq(Seq(A)) PROVE FlattenSeq(Append(v, x)) = FlattenSeq(v) \o x
    BY <2>3, FlattenAppend
  <2>7. FlattenSeq(s \o front(k)) = FlattenSeq(s \o u) \o x /\ FlattenSeq(front(k)) = FlattenSeq(u) \o x
    BY <2>3, <2>5, <2>6
  <2>8. FlattenSeq(s) \in Seq(A) /\ FlattenSeq(u) \in Seq(A)
    BY <2>3, FlattenHolds
  <2>x. x \in Seq(A)
    BY <2>3
  <2>9. \A v, w \in Seq(A) : (v \o w) \o x = v \o (w \o x)
    BY ONLY <2>x, ConcatAssociative, SMTT(30)
  <2> HIDE DEF front
  <2>10. FlattenSeq(s \o front(k)) = FlattenSeq(s) \o FlattenSeq(front(k))
    BY <2>4, <2>7, <2>8, <2>9, Zenon
  <2> QED
    BY <2>10
<1>3. n \in P
  <2>1. \A k \in 1 .. n : k - 1 \in P => k \in P
    BY <1>2
  <2> HIDE DEF P, n
  <2>2. 0 .. n \subseteq P
    BY <1>0, <1>1, <2>1, UpTo
  <2> QED
    BY <1>0, <2>2, n \in 0 .. n
<1>4. front(n) = t
  OBVIOUS
<1> QED
  BY <1>3, <1>4

\* Joining is associative.
LEMMA Regroup ==
  ASSUME NEW A
  PROVE  \A u, v, w \in Seq(A) : (u \o v) \o w = u \o (v \o w)
  BY ConcatAssociative, SMTT(30)

\* The first elements of two sequences, one behind the other.
LEMMA SubSeqBehind ==
  ASSUME NEW A, NEW s \in Seq(A), NEW t \in Seq(A), NEW i \in 1 .. Len(t)
  PROVE  SubSeq(s \o t, 1, (Len(s) + i) - 1) = s \o SubSeq(t, 1, i - 1)
<1> DEFINE u == SubSeq(s \o t, 1, (Len(s) + i) - 1)
           v == SubSeq(t, 1, i - 1)
           w == s \o v
<1>1. Len(s) \in Nat /\ Len(t) \in Nat /\ i \in Nat /\ i - 1 \in Nat
  OBVIOUS
<1>2. u \in Seq(A) /\ Len(u) = (Len(s) + i) - 1 /\ \A k \in 1 .. (Len(s) + i) - 1 : u[k] = (s \o t)[k]
  OBVIOUS
<1>3. v \in Seq(A) /\ Len(v) = i - 1 /\ \A k \in 1 .. i - 1 : v[k] = t[k]
  OBVIOUS
<1> HIDE DEF u, v
<1>4. w \in Seq(A) /\ Len(w) = Len(s) + (i - 1)
        /\ \A k \in 1 .. Len(s) + (i - 1) : w[k] = IF k <= Len(s) THEN s[k] ELSE v[k - Len(s)]
  BY <1>1, <1>3
<1>5. \A k \in 1 .. Len(s) + Len(t) : (s \o t)[k] = IF k <= Len(s) THEN s[k] ELSE t[k - Len(s)]
  OBVIOUS
<1>6. ASSUME NEW k \in 1 .. Len(u) PROVE u[k] = w[k]
  <2>1. k \in 1 .. Len(s) + Len(t) /\ k \in 1 .. Len(s) + (i - 1) /\ k \in 1 .. (Len(s) + i) - 1
    BY <1>1, <1>2
  <2>2. k > Len(s) => k - Len(s) \in 1 .. i - 1
    BY <1>1, <2>1
  <2> HIDE DEF w
  <2> QED
    BY <1>1, <1>2, <1>3, <1>4, <1>5, <2>1, <2>2
<1>7. Len(u) = Len(w)
  BY <1>1, <1>2, <1>4
<1>8. s \o v = w
  OBVIOUS
<1> HIDE DEF w
<1>9. u = w
  BY <1>2, <1>4, <1>6, <1>7, SeqEqual
<1> QED
  BY <1>8, <1>9 DEF u, v

\* What is where in two sequences, one behind the other.
LEMMA JoinIs ==
  ASSUME NEW A, NEW s \in Seq(A), NEW t \in Seq(A)
  PROVE  /\ s \o t \in Seq(A) /\ Len(s \o t) = Len(s) + Len(t)
         /\ \A i \in 1 .. Len(s) : (s \o t)[i] = s[i]
         /\ \A i \in 1 .. Len(t) : (s \o t)[Len(s) + i] = t[i]
  OBVIOUS

\* What is in two sequences, one behind the other.
LEMMA RangeOfJoin ==
  ASSUME NEW A, NEW s \in Seq(A), NEW t \in Seq(A)
  PROVE  s \o t \in Seq(A) /\ Range(s \o t) = Range(s) \cup Range(t)
<1>1. \A k \in 1 .. Len(s) : (s \o t)[k] = s[k]
  OBVIOUS
<1>2. \A k \in 1 .. Len(t) : (s \o t)[Len(s) + k] = t[k]
  OBVIOUS
<1>3. s \o t \in Seq(A) /\ Len(s) \in Nat /\ Len(t) \in Nat
        /\ DOMAIN s = 1 .. Len(s) /\ DOMAIN t = 1 .. Len(t) /\ DOMAIN (s \o t) = 1 .. Len(s) + Len(t)
  OBVIOUS
<1> DEFINE st == s \o t
<1> HIDE DEF st
<1>4. ASSUME NEW k \in 1 .. Len(s) + Len(t)
      PROVE  k \in 1 .. Len(s) \/ \E j \in 1 .. Len(t) : k = Len(s) + j
  <2>1. k \notin 1 .. Len(s) => k - Len(s) \in 1 .. Len(t) /\ k = Len(s) + (k - Len(s))
    BY <1>3
  <2> QED
    BY <2>1
<1>5. (\A k \in 1 .. Len(s) : k \in 1 .. Len(s) + Len(t))
        /\ \A k \in 1 .. Len(t) : Len(s) + k \in 1 .. Len(s) + Len(t)
  BY <1>3
<1>6. DOMAIN st = 1 .. Len(s) + Len(t) /\ (\A k \in 1 .. Len(s) : st[k] = s[k])
        /\ \A k \in 1 .. Len(t) : st[Len(s) + k] = t[k]
  BY <1>1, <1>2, <1>3 DEF st
<1>7. Range(st) = Range(s) \cup Range(t)
  <2>1. ASSUME NEW k \in DOMAIN st PROVE st[k] \in Range(s) \cup Range(t)
    <3>1. CASE k \in 1 .. Len(s)
      BY <1>3, <1>6, <3>1 DEF Range
    <3>2. ASSUME NEW j \in 1 .. Len(t), k = Len(s) + j PROVE st[k] \in Range(t)
      BY <1>3, <1>6, <3>2 DEF Range
    <3> QED
      BY <1>4, <1>6, <3>1, <3>2
  <2>2. ASSUME NEW k \in DOMAIN s PROVE s[k] \in Range(st)
    BY <1>3, <1>5, <1>6 DEF Range
  <2>3. ASSUME NEW k \in DOMAIN t PROVE t[k] \in Range(st)
    BY <1>3, <1>5, <1>6 DEF Range
  <2> QED
    BY <2>1, <2>2, <2>3 DEF Range
<1> QED
  BY <1>3, <1>7 DEF st

-----------------------------------------------------------------------------
(* Sequences without repetitions.                                          *)

\* Two of them that share nothing, one behind the other.
LEMMA JoinDistinct ==
  ASSUME NEW A, NEW s \in Seq(A), NEW t \in Seq(A), IsInjective(s), IsInjective(t),
         Range(s) \cap Range(t) = {}
  PROVE  IsInjective(s \o t)
<1> DEFINE u == s \o t
<1>1. /\ Len(s) \in Nat /\ Len(t) \in Nat /\ DOMAIN s = 1 .. Len(s) /\ DOMAIN t = 1 .. Len(t)
      /\ DOMAIN u = 1 .. Len(s) + Len(t)
      /\ \A i \in 1 .. Len(s) + Len(t) : u[i] = IF i <= Len(s) THEN s[i] ELSE t[i - Len(s)]
  OBVIOUS
<1>2. /\ \A i \in 1 .. Len(s) : s[i] \in Range(s)
      /\ \A i \in 1 .. Len(t) : t[i] \in Range(t)
  BY <1>1 DEF Range
<1> HIDE DEF u
<1>3. ASSUME NEW i \in DOMAIN u, NEW j \in DOMAIN u, u[i] = u[j]
      PROVE  i = j
  <2>1. CASE i <= Len(s) /\ j <= Len(s)
    BY <1>1, <1>3, <2>1 DEF IsInjective
  <2>2. CASE i > Len(s) /\ j > Len(s)
    <3>1. i - Len(s) \in DOMAIN t /\ j - Len(s) \in DOMAIN t
      BY <1>1, <2>2
    <3>2. t[i - Len(s)] = t[j - Len(s)]
      BY <1>1, <1>3, <2>2
    <3>3. i - Len(s) = j - Len(s)
      BY <3>1, <3>2 DEF IsInjective
    <3> QED
      BY <1>1, <3>3
  <2>3. CASE i <= Len(s) /\ j > Len(s)
    <3>1. i \in 1 .. Len(s) /\ j - Len(s) \in 1 .. Len(t)
      BY <1>1, <2>3
    <3>2. u[i] \in Range(s) /\ u[j] \in Range(t)
      BY <1>1, <1>2, <2>3, <3>1
    <3> QED
      BY <1>3, <3>2
  <2>4. CASE i > Len(s) /\ j <= Len(s)
    <3>1. j \in 1 .. Len(s) /\ i - Len(s) \in 1 .. Len(t)
      BY <1>1, <2>4
    <3>2. u[j] \in Range(s) /\ u[i] \in Range(t)
      BY <1>1, <1>2, <2>4, <3>1
    <3> QED
      BY <1>3, <3>2
  <2> QED
    BY <1>1, <2>1, <2>2, <2>3, <2>4
<1> QED
  BY <1>3, Zenon DEF IsInjective, u

\* What is kept of one.
LEMMA OnlyDistinct ==
  ASSUME NEW A, NEW seq \in Seq(A), NEW S, IsInjective(seq)
  PROVE  IsInjective(Only(seq, S))
<1>1. PICK kept : KeepsOnly(kept, seq, S, A) /\ Only(seq, S) = kept[Len(seq)]
  BY OnlySteps
<1>2. /\ Len(seq) \in Nat /\ kept \in [0 .. Len(seq) -> Seq(A)] /\ kept[0] = <<>>
      /\ \A i, j \in 1 .. Len(seq) : seq[i] = seq[j] => i = j
      /\ \A i \in 1 .. Len(seq) : seq[i] \in A
  BY <1>1 DEF KeepsOnly, IsInjective
<1> DEFINE P == {n \in 0 .. Len(seq) :
                   /\ IsInjective(kept[n])
                   /\ \A x \in Range(kept[n]) : \E i \in 1 .. n : x = seq[i]}
<1>3. 0 \in P
  BY <1>2 DEF IsInjective, Range
<1>4. ASSUME NEW n \in 1 .. Len(seq), n - 1 \in P PROVE n \in P
  <2> DEFINE u == kept[n - 1]  x == seq[n]  one == <<x>>
  <2>0. u \in Seq(A) /\ x \in A
    <3>1. n - 1 \in 0 .. Len(seq)
      BY <1>2
    <3> QED
      BY <1>2, <3>1
  <2> HIDE DEF u, x
  <2>1. u \in Seq(A) /\ x \in A /\ one \in Seq(A) /\ Range(one) = {x} /\ IsInjective(one)
    BY <2>0 DEF Range, IsInjective
  <2>2. kept[n] = IF x \in S THEN Append(u, x) ELSE u
    BY <1>1 DEF KeepsOnly, u, x
  <2>3. IsInjective(u) /\ \A y \in Range(u) : \E i \in 1 .. n - 1 : y = seq[i]
    BY <1>4 DEF u
  <2>4. x \notin Range(u)
    BY <1>2, <2>3 DEF x
  <2>5. Append(u, x) = u \o one
    BY <2>1
  <2>6. \A i \in 1 .. n - 1 : i \in 1 .. n
    OBVIOUS
  <2> HIDE DEF one
  <2>7. IsInjective(u \o one) /\ Range(u \o one) = Range(u) \cup {x}
    <3>1. Range(u) \cap Range(one) = {}
      BY <2>1, <2>4
    <3> QED
      BY <2>1, <2>3, <3>1, JoinDistinct, RangeConcatenation
  <2>8. \A y \in Range(u) \cup {x} : \E i \in 1 .. n : y = seq[i]
    BY <2>3, <2>6, n \in 1 .. n DEF x
  <2>9. kept[n] = u \/ kept[n] = u \o one
    BY <2>2, <2>5
  <2>10. \A y \in Range(kept[n]) : \E i \in 1 .. n : y = seq[i]
    BY <2>7, <2>8, <2>9
  <2>11. IsInjective(kept[n])
    BY <2>3, <2>7, <2>9
  <2> QED
    BY <2>10, <2>11
<1>5. Len(seq) \in P
  <2> HIDE DEF P
  <2>1. 0 .. Len(seq) \subseteq P
    BY <1>2, <1>3, <1>4, UpTo
  <2> QED
    BY <1>2, <2>1
<1> QED
  BY <1>1, <1>5

\* Several of them that share nothing, one behind the other.
LEMMA FlattenDistinct ==
  ASSUME NEW A, NEW seqs \in Seq(Seq(A)),
         \A i \in DOMAIN seqs : IsInjective(seqs[i]),
         \A i, j \in DOMAIN seqs : i # j => Range(seqs[i]) \cap Range(seqs[j]) = {}
  PROVE  IsInjective(FlattenSeq(seqs))
<1>1. PICK flat : Flattens(flat, seqs, A) /\ FlattenSeq(seqs) = flat[Len(seqs)]
  BY FlattenSteps
<1>2. /\ Len(seqs) \in Nat /\ DOMAIN seqs = 1 .. Len(seqs)
      /\ flat \in [0 .. Len(seqs) -> Seq(A)] /\ flat[0] = <<>>
      /\ \A i \in 1 .. Len(seqs) : seqs[i] \in Seq(A) /\ i - 1 \in 0 .. Len(seqs)
  BY <1>1 DEF Flattens
<1> DEFINE P == {n \in 0 .. Len(seqs) :
                   /\ IsInjective(flat[n])
                   /\ \A x \in Range(flat[n]) : \E i \in 1 .. n : x \in Range(seqs[i])}
<1>3. 0 \in P
  BY <1>2 DEF IsInjective, Range
<1>4. ASSUME NEW n \in 1 .. Len(seqs), n - 1 \in P PROVE n \in P
  <2> DEFINE u == flat[n - 1]  v == seqs[n]
  <2>1. u \in Seq(A) /\ v \in Seq(A) /\ flat[n] = u \o v
    BY <1>1, <1>2 DEF Flattens
  <2>2. IsInjective(u) /\ \A x \in Range(u) : \E i \in 1 .. n - 1 : x \in Range(seqs[i])
    BY <1>4
  <2>3. \A i \in 1 .. n - 1 : i \in DOMAIN seqs /\ i \in 1 .. n /\ i # n
    BY <1>2
  <2>4. n \in DOMAIN seqs /\ n \in 1 .. n /\ n \in 0 .. Len(seqs)
    BY <1>2
  <2>5. Range(u) \cap Range(v) = {}
    BY <2>2, <2>3, <2>4
  <2>6. IsInjective(v)
    BY <2>4
  <2> HIDE DEF u, v
  <2>7. IsInjective(u \o v) /\ Range(u \o v) = Range(u) \cup Range(v)
    BY <2>1, <2>2, <2>5, <2>6, JoinDistinct, RangeConcatenation
  <2>8. \A x \in Range(u \o v) : \E i \in 1 .. n : x \in Range(seqs[i])
    BY <2>2, <2>3, <2>4, <2>7 DEF v
  <2> QED
    BY <2>1, <2>4, <2>7, <2>8
<1>5. Len(seqs) \in P
  <2> HIDE DEF P
  <2>1. 0 .. Len(seqs) \subseteq P
    BY <1>2, <1>3, <1>4, UpTo
  <2> QED
    BY <1>2, <2>1
<1> QED
  BY <1>1, <1>5

\* The beginning of a sequence.
LEMMA FrontIs ==
  ASSUME NEW A, NEW s \in Seq(A), NEW n \in 0 .. Len(s)
  PROVE  /\ SubSeq(s, 1, n) \in Seq(A) /\ Len(SubSeq(s, 1, n)) = n
         /\ Range(SubSeq(s, 1, n)) \subseteq Range(s)
         /\ IsInjective(s) => IsInjective(SubSeq(s, 1, n))
<1> DEFINE u == SubSeq(s, 1, n)
<1>1. u \in Seq(A) /\ Len(u) = n /\ DOMAIN u = 1 .. n /\ \A i \in 1 .. n : u[i] = s[i] /\ i \in DOMAIN s
  OBVIOUS
<1> HIDE DEF u
<1>2. Range(u) \subseteq Range(s)
  BY <1>1 DEF Range
<1>3. IsInjective(s) => IsInjective(u)
  BY <1>1 DEF IsInjective
<1> QED
  BY <1>1, <1>2, <1>3 DEF u
=============================================================================
