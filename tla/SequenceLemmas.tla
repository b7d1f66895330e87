--------------------------- MODULE SequenceLemmas ---------------------------
(***************************************************************************)
(* What the proofs use of SequencesExt!FlattenSeq, and induction over      *)
(* numbers in the form in which it is applied: to a set.                   *)
(***************************************************************************)
EXTENDS SequencesExt, SequenceTheorems, FiniteSetTheorems, TLAPS

\* 1 .. m is a strict subset of 1 .. n when m < n, and there is no infinite
\* descent among finite sets.
LEMMA LeastNumber ==
  ASSUME NEW T \in SUBSET Nat, T # {}
  PROVE  \E n \in T : \A m \in T : n <= m
<1> DEFINE Below == {1 .. n : n \in T}
<1>1. Below \subseteq FiniteSubsetsOf(Nat) /\ Below # {}
  <2>1. \A n \in T : IsFiniteSet(1 .. n) /\ 1 .. n \subseteq Nat
    BY FS_Interval
  <2> QED
    BY <2>1 DEF FiniteSubsetsOf
<1>2. \E s \in Below : \A r \in Below : <<r, s>> \notin StrictSubsetOrdering(Nat)
  <2> HIDE DEF Below
  <2> QED
    BY <1>1, WFMin, FS_StrictSubsetOrderingWellFounded
<1>3. PICK n \in T : \A m \in T : <<1 .. m, 1 .. n>> \notin StrictSubsetOrdering(Nat)
  BY <1>2
<1>4. \A m \in T : 1 .. m \subseteq 1 .. n => 1 .. m = 1 .. n
  <2>1. \A r, s \in SUBSET Nat : r \subseteq s /\ r # s => <<r, s>> \in StrictSubsetOrdering(Nat)
    BY DEF StrictSubsetOrdering
  <2>2. \A m \in T : 1 .. m \in SUBSET Nat
    OBVIOUS
  <2> QED
    BY <1>3, <2>1, <2>2, Zenon
<1>5. ASSUME NEW m \in T, m < n
      PROVE  FALSE
  <2>1. 1 .. m \subseteq 1 .. n /\ n \in 1 .. n /\ n \notin 1 .. m
    BY <1>5
  <2> QED
    BY <1>4, <2>1
<1> QED
  BY <1>5

LEMMA Induction ==
  ASSUME NEW S, 0 \in S, \A n \in Nat : n \in S => n + 1 \in S
  PROVE  Nat \subseteq S
<1> DEFINE T == Nat \ S
<1>1. CASE T # {}
  <2>1. PICK n \in T : \A m \in T : n <= m
    BY <1>1, LeastNumber
  <2>2. n # 0 /\ n - 1 \in Nat /\ n - 1 \notin T /\ (n - 1) + 1 = n
    BY <2>1
  <2> QED
    BY <2>1, <2>2
<1> QED
  BY <1>1
-----------------------------------------------------------------------------
(***************************************************************************)
(* FlattenSeq: its recursive function exists, so it has the equations that *)
(* one expects.                                                            *)
(***************************************************************************)
Flattens(f, seqs, n) ==
  f = [i \in 1 .. n |-> IF i = 1 THEN seqs[i] ELSE f[i - 1] \o seqs[i]]

LEMMA FlattensAt ==
  ASSUME NEW f, NEW seqs, NEW n \in Nat, Flattens(f, seqs, n), NEW i \in 1 .. n
  PROVE  f[i] = IF i = 1 THEN seqs[i] ELSE f[i - 1] \o seqs[i]
<1> DEFINE F(j) == IF j = 1 THEN seqs[j] ELSE f[j - 1] \o seqs[j]
<1>1. f = [j \in 1 .. n |-> F(j)]
  BY DEF Flattens
<1> HIDE DEF F
<1>2. f[i] = F(i)
  BY <1>1
<1> QED
  BY <1>2 DEF F

LEMMA FlattensExists ==
  ASSUME NEW seqs
  PROVE  \A n \in Nat : \E f : Flattens(f, seqs, n)
<1> DEFINE S == {n \in Nat : \E f : Flattens(f, seqs, n)}
<1>1. 0 \in S
  <2>1. Flattens([i \in 1 .. 0 |-> 0], seqs, 0)
    BY DEF Flattens
  <2> QED
    BY <2>1
<1>2. ASSUME NEW n \in Nat, n \in S
      PROVE  n + 1 \in S
  <2>1. PICK f : Flattens(f, seqs, n)
    BY <1>2
  <2> DEFINE last == IF n = 0 THEN seqs[1] ELSE f[n] \o seqs[n + 1]
             g == [i \in 1 .. n + 1 |-> IF i = n + 1 THEN last ELSE f[i]]
  <2>2. \A i \in 1 .. n : f[i] = IF i = 1 THEN seqs[i] ELSE f[i - 1] \o seqs[i]
    BY <2>1, FlattensAt
  <2>3. \A i \in 1 .. n + 1 : g[i] = IF i = 1 THEN seqs[i] ELSE g[i - 1] \o seqs[i]
    BY <2>2
  <2>4. Flattens(g, seqs, n + 1)
    <3>1. g = [i \in 1 .. n + 1 |-> g[i]]
      OBVIOUS
    <3> QED
      BY <2>3, <3>1 DEF Flattens
  <2> QED
    BY <2>4
<1> HIDE DEF S
<1>3. Nat \subseteq S
  BY <1>1, <1>2, Induction
<1> QED
  BY <1>3 DEF S

LEMMA FlattensUnique ==
  ASSUME NEW s, NEW t, NEW f, NEW g, NEW m \in Nat, NEW n \in Nat, m <= n,
         Flattens(f, s, m), Flattens(g, t, n), \A i \in 1 .. m : s[i] = t[i]
  PROVE  \A i \in 1 .. m : f[i] = g[i]
<1> DEFINE S == {i \in Nat : i \in 1 .. m => f[i] = g[i]}
<1>1. \A i \in 1 .. m : f[i] = IF i = 1 THEN s[i] ELSE f[i - 1] \o s[i]
  BY FlattensAt
<1>2. \A i \in 1 .. m : g[i] = IF i = 1 THEN t[i] ELSE g[i - 1] \o t[i]
  <2>1. \A i \in 1 .. m : i \in 1 .. n
    OBVIOUS
  <2> QED
    BY <2>1, FlattensAt
<1>3. 0 \in S
  OBVIOUS
<1>4. ASSUME NEW i \in Nat, i \in S
      PROVE  i + 1 \in S
  BY <1>1, <1>2, <1>4
<1> HIDE DEF S
<1>5. Nat \subseteq S
  BY <1>3, <1>4, Induction
<1> QED
  BY <1>5 DEF S

\* What FlattenSeq is: the last value of a function that flattens.
LEMMA FlattenSeqIs ==
  ASSUME NEW seqs, Len(seqs) \in Nat, Len(seqs) # 0
  PROVE  \E f : Flattens(f, seqs, Len(seqs)) /\ FlattenSeq(seqs) = f[Len(seqs)]
<1> DEFINE flatten == CHOOSE f : Flattens(f, seqs, Len(seqs))
<1>1. Flattens(flatten, seqs, Len(seqs))
  BY FlattensExists
<1>2. FlattenSeq(seqs) = flatten[Len(seqs)]
  BY DEF FlattenSeq, Flattens
<1> QED
  BY <1>1, <1>2

LEMMA FlattenEmpty == FlattenSeq(<<>>) = <<>>
BY DEF FlattenSeq

LEMMA FlattenType ==
  ASSUME NEW X, NEW seqs \in Seq(Seq(X))
  PROVE  FlattenSeq(seqs) \in Seq(X)
<1>1. CASE Len(seqs) = 0
  BY <1>1 DEF FlattenSeq
<1>2. CASE Len(seqs) # 0
  <2>1. PICK f : Flattens(f, seqs, Len(seqs)) /\ FlattenSeq(seqs) = f[Len(seqs)]
    BY <1>2, FlattenSeqIs
  <2> DEFINE S == {i \in Nat : i \in 1 .. Len(seqs) => f[i] \in Seq(X)}
  <2>2. \A i \in 1 .. Len(seqs) : f[i] = IF i = 1 THEN seqs[i] ELSE f[i - 1] \o seqs[i]
    <3>1. Len(seqs) \in Nat
      OBVIOUS
    <3> QED
      BY <2>1, <3>1, FlattensAt
  <2>3. \A i \in 1 .. Len(seqs) : seqs[i] \in Seq(X)
    OBVIOUS
  <2>4. 0 \in S
    OBVIOUS
  <2>5. ASSUME NEW i \in Nat, i \in S
        PROVE  i + 1 \in S
    <3>1. SUFFICES ASSUME i + 1 \in 1 .. Len(seqs)
                   PROVE  f[i + 1] \in Seq(X)
      OBVIOUS
    <3>2. CASE i = 0
      BY <2>2, <2>3, <3>1, <3>2
    <3>3. CASE i # 0
      <4>1. i \in 1 .. Len(seqs) /\ f[i] \in Seq(X)
        BY <2>5, <3>1, <3>3
      <4>2. f[i + 1] = f[i] \o seqs[i + 1]
        <5>1. (i + 1) - 1 = i /\ i + 1 # 1
          BY <3>3
        <5> QED
          BY <2>2, <3>1, <5>1
      <4> QED
        BY <2>3, <3>1, <4>1, <4>2
    <3> QED
      BY <3>2, <3>3
  <2> HIDE DEF S
  <2>6. Nat \subseteq S
    BY <2>4, <2>5, Induction
  <2> QED
    BY <1>2, <2>1, <2>6 DEF S
<1> QED
  BY <1>1, <1>2

LEMMA FlattenAppend ==
  ASSUME NEW X, NEW seqs \in Seq(Seq(X)), NEW s \in Seq(X)
  PROVE  FlattenSeq(Append(seqs, s)) = FlattenSeq(seqs) \o s
<1> DEFINE more == Append(seqs, s)
           n == Len(seqs)
<1>1. /\ n \in Nat /\ Len(more) = n + 1 /\ more[n + 1] = s
      /\ \A i \in 1 .. n : more[i] = seqs[i]
  OBVIOUS
<1> HIDE DEF more
<1>2. PICK g : Flattens(g, more, n + 1) /\ FlattenSeq(more) = g[n + 1]
  <2>1. Len(more) \in Nat /\ Len(more) # 0
    BY <1>1
  <2> QED
    BY <1>1, <2>1, FlattenSeqIs
<1>3. g[n + 1] = IF n = 0 THEN s ELSE g[n] \o s
  <2>1. g[n + 1] = IF n + 1 = 1 THEN more[n + 1] ELSE g[(n + 1) - 1] \o more[n + 1]
    <3>1. n + 1 \in Nat /\ n + 1 \in 1 .. n + 1
      BY <1>1
    <3> HIDE DEF n
    <3> QED
      BY <1>2, <3>1, FlattensAt
  <2>2. (n + 1) - 1 = n /\ (n + 1 = 1 <=> n = 0)
    BY <1>1
  <2> QED
    BY <1>1, <2>1, <2>2
<1>4. FlattenSeq(more) = FlattenSeq(seqs) \o s
  <2>1. CASE n = 0
    <3>1. seqs = <<>> /\ FlattenSeq(seqs) = <<>>
      BY <2>1 DEF FlattenSeq
    <3> QED
      BY <1>2, <1>3, <2>1, <3>1
  <2>2. CASE n # 0
    <3>1. PICK f : Flattens(f, seqs, n) /\ FlattenSeq(seqs) = f[n]
      BY <1>1, <2>2, FlattenSeqIs
    <3>2. n + 1 \in Nat /\ n <= n + 1 /\ n \in 1 .. n /\ \A i \in 1 .. n : seqs[i] = more[i]
      BY <1>1, <2>2
    <3> HIDE DEF n
    <3>3. \A i \in 1 .. n : f[i] = g[i]
      BY <1>1, <1>2, <3>1, <3>2, FlattensUnique
    <3> QED
      BY <1>2, <1>3, <2>2, <3>1, <3>2, <3>3
  <2> QED
    BY <2>1, <2>2
<1> QED
  BY <1>4 DEF more

LEMMA FlattenConcat ==
  ASSUME NEW X, NEW s \in Seq(Seq(X)), NEW t \in Seq(Seq(X))
  PROVE  FlattenSeq(s \o t) = FlattenSeq(s) \o FlattenSeq(t)
<1> DEFINE S == {n \in Nat : \A u \in Seq(Seq(X)) :
                   Len(u) = n => FlattenSeq(s \o u) = FlattenSeq(s) \o FlattenSeq(u)}
<1>1. 0 \in S
  <2>1. ASSUME NEW u \in Seq(Seq(X)), Len(u) = 0
        PROVE  FlattenSeq(s \o u) = FlattenSeq(s) \o FlattenSeq(u)
    <3>1. u = <<>> /\ s \o u = s
      BY <2>1
    <3>2. FlattenSeq(s) \in Seq(X)
      BY FlattenType
    <3>3. FlattenSeq(s) \o <<>> = FlattenSeq(s)
      BY <3>2
    <3> QED
      BY <3>1, <3>3, FlattenEmpty
  <2> QED
    BY <2>1
<1>2. ASSUME NEW n \in Nat, n \in S
      PROVE  n + 1 \in S
  <2>1. ASSUME NEW u \in Seq(Seq(X)), Len(u) = n + 1
        PROVE  FlattenSeq(s \o u) = FlattenSeq(s) \o FlattenSeq(u)
    <3>1. PICK v \in Seq(Seq(X)), e \in Seq(X) : u = Append(v, e)
      <4>1. u # <<>>
        BY <2>1
      <4> QED
        BY <4>1, SequenceEmptyOrAppend
    <3>2. Len(v) = n /\ s \o u = Append(s \o v, e) /\ s \o v \in Seq(Seq(X))
      BY <2>1, <3>1
    <3>3. FlattenSeq(s \o v) = FlattenSeq(s) \o FlattenSeq(v)
      BY <1>2, <3>2
    <3>4. /\ FlattenSeq(s \o u) = FlattenSeq(s \o v) \o e
          /\ FlattenSeq(u) = FlattenSeq(v) \o e
      BY <3>1, <3>2, FlattenAppend
    <3>5. FlattenSeq(s) \in Seq(X) /\ FlattenSeq(v) \in Seq(X)
      BY FlattenType
    <3>6. (FlattenSeq(s) \o FlattenSeq(v)) \o e = FlattenSeq(s) \o (FlattenSeq(v) \o e)
      <4>1. \A a, b, c \in Seq(X) : (a \o b) \o c = a \o (b \o c)
        BY ConcatAssociative, SMTT(30)
      <4> QED
        BY <3>5, <4>1, Zenon
    <3> QED
      BY <3>3, <3>4, <3>6, Zenon
  <2> QED
    BY <2>1
<1> HIDE DEF S
<1>3. Nat \subseteq S
  BY <1>1, <1>2, Induction
<1>4. Len(t) \in Nat
  OBVIOUS
<1> QED
  BY <1>3, <1>4 DEF S

\* A stretch of a sequence of sequences is flattened piece by piece.
LEMMA FlattenStretch ==
  ASSUME NEW X, NEW seqs \in Seq(Seq(X)),
         NEW m \in 1 .. Len(seqs) + 1, NEW k \in m - 1 .. Len(seqs), NEW n \in k .. Len(seqs)
  PROVE  /\ FlattenSeq(SubSeq(seqs, m, k)) \in Seq(X)
         /\ FlattenSeq(SubSeq(seqs, m, n))
              = FlattenSeq(SubSeq(seqs, m, k)) \o FlattenSeq(SubSeq(seqs, k + 1, n))
<1>1. SubSeq(seqs, m, k) \in Seq(Seq(X)) /\ SubSeq(seqs, k + 1, n) \in Seq(Seq(X))
  <2>1. /\ Len(seqs) \in Nat /\ m \in Int /\ k \in Int /\ n \in Int /\ k + 1 \in Int
        /\ \A i \in m .. k : seqs[i] \in Seq(X)
        /\ \A i \in k + 1 .. n : seqs[i] \in Seq(X)
    OBVIOUS
  <2> QED
    BY <2>1, SubSeqProperties
<1>2. SubSeq(seqs, m, n) = SubSeq(seqs, m, k) \o SubSeq(seqs, k + 1, n)
  BY ConcatAdjacentSubSeq
<1> QED
  BY <1>1, <1>2, FlattenConcat, FlattenType

LEMMA FlattenOne ==
  ASSUME NEW X, NEW s \in Seq(X)
  PROVE  FlattenSeq(<<s>>) = s
<1>1. <<>> \in Seq(Seq(X)) /\ <<s>> = Append(<<>>, s) /\ <<>> \o s = s
  OBVIOUS
<1> QED
  BY <1>1, FlattenAppend, FlattenEmpty

\* The two parts of a concatenation.
LEMMA ConcatParts ==
  ASSUME NEW X, NEW s \in Seq(X), NEW t \in Seq(X)
  PROVE  /\ Len(s \o t) = Len(s) + Len(t)
         /\ SubSeq(s \o t, 1, Len(s)) = s
         /\ SubSeq(s \o t, Len(s) + 1, Len(s \o t)) = t
<1> DEFINE u == s \o t
           m == Len(s)
           n == Len(t)
<1>1. /\ u \in Seq(X) /\ m \in Nat /\ n \in Nat /\ Len(u) = m + n
      /\ \A i \in 1 .. m : u[i] = s[i]
      /\ \A i \in 1 .. n : u[m + i] = t[i]
  OBVIOUS
<1> HIDE DEF u, m, n
<1>2. SubSeq(u, 1, m) = s
  <2>1. \A i \in 1 .. m : u[i] \in X
    BY <1>1
  <2>2. /\ SubSeq(u, 1, m) \in Seq(X) /\ Len(SubSeq(u, 1, m)) = m
        /\ \A i \in 1 .. m : SubSeq(u, 1, m)[i] = u[i]
    BY <1>1, <2>1, SubSeqProperties
  <2>3. \A i \in 1 .. m : SubSeq(u, 1, m)[i] = s[i]
    BY <1>1, <2>2
  <2> QED
    BY <1>1, <2>2, <2>3, SeqEqual DEF m
<1>3. SubSeq(u, m + 1, m + n) = t
  <2>1. \A i \in m + 1 .. m + n : u[i] \in X
    BY <1>1
  <2>2. /\ SubSeq(u, m + 1, m + n) \in Seq(X) /\ Len(SubSeq(u, m + 1, m + n)) = n
        /\ \A i \in 1 .. n : SubSeq(u, m + 1, m + n)[i] = u[m + i]
    BY <1>1, <2>1, SubSeqProperties
  <2>3. \A i \in 1 .. n : SubSeq(u, m + 1, m + n)[i] = t[i]
    BY <1>1, <2>2
  <2> QED
    BY <1>1, <2>2, <2>3, SeqEqual DEF n
<1> QED
  BY <1>1, <1>2, <1>3 DEF u, m, n
=============================================================================
