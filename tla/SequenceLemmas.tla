--------------------------- MODULE SequenceLemmas ---------------------------
(***************************************************************************)
(* Facts about data that take an induction, stated without an operator     *)
(* parameter so that the provers can use them: every non-empty set of      *)
(* numbers has a least element, and what follows from it for FlattenSeq.   *)
(*                                                                         *)
(* An induction is a proof by least counterexample: the numbers for which  *)
(* a formula fails are a set, and its least element, less one, is not in   *)
(* it.                                                                     *)
(***************************************************************************)
EXTENDS Integers, Sequences, SequencesExt, FiniteSets, FiniteSetTheorems,
        WellFoundedInduction, TLAPS

-----------------------------------------------------------------------------
(* Least elements                                                          *)

\* A set of numbers that is not empty has a least element: the intervals
\* below its elements are finite sets, and strict inclusion of finite sets
\* is well founded.
LEMMA LeastNatural ==
    ASSUME NEW S \in SUBSET Nat, S # {}
    PROVE  \E n \in S : \A m \in S : n <= m
<1> DEFINE Below == {0..n - 1 : n \in S}
           F == FiniteSubsetsOf(Nat)
           R == StrictSubsetOrdering(Nat)
<1>1. IsWellFoundedOn(R, F)
  BY FS_StrictSubsetOrderingWellFounded
<1>2. \A n \in S : 0..n - 1 \in F
  BY FS_Interval DEF FiniteSubsetsOf
<1>3. Below \subseteq F /\ Below # {}
  BY <1>2
<1>4. PICK B \in Below : \A C \in Below : ~(<<C, B>> \in R)
  <2> HIDE DEF Below, R, F
  <2> QED
    BY <1>1, <1>3, WFMin
<1>5. PICK n \in S : B = 0..n - 1
  OBVIOUS
<1>6. ASSUME NEW m \in S, m < n
      PROVE  FALSE
  <2>1. m \in 0..n - 1 /\ m \notin 0..m - 1
    BY <1>6
  <2>2. 0..m - 1 \subseteq 0..n - 1 /\ 0..m - 1 # 0..n - 1
    BY <2>1, <1>6
  <2>3. <<0..m - 1, 0..n - 1>> \in R
    BY <2>2 DEF StrictSubsetOrdering
  <2> QED
    BY <1>4, <1>5, <2>3
<1> QED
  BY <1>5, <1>6

\* The operator Min of the library picks that element.
LEMMA MinIsLeast ==
    ASSUME NEW S \in SUBSET Nat, S # {}
    PROVE  Min(S) \in S /\ \A m \in S : Min(S) <= m
BY LeastNatural DEF Min

-----------------------------------------------------------------------------
(* FlattenSeq                                                              *)

\* f holds the first n concatenations, as the function inside FlattenSeq does.
Flattens(f, seqs, n) == f = [i \in 1..n |-> IF i = 1 THEN seqs[i] ELSE f[i - 1] \o seqs[i]]

LEMMA FlattenGrows ==
    ASSUME NEW seqs, NEW n \in Nat \ {0}, NEW f, Flattens(f, seqs, n)
    PROVE  \E g : Flattens(g, seqs, n + 1)
<1> DEFINE g == [i \in 1..n + 1 |-> IF i = n + 1 THEN f[n] \o seqs[n + 1] ELSE f[i]]
<1>1. \A i \in 1..n : f[i] = IF i = 1 THEN seqs[i] ELSE f[i - 1] \o seqs[i]
  BY DEF Flattens
<1>2. ASSUME NEW i \in 1..n + 1
      PROVE  g[i] = IF i = 1 THEN seqs[i] ELSE g[i - 1] \o seqs[i]
  <2>1. CASE i = n + 1
    <3>1. i # 1 /\ i - 1 = n /\ n \in 1..n + 1 /\ n # n + 1
      BY <2>1
    <3> QED
      BY <2>1, <3>1
  <2>2. CASE i # n + 1
    <3>1. i \in 1..n /\ (i # 1 => i - 1 \in 1..n /\ i - 1 # n + 1 /\ i - 1 \in 1..n + 1)
      BY <2>2
    <3> QED
      BY <2>2, <3>1, <1>1
  <2> QED
    BY <2>1, <2>2
<1>3. Flattens(g, seqs, n + 1)
  BY <1>2 DEF Flattens
<1> QED
  BY <1>3

LEMMA FlattenDefined ==
    ASSUME NEW seqs, NEW N \in Nat \ {0}
    PROVE  \E f : Flattens(f, seqs, N)
<1> DEFINE Missing == {n \in Nat : n > 0 /\ ~\E f : Flattens(f, seqs, n)}
<1> SUFFICES ASSUME Missing # {} PROVE FALSE
  OBVIOUS
<1>1. PICK n \in Missing : \A m \in Missing : n <= m
  BY LeastNatural
<1>2. Flattens([i \in 1..1 |-> seqs[i]], seqs, 1)
  BY DEF Flattens
<1>3. n # 1
  BY <1>2
<1>4. n - 1 \in Nat \ {0} /\ n - 1 \notin Missing /\ n = (n - 1) + 1
  BY <1>1, <1>3
<1>5. \E f : Flattens(f, seqs, n)
  BY <1>4, FlattenGrows
<1> QED
  BY <1>5

\* FlattenSeq is the last of the concatenations.
LEMMA FlattenUnfolded ==
    ASSUME NEW seqs, Len(seqs) \in Nat \ {0}
    PROVE  \E f : Flattens(f, seqs, Len(seqs)) /\ FlattenSeq(seqs) = f[Len(seqs)]
<1> DEFINE F == CHOOSE f : Flattens(f, seqs, Len(seqs))
<1>1. \E f : Flattens(f, seqs, Len(seqs))
  BY FlattenDefined
<1>2. Flattens(F, seqs, Len(seqs))
  BY <1>1
<1>3. FlattenSeq(seqs) = F[Len(seqs)]
  BY DEF FlattenSeq, Flattens
<1> QED
  BY <1>2, <1>3

\* The concatenation of sequences over S is a sequence over S: it has no
\* other elements.
LEMMA FlattenTyped ==
    ASSUME NEW S, NEW seqs \in Seq(Seq(S))
    PROVE  FlattenSeq(seqs) \in Seq(S)
<1>1. CASE seqs = <<>>
  BY <1>1 DEF FlattenSeq
<1>2. CASE seqs # <<>>
  <2>1. Len(seqs) \in Nat \ {0}
    BY <1>2
  <2>2. PICK f : Flattens(f, seqs, Len(seqs)) /\ FlattenSeq(seqs) = f[Len(seqs)]
    BY <2>1, FlattenUnfolded
  <2>3. \A i \in 1..Len(seqs) : f[i] = IF i = 1 THEN seqs[i] ELSE f[i - 1] \o seqs[i]
    BY <2>2 DEF Flattens
  <2> DEFINE Wrong == {i \in 1..Len(seqs) : f[i] \notin Seq(S)}
  <2>4. Wrong = {}
    <3> SUFFICES ASSUME Wrong # {} PROVE FALSE
      OBVIOUS
    <3>1. PICK i \in Wrong : \A j \in Wrong : i <= j
      <4>1. Wrong \in SUBSET Nat
        BY <2>1
      <4> HIDE DEF Wrong
      <4> QED
        BY <4>1, LeastNatural
    <3>2. i \in 1..Len(seqs) /\ seqs[i] \in Seq(S)
      BY <2>1
    <3>3. i # 1
      BY <2>3, <3>2
    <3>4. i - 1 \in 1..Len(seqs) /\ i - 1 \notin Wrong
      BY <2>1, <3>1, <3>3
    <3>5. f[i - 1] \in Seq(S) /\ f[i] = f[i - 1] \o seqs[i]
      BY <2>3, <3>2, <3>3, <3>4
    <3>6. \A a, b \in Seq(S) : a \o b \in Seq(S)
      OBVIOUS
    <3>7. f[i] \in Seq(S)
      BY <3>2, <3>5, <3>6
    <3> QED
      BY <3>7
  <2> QED
    BY <2>1, <2>2, <2>4
<1> QED
  BY <1>1, <1>2
=============================================================================
