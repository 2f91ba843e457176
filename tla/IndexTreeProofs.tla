-------------------------- MODULE IndexTreeProofs --------------------------
(***************************************************************************)
(* Proofs about IndexTree, for every set of keys and addresses, every size *)
(* of a key and of a node and any number of pages.                         *)
(*                                                                         *)
(* The shape of the tree is described by labels that the program does not  *)
(* keep: an interval [a, b] for every page, strictly inside that of its    *)
(* parent and apart from those of its siblings, and the set of keys K that *)
(* may stand below the page.  A leaf lies behind another one when its      *)
(* interval does.                                                          *)
(***************************************************************************)
EXTENDS IndexTree, SequenceLemmas, FunctionTheorems

-----------------------------------------------------------------------------
(* Sequences in the order of a relation                                    *)

\* s has the elements of S, each pair of them in the relation R.
Lists(s, S, R) ==
    /\ s \in Seq(S) /\ \A x \in S : \E i \in DOMAIN s : s[i] = x
    /\ \A i, j \in DOMAIN s : i < j => <<s[i], s[j]>> \in R

Before(S, T, R) == \A x \in S, y \in T : <<x, y>> \in R

LEMMA ListsFields ==
    ASSUME NEW s, NEW S, NEW R, Lists(s, S, R)
    PROVE  /\ s \in Seq(S) /\ Len(s) \in Nat /\ DOMAIN s = 1..Len(s)
           /\ \A i \in 1..Len(s) : s[i] \in S
           /\ \A x \in S : \E i \in 1..Len(s) : s[i] = x
           /\ \A i, j \in 1..Len(s) : i < j => <<s[i], s[j]>> \in R
<1>1. s \in Seq(S)
  BY DEF Lists
<1>2. Len(s) \in Nat /\ DOMAIN s = 1..Len(s) /\ \A i \in 1..Len(s) : s[i] \in S
  BY <1>1
<1> QED
  BY <1>1, <1>2 DEF Lists

LEMMA ListsJoined ==
    ASSUME NEW s, NEW S, NEW R, Lists(s, S, R), NEW t, NEW T, Lists(t, T, R), Before(S, T, R)
    PROVE  Lists(s \o t, S \cup T, R)
<1> DEFINE u == s \o t
<1>1. /\ s \in Seq(S) /\ Len(s) \in Nat /\ DOMAIN s = 1..Len(s) /\ \A i \in 1..Len(s) : s[i] \in S
      /\ \A x \in S : \E i \in 1..Len(s) : s[i] = x
      /\ \A i, j \in 1..Len(s) : i < j => <<s[i], s[j]>> \in R
  BY ListsFields
<1>2. /\ t \in Seq(T) /\ Len(t) \in Nat /\ DOMAIN t = 1..Len(t) /\ \A i \in 1..Len(t) : t[i] \in T
      /\ \A x \in T : \E i \in 1..Len(t) : t[i] = x
      /\ \A i, j \in 1..Len(t) : i < j => <<t[i], t[j]>> \in R
  BY ListsFields
<1>3. s \in Seq(S \cup T) /\ t \in Seq(S \cup T)
  BY <1>1, <1>2
<1>4. /\ u \in Seq(S \cup T) /\ DOMAIN u = 1..Len(s) + Len(t)
      /\ \A k \in 1..Len(s) : u[k] = s[k]
      /\ \A k \in 1..Len(t) : u[Len(s) + k] = t[k]
  BY <1>3
<1> HIDE DEF u
<1>5. ASSUME NEW k \in DOMAIN u
      PROVE  \/ k \in 1..Len(s) /\ u[k] = s[k]
             \/ k - Len(s) \in 1..Len(t) /\ u[k] = t[k - Len(s)] /\ k > Len(s)
  <2>1. CASE k <= Len(s)
    BY <1>1, <1>4, <2>1
  <2>2. CASE k > Len(s)
    <3>1. k - Len(s) \in 1..Len(t) /\ Len(s) + (k - Len(s)) = k
      BY <1>1, <1>2, <1>4, <2>2
    <3> QED
      BY <1>4, <2>2, <3>1
  <2> QED
    BY <1>1, <1>4, <2>1, <2>2
<1>6. ASSUME NEW x \in S \cup T
      PROVE  \E k \in DOMAIN u : u[k] = x
  <2>1. CASE x \in S
    <3>1. PICK i \in 1..Len(s) : s[i] = x
      BY <1>1, <2>1
    <3>2. i \in DOMAIN u /\ u[i] = x
      BY <1>1, <1>2, <1>4, <3>1
    <3> QED
      BY <3>2
  <2>2. CASE x \in T
    <3>1. PICK i \in 1..Len(t) : t[i] = x
      BY <1>2, <2>2
    <3>2. Len(s) + i \in DOMAIN u /\ u[Len(s) + i] = x
      BY <1>1, <1>2, <1>4, <3>1
    <3> QED
      BY <3>2
  <2> QED
    BY <2>1, <2>2
<1>7. ASSUME NEW i \in DOMAIN u, NEW j \in DOMAIN u, i < j
      PROVE  <<u[i], u[j]>> \in R
  <2>1. CASE i \in 1..Len(s) /\ u[i] = s[i]
    <3>1. CASE j \in 1..Len(s) /\ u[j] = s[j]
      BY <1>1, <1>7, <2>1, <3>1
    <3>2. CASE j - Len(s) \in 1..Len(t) /\ u[j] = t[j - Len(s)] /\ j > Len(s)
      <4>1. u[i] \in S /\ u[j] \in T
        BY <1>1, <1>2, <2>1, <3>2
      <4> QED
        BY <4>1 DEF Before
    <3> QED
      BY <1>5, <3>1, <3>2
  <2>2. CASE i - Len(s) \in 1..Len(t) /\ u[i] = t[i - Len(s)] /\ i > Len(s)
    <3>1. j - Len(s) \in 1..Len(t) /\ u[j] = t[j - Len(s)] /\ i - Len(s) < j - Len(s)
      BY <1>1, <1>4, <1>5, <1>7, <2>2
    <3> QED
      BY <1>2, <2>2, <3>1
  <2> QED
    BY <1>5, <2>1, <2>2
<1> QED
  BY <1>4, <1>6, <1>7 DEF Lists, u

LEMMA ListsOne ==
    ASSUME NEW x, NEW R
    PROVE  Lists(<<x>>, {x}, R)
BY DEF Lists

LEMMA ListsNone ==
    ASSUME NEW R
    PROVE  Lists(<<>>, {}, R)
BY DEF Lists

\* The elements of the first n sets.
Upto(P, n) == UNION {P[i] : i \in 1..n}

LEMMA UptoNext ==
    ASSUME NEW P, NEW n \in Nat
    PROVE  /\ Upto(P, n + 1) = Upto(P, n) \cup P[n + 1]
           /\ \A x : x \in Upto(P, n) <=> \E i \in 1..n : x \in P[i]
           /\ Upto(P, 0) = {} /\ Upto(P, 1) = P[1]
<1>1. 1..n + 1 = (1..n) \cup {n + 1} /\ 1..0 = {} /\ 1..1 = {1}
  OBVIOUS
<1> QED
  BY <1>1 DEF Upto

\* Sequences one behind the other.
LEMMA FlattenLists ==
    ASSUME NEW seqs, NEW P, NEW R, Len(seqs) \in Nat, DOMAIN seqs = 1..Len(seqs),
           seqs = <<>> \/ Len(seqs) > 0,
           \A i \in 1..Len(seqs) : Lists(seqs[i], P[i], R),
           \A i, j \in 1..Len(seqs) : i < j => Before(P[i], P[j], R)
    PROVE  Lists(FlattenSeq(seqs), Upto(P, Len(seqs)), R)
<1>1. CASE seqs = <<>>
  <2>1. FlattenSeq(seqs) = <<>> /\ Len(seqs) = 0
    BY <1>1 DEF FlattenSeq
  <2>2. Upto(P, Len(seqs)) = {}
    BY <2>1, UptoNext
  <2> QED
    BY <2>1, <2>2, ListsNone
<1>2. CASE seqs # <<>>
  <2> DEFINE n == Len(seqs)
  <2>1. n \in Nat \ {0}
    BY <1>2
  <2>2. PICK f : Flattens(f, seqs, n) /\ FlattenSeq(seqs) = f[n]
    BY <2>1, FlattenUnfolded
  <2> DEFINE Wrong == {i \in 1..n : ~Lists(f[i], Upto(P, i), R)}
  <2>3. \A i \in 1..n : f[i] = IF i = 1 THEN seqs[i] ELSE f[i - 1] \o seqs[i]
    BY <2>2 DEF Flattens
  <2>4. Wrong = {}
    <3> SUFFICES ASSUME Wrong # {} PROVE FALSE
      OBVIOUS
    <3>1. PICK i \in Wrong : \A j \in Wrong : i <= j
      <4>1. Wrong \in SUBSET Nat
        BY <2>1
      <4> HIDE DEF Wrong
      <4> QED
        BY <4>1, LeastNatural
    <3>2. i \in 1..n /\ ~Lists(f[i], Upto(P, i), R)
      OBVIOUS
    <3>3. CASE i = 1
      <4>1. f[1] = seqs[1] /\ Lists(seqs[1], P[1], R)
        BY <2>3, <3>2, <3>3
      <4>2. Upto(P, 1) = P[1]
        BY UptoNext
      <4> QED
        BY <3>2, <3>3, <4>1, <4>2
    <3>4. CASE i # 1
      <4>1. PICK k \in Nat : i = k + 1 /\ k \in 1..n /\ k = i - 1
        BY <2>1, <3>2, <3>4
      <4>2. Lists(f[k], Upto(P, k), R)
        <5>1. k \notin Wrong
          BY <2>1, <3>1, <4>1
        <5> QED
          BY <4>1, <5>1
      <4>3. f[i] = f[k] \o seqs[i] /\ Lists(seqs[i], P[i], R)
        BY <2>3, <3>2, <3>4, <4>1
      <4>4. Before(Upto(P, k), P[i], R)
        <5> SUFFICES ASSUME NEW x \in Upto(P, k), NEW y \in P[i]
                     PROVE  <<x, y>> \in R
          BY DEF Before
        <5>1. PICK j \in 1..k : x \in P[j]
          BY UptoNext
        <5>2. j \in 1..n /\ j < i
          BY <2>1, <3>2, <4>1
        <5> QED
          BY <3>2, <5>1, <5>2 DEF Before
      <4>5. Upto(P, i) = Upto(P, k) \cup P[i]
        BY <4>1, UptoNext
      <4> HIDE DEF Wrong, n
      <4> QED
        BY <3>2, <4>2, <4>3, <4>4, <4>5, ListsJoined
    <3> QED
      BY <3>3, <3>4
  <2>5. Lists(f[n], Upto(P, n), R)
    BY <2>1, <2>4
  <2> QED
    BY <2>2, <2>5
<1> QED
  BY <1>1, <1>2

\* Where nothing is related to itself, no element is listed twice.
LEMMA ListsCount ==
    ASSUME NEW s, NEW S, NEW R, Lists(s, S, R), \A x : <<x, x>> \notin R
    PROVE  ToSet(s) = S /\ Len(s) = Cardinality(S)
<1>1. /\ s \in Seq(S) /\ Len(s) \in Nat /\ DOMAIN s = 1..Len(s) /\ \A i \in 1..Len(s) : s[i] \in S
      /\ \A x \in S : \E i \in 1..Len(s) : s[i] = x
      /\ \A i, j \in 1..Len(s) : i < j => <<s[i], s[j]>> \in R
  BY ListsFields
<1>2. S = {s[k] : k \in DOMAIN s}
  BY <1>1
<1>3. s \in [1..Len(s) -> S]
  BY <1>1
<1>4. IsInjective(s)
  <2>1. ASSUME NEW i \in 1..Len(s), NEW j \in 1..Len(s), s[i] = s[j]
        PROVE  i = j
    <3>1. ~(i < j) /\ ~(j < i)
      BY <1>1, <2>1
    <3> QED
      BY <1>1, <3>1
  <2> QED
    BY <1>1, <2>1 DEF IsInjective
<1>5. s \in Bijection(1..Len(s), S)
  BY <1>1, <1>3, <1>4 DEF Bijection, Injection, Surjection
<1>6. ExistsBijection(1..Len(s), S)
  BY <1>5 DEF ExistsBijection
<1>7. Cardinality(S) = Len(s)
  BY <1>1, <1>6, FS_CountingElements
<1> QED
  BY <1>2, <1>7 DEF ToSet

-----------------------------------------------------------------------------
(* Functions defined along links                                           *)

\* The links lead to ever smaller numbers m, up to the pages of Stop.
Falls(D, Stop, succ, m, N) ==
    /\ N \in Nat /\ m \in [D -> 0..N]
    /\ \A p \in D \ Stop : succ[p] \in D /\ m[succ[p]] < m[p]

\* f goes from link to link.
ChaseStep(f, Stop, base, succ, p) == IF p \in Stop THEN base[p] ELSE f[succ[p]]

Chases(f, D, Stop, base, succ) == f = [p \in D |-> ChaseStep(f, Stop, base, succ, p)]

LEMMA ChaseDefined ==
    ASSUME NEW D, NEW Stop, NEW base, NEW succ, NEW N, NEW m, Falls(D, Stop, succ, m, N)
    PROVE  \E f : Chases(f, D, Stop, base, succ)
<1> DEFINE Part(f, n) == f = [p \in D |-> f[p]]
                         /\ \A p \in D : m[p] < n => f[p] = ChaseStep(f, Stop, base, succ, p)
           Missing == {n \in Nat : ~\E f : Part(f, n)}
<1>1. /\ N \in Nat /\ \A p \in D : m[p] \in Nat /\ m[p] <= N
      /\ \A p \in D \ Stop : succ[p] \in D /\ m[succ[p]] < m[p]
  BY DEF Falls
<1>2. Part([p \in D |-> 0], 0)
  BY <1>1
<1>3. ASSUME NEW n \in Nat, NEW f, Part(f, n)
      PROVE  \E g : Part(g, n + 1)
  <2> DEFINE g == [p \in D |-> IF m[p] < n THEN f[p] ELSE ChaseStep(f, Stop, base, succ, p)]
  <2>1. ASSUME NEW p \in D, m[p] < n + 1
        PROVE  g[p] = ChaseStep(g, Stop, base, succ, p)
    <3>1. g[p] = ChaseStep(f, Stop, base, succ, p)
      BY <1>3
    <3>2. CASE p \in Stop
      BY <3>1, <3>2 DEF ChaseStep
    <3>3. CASE p \notin Stop
      <4>1. succ[p] \in D /\ m[succ[p]] < n
        BY <1>1, <2>1, <3>3
      <4>2. g[succ[p]] = f[succ[p]]
        BY <4>1
      <4> HIDE DEF g
      <4> QED
        BY <3>1, <3>3, <4>2 DEF ChaseStep
    <3> QED
      BY <3>2, <3>3
  <2>2. g = [p \in D |-> g[p]]
    OBVIOUS
  <2> HIDE DEF g
  <2>3. Part(g, n + 1)
    BY <2>1, <2>2
  <2> QED
    BY <2>3
<1> HIDE DEF Part
<1>4. Missing = {}
  <2> SUFFICES ASSUME Missing # {} PROVE FALSE
    OBVIOUS
  <2>1. PICK n \in Missing : \A k \in Missing : n <= k
    BY LeastNatural
  <2>2. n # 0
    BY <1>2
  <2>3. n - 1 \in Nat /\ n - 1 \notin Missing /\ (n - 1) + 1 = n
    BY <2>1, <2>2
  <2>4. \E g : Part(g, n)
    BY <1>3, <2>3
  <2> QED
    BY <2>4
<1>5. PICK f : Part(f, N + 1)
  BY <1>1, <1>4
<1>6. \A p \in D : f[p] = ChaseStep(f, Stop, base, succ, p)
  BY <1>1, <1>5 DEF Part
<1>7. f = [p \in D |-> f[p]]
  BY <1>5 DEF Part
<1>8. Chases(f, D, Stop, base, succ)
  BY <1>6, <1>7 DEF Chases
<1> QED
  BY <1>8

\* f collects what it finds from link to link.
GatherStep(f, Stop, found, succ, p) ==
    IF p \in Stop THEN found[p] ELSE found[p] \o f[succ[p]]

Gathers(f, D, Stop, found, succ) == f = [p \in D |-> GatherStep(f, Stop, found, succ, p)]

LEMMA GatherDefined ==
    ASSUME NEW D, NEW Stop, NEW found, NEW succ, NEW N, NEW m, Falls(D, Stop, succ, m, N)
    PROVE  \E f : Gathers(f, D, Stop, found, succ)
<1> DEFINE Part(f, n) == f = [p \in D |-> f[p]]
                         /\ \A p \in D : m[p] < n => f[p] = GatherStep(f, Stop, found, succ, p)
           Missing == {n \in Nat : ~\E f : Part(f, n)}
<1>1. /\ N \in Nat /\ \A p \in D : m[p] \in Nat /\ m[p] <= N
      /\ \A p \in D \ Stop : succ[p] \in D /\ m[succ[p]] < m[p]
  BY DEF Falls
<1>2. Part([p \in D |-> 0], 0)
  BY <1>1
<1>3. ASSUME NEW n \in Nat, NEW f, Part(f, n)
      PROVE  \E g : Part(g, n + 1)
  <2> DEFINE g == [p \in D |-> IF m[p] < n THEN f[p] ELSE GatherStep(f, Stop, found, succ, p)]
  <2>1. ASSUME NEW p \in D, m[p] < n + 1
        PROVE  g[p] = GatherStep(g, Stop, found, succ, p)
    <3>1. g[p] = GatherStep(f, Stop, found, succ, p)
      BY <1>3
    <3>2. CASE p \in Stop
      BY <3>1, <3>2 DEF GatherStep
    <3>3. CASE p \notin Stop
      <4>1. succ[p] \in D /\ m[succ[p]] < n
        BY <1>1, <2>1, <3>3
      <4>2. g[succ[p]] = f[succ[p]]
        BY <4>1
      <4> HIDE DEF g
      <4> QED
        BY <3>1, <3>3, <4>2 DEF GatherStep
    <3> QED
      BY <3>2, <3>3
  <2>2. g = [p \in D |-> g[p]]
    OBVIOUS
  <2> HIDE DEF g
  <2>3. Part(g, n + 1)
    BY <2>1, <2>2
  <2> QED
    BY <2>3
<1> HIDE DEF Part
<1>4. Missing = {}
  <2> SUFFICES ASSUME Missing # {} PROVE FALSE
    OBVIOUS
  <2>1. PICK n \in Missing : \A k \in Missing : n <= k
    BY LeastNatural
  <2>2. n # 0
    BY <1>2
  <2>3. n - 1 \in Nat /\ n - 1 \notin Missing /\ (n - 1) + 1 = n
    BY <2>1, <2>2
  <2>4. \E g : Part(g, n)
    BY <1>3, <2>3
  <2> QED
    BY <2>4
<1>5. PICK f : Part(f, N + 1)
  BY <1>1, <1>4
<1>6. \A p \in D : f[p] = GatherStep(f, Stop, found, succ, p)
  BY <1>1, <1>5 DEF Part
<1>7. f = [p \in D |-> f[p]]
  BY <1>5 DEF Part
<1>8. Gathers(f, D, Stop, found, succ)
  BY <1>6, <1>7 DEF Gathers
<1> QED
  BY <1>8

\* What a page adds in front of its children, if anything.
Headed(head, p, s) == IF p \in DOMAIN head THEN head[p] \o s ELSE s

\* f goes through the children of a page in their order.
TreeStep(f, ns, head, p) ==
    IF ns[p].leaf THEN <<p>>
    ELSE Headed(head, p, FlattenSeq([i \in DOMAIN ns[p].entries |-> f[ns[p].entries[i].child]]))
           \o f[ns[p].rightmost]

\* The children of a page have smaller numbers m.
Descends(ns, m, N) ==
    /\ N \in Nat /\ m \in [DOMAIN ns -> 0..N]
    /\ \A p \in DOMAIN ns : ~ns[p].leaf =>
          /\ \A i \in DOMAIN ns[p].entries :
                ns[p].entries[i].child \in DOMAIN ns /\ m[ns[p].entries[i].child] < m[p]
          /\ ns[p].rightmost \in DOMAIN ns /\ m[ns[p].rightmost] < m[p]

WalksTree(f, ns, head) == f = [p \in DOMAIN ns |-> TreeStep(f, ns, head, p)]

LEMMA TreeWalkDefined ==
    ASSUME NEW ns, NEW head, NEW N, NEW m, Descends(ns, m, N)
    PROVE  \E f : WalksTree(f, ns, head)
<1> DEFINE D == DOMAIN ns
           Part(f, n) == f = [p \in D |-> f[p]]
                         /\ \A p \in D : m[p] < n => f[p] = TreeStep(f, ns, head, p)
           Missing == {n \in Nat : ~\E f : Part(f, n)}
<1>1. /\ N \in Nat /\ \A p \in D : m[p] \in Nat /\ m[p] <= N
  BY DEF Descends
<1>2. Part([p \in D |-> 0], 0)
  BY <1>1
<1>3. ASSUME NEW n \in Nat, NEW f, Part(f, n)
      PROVE  \E g : Part(g, n + 1)
  <2> DEFINE g == [p \in D |-> IF m[p] < n THEN f[p] ELSE TreeStep(f, ns, head, p)]
  <2>1. ASSUME NEW p \in D, m[p] < n + 1
        PROVE  g[p] = TreeStep(g, ns, head, p)
    <3>1. g[p] = TreeStep(f, ns, head, p)
      BY <1>3
    <3>2. CASE ns[p].leaf
      BY <3>1, <3>2 DEF TreeStep
    <3>3. CASE ~ns[p].leaf
      <4>1. /\ \A i \in DOMAIN ns[p].entries :
                  ns[p].entries[i].child \in D /\ m[ns[p].entries[i].child] < n
            /\ ns[p].rightmost \in D /\ m[ns[p].rightmost] < n
        BY <1>1, <2>1, <3>3 DEF Descends
      <4>2. \A i \in DOMAIN ns[p].entries : g[ns[p].entries[i].child] = f[ns[p].entries[i].child]
        BY <4>1
      <4>3. g[ns[p].rightmost] = f[ns[p].rightmost]
        BY <4>1
      <4> HIDE DEF g
      <4>4. [i \in DOMAIN ns[p].entries |-> g[ns[p].entries[i].child]]
              = [i \in DOMAIN ns[p].entries |-> f[ns[p].entries[i].child]]
        BY <4>2
      <4> QED
        BY <3>1, <3>3, <4>3, <4>4 DEF TreeStep
    <3> QED
      BY <3>2, <3>3
  <2>2. g = [p \in D |-> g[p]]
    OBVIOUS
  <2> HIDE DEF g
  <2>3. Part(g, n + 1)
    BY <2>1, <2>2
  <2> QED
    BY <2>3
<1> HIDE DEF Part
<1>4. Missing = {}
  <2> SUFFICES ASSUME Missing # {} PROVE FALSE
    OBVIOUS
  <2>1. PICK n \in Missing : \A k \in Missing : n <= k
    BY LeastNatural
  <2>2. n # 0
    BY <1>2
  <2>3. n - 1 \in Nat /\ n - 1 \notin Missing /\ (n - 1) + 1 = n
    BY <2>1, <2>2
  <2>4. \E g : Part(g, n)
    BY <1>3, <2>3
  <2> QED
    BY <2>4
<1>5. PICK f : Part(f, N + 1)
  BY <1>1, <1>4
<1>6. \A p \in D : f[p] = TreeStep(f, ns, head, p)
  BY <1>1, <1>5 DEF Part
<1>7. f = [p \in D |-> f[p]]
  BY <1>5 DEF Part
<1>8. WalksTree(f, ns, head)
  BY <1>6, <1>7 DEF WalksTree
<1> QED
  BY <1>8

-----------------------------------------------------------------------------
(* The shape of the tree                                                   *)

Width(ns, p) == Len(ns[p].entries)
Key(ns, p, i) == ns[p].entries[i].key
Kid(ns, p, i) == IF i <= Width(ns, p) THEN ns[p].entries[i].child ELSE ns[p].rightmost
Slots(ns, p) == IF ns[p].leaf THEN {} ELSE 1..Width(ns, p) + 1

Inside(a, b, q, p) == a[p] < a[q] /\ b[q] < b[p]

\* The keys that may stand below a child, between the separators around it.
Allowed(ns, K, p, i) ==
    {k \in K[p] : /\ i > 1 => Key(ns, p, i - 1) <= k
                  /\ i <= Width(ns, p) => k <= Key(ns, p, i)}

Labelled(D, a, b, K) ==
    /\ a \in [D -> Int] /\ b \in [D -> Int] /\ K \in [D -> SUBSET Int]
    /\ \A p \in D : a[p] < b[p]

Rooted(D, r, a, b, K) == r \in D /\ K[r] = Int /\ \A p \in D : p # r => Inside(a, b, p, r)

Nested(D, a, b) ==
    \A p, q \in D : p # q => \/ b[p] < a[q] \/ b[q] < a[p]
                             \/ Inside(a, b, q, p) \/ Inside(a, b, p, q)

\* Keys grow from left to right and from a page to the pages above it.
Ordered(D, a, b, K) ==
    \A p, q \in D : b[p] < a[q] => \A x \in K[p], y \in K[q] : x <= y
Narrowing(D, a, b, K) ==
    \A p, q \in D : Inside(a, b, q, p) => K[q] \subseteq K[p]

KidsPlaced(ns, a, b, K, p) ==
    \A i \in Slots(ns, p) : /\ Kid(ns, p, i) \in DOMAIN ns
                            /\ Inside(a, b, Kid(ns, p, i), p)
                            /\ K[Kid(ns, p, i)] = Allowed(ns, K, p, i)
KidsApart(ns, a, b, p) ==
    \A i, j \in Slots(ns, p) : i < j => b[Kid(ns, p, i)] < a[Kid(ns, p, j)]
KeysPlaced(ns, K, p) ==
    /\ Width(ns, p) \in Nat
    /\ \A i \in 1..Width(ns, p) : Key(ns, p, i) \in K[p]
    /\ \A i, j \in 1..Width(ns, p) : i < j => Key(ns, p, i) <= Key(ns, p, j)
KidsReach(ns, a, b, p) ==
    \A q \in DOMAIN ns : Inside(a, b, q, p) =>
        \E i \in Slots(ns, p) : q = Kid(ns, p, i) \/ Inside(a, b, q, Kid(ns, p, i))

PagePlaced(ns, a, b, K, p) ==
    /\ KidsPlaced(ns, a, b, K, p) /\ KidsApart(ns, a, b, p)
    /\ KeysPlaced(ns, K, p) /\ KidsReach(ns, a, b, p)

TreeShape(ns, r, a, b, K) ==
    /\ Labelled(DOMAIN ns, a, b, K) /\ Rooted(DOMAIN ns, r, a, b, K)
    /\ Nested(DOMAIN ns, a, b) /\ Ordered(DOMAIN ns, a, b, K) /\ Narrowing(DOMAIN ns, a, b, K)
    /\ \A p \in DOMAIN ns : PagePlaced(ns, a, b, K, p)

LEMMA LabelTypes ==
    ASSUME NEW D, NEW a, NEW b, NEW K, Labelled(D, a, b, K), NEW p \in D
    PROVE  /\ a[p] \in Int /\ b[p] \in Int /\ K[p] \subseteq Int /\ a[p] < b[p]
BY DEF Labelled

\* A page has one parent, and one place there.
LEMMA OneParent ==
    ASSUME NEW ns, NEW r, NEW a, NEW b, NEW K, TreeShape(ns, r, a, b, K),
           NEW p \in DOMAIN ns, NEW q \in DOMAIN ns,
           NEW i \in Slots(ns, p), NEW j \in Slots(ns, q), Kid(ns, p, i) = Kid(ns, q, j)
    PROVE  p = q /\ i = j
<1> DEFINE D == DOMAIN ns
<1>1. ASSUME NEW x \in D, NEW k \in Slots(ns, x)
      PROVE  Kid(ns, x, k) \in D /\ Inside(a, b, Kid(ns, x, k), x)
  BY DEF TreeShape, PagePlaced, KidsPlaced
<1>2. \A x \in D : a[x] \in Int /\ b[x] \in Int /\ a[x] < b[x]
  BY LabelTypes DEF TreeShape
<1>3. ASSUME NEW x \in D, NEW k \in Slots(ns, x), NEW l \in Slots(ns, x), k < l
      PROVE  b[Kid(ns, x, k)] < a[Kid(ns, x, l)]
  BY <1>3 DEF TreeShape, PagePlaced, KidsApart
<1>4. ASSUME NEW x \in D, NEW y \in D, NEW k \in Slots(ns, x), NEW l \in Slots(ns, y),
             Kid(ns, x, k) = Kid(ns, y, l), Inside(a, b, x, y)
      PROVE  FALSE
  <2>1. PICK h \in Slots(ns, y) : x = Kid(ns, y, h) \/ Inside(a, b, x, Kid(ns, y, h))
    BY <1>4 DEF TreeShape, PagePlaced, KidsReach
  <2> DEFINE c == Kid(ns, x, k)
             d == Kid(ns, y, h)
  <2>2. c \in D /\ d \in D /\ Inside(a, b, c, x) /\ Kid(ns, y, l) = c
    BY <1>1, <1>4
  <2>3. Inside(a, b, c, d)
    BY <1>2, <2>1, <2>2 DEF Inside
  <2>4. h \in Int /\ l \in Int
    BY DEF TreeShape, PagePlaced, KeysPlaced, Slots
  <2>5. h = l
    <3>1. ~(b[c] < a[d]) /\ ~(b[d] < a[c])
      BY <1>2, <2>2, <2>3 DEF Inside
    <3>2. ~(l < h) /\ ~(h < l)
      BY <1>3, <2>2, <3>1
    <3> QED
      BY <2>4, <3>2
  <2>6. c = d
    BY <2>2, <2>5
  <2> QED
    BY <1>2, <2>2, <2>3, <2>6 DEF Inside
<1>5. p = q
  <2> SUFFICES ASSUME p # q PROVE FALSE
    OBVIOUS
  <2>1. b[p] < a[q] \/ b[q] < a[p] \/ Inside(a, b, q, p) \/ Inside(a, b, p, q)
    BY DEF TreeShape, Nested
  <2>2. Kid(ns, p, i) \in D /\ Inside(a, b, Kid(ns, p, i), p) /\ Inside(a, b, Kid(ns, p, i), q)
    BY <1>1
  <2>3. ~(b[p] < a[q]) /\ ~(b[q] < a[p])
    BY <1>2, <2>2 DEF Inside
  <2> QED
    BY <1>4, <2>1, <2>3
<1>6. i \in Int /\ j \in Int
  BY DEF TreeShape, PagePlaced, KeysPlaced, Slots
<1>7. ~(i < j) /\ ~(j < i)
  <2>1. Kid(ns, p, i) \in D
    BY <1>1
  <2>2. ~(b[Kid(ns, p, i)] < a[Kid(ns, p, i)])
    BY <1>2, <2>1
  <2> QED
    BY <1>3, <1>5, <2>2
<1> QED
  BY <1>5, <1>6, <1>7

-----------------------------------------------------------------------------
(* A page is split                                                         *)

\* Labels for the two halves of p: the left one keeps the page and the keys
\* up to s, the right one gets the others.
Relabelled(D, right, p, m1, m2, s, a, b, K, a2, b2, K2) ==
    /\ m1 \in Int /\ m2 \in Int /\ a[p] < m1 /\ m1 < m2 /\ m2 < b[p]
    /\ s \in K[p] /\ right \notin D /\ p \in D
    /\ a2 \in [D \cup {right} -> Int] /\ b2 \in [D \cup {right} -> Int]
    /\ K2 \in [D \cup {right} -> SUBSET Int]
    /\ \A q \in D : a2[q] = a[q]
    /\ \A q \in D : q # p => b2[q] = b[q] /\ K2[q] = K[q]
    /\ b2[p] = m1 /\ a2[right] = m2 /\ b2[right] = b[p]
    /\ \A k : k \in K2[p] <=> k \in K[p] /\ k <= s
    /\ \A k : k \in K2[right] <=> k \in K[p] /\ s <= k
    /\ \A q \in D : Inside(a, b, q, p) => b[q] < m1 \/ m2 < a[q]

LEMMA SplitLabelled ==
    ASSUME NEW D, NEW a, NEW b, NEW K, Labelled(D, a, b, K), NEW right, NEW p, NEW m1, NEW m2,
           NEW s, NEW a2, NEW b2, NEW K2,
           Relabelled(D, right, p, m1, m2, s, a, b, K, a2, b2, K2)
    PROVE  Labelled(D \cup {right}, a2, b2, K2)
<1>1. \A q \in D : a[q] \in Int /\ b[q] \in Int /\ a[q] < b[q]
  BY LabelTypes
<1>2. ASSUME NEW q \in D \cup {right}
      PROVE  a2[q] < b2[q]
  <2>1. CASE q = right
    BY <2>1, <1>1 DEF Relabelled
  <2>2. CASE q = p
    BY <2>2, <1>1 DEF Relabelled
  <2>3. CASE q # right /\ q # p
    BY <2>3, <1>1 DEF Relabelled
  <2> QED
    BY <2>1, <2>2, <2>3
<1> QED
  BY <1>2 DEF Labelled, Relabelled

LEMMA SplitRooted ==
    ASSUME NEW D, NEW r, NEW a, NEW b, NEW K, Labelled(D, a, b, K), Rooted(D, r, a, b, K),
           NEW right, NEW p, NEW m1, NEW m2, NEW s, NEW a2, NEW b2, NEW K2,
           Relabelled(D, right, p, m1, m2, s, a, b, K, a2, b2, K2), p # r
    PROVE  Rooted(D \cup {right}, r, a2, b2, K2)
<1>1. \A q \in D : a[q] \in Int /\ b[q] \in Int /\ a[q] < b[q]
  BY LabelTypes
<1>2. r \in D /\ p \in D /\ K[r] = Int /\ Inside(a, b, p, r)
  BY DEF Rooted, Relabelled
<1>3. K2[r] = Int /\ a2[r] = a[r] /\ b2[r] = b[r]
  BY <1>2 DEF Relabelled
<1>4. ASSUME NEW q \in D \cup {right}, q # r
      PROVE  Inside(a2, b2, q, r)
  <2>1. CASE q = right
    BY <2>1, <1>1, <1>2, <1>3 DEF Relabelled, Inside
  <2>2. CASE q = p
    BY <2>2, <1>1, <1>2, <1>3 DEF Relabelled, Inside
  <2>3. CASE q # right /\ q # p
    <3>1. q \in D /\ Inside(a, b, q, r)
      BY <1>4, <2>3 DEF Rooted
    <3> QED
      BY <2>3, <1>3, <3>1 DEF Relabelled, Inside
  <2> QED
    BY <2>1, <2>2, <2>3
<1> QED
  BY <1>2, <1>3, <1>4 DEF Rooted

\* Where a page lies that is not split.
LEMMA SplitPlaces ==
    ASSUME NEW D, NEW a, NEW b, NEW K, Labelled(D, a, b, K), Nested(D, a, b),
           NEW right, NEW p, NEW m1, NEW m2, NEW s, NEW a2, NEW b2, NEW K2,
           Relabelled(D, right, p, m1, m2, s, a, b, K, a2, b2, K2), NEW q \in D, q # p
    PROVE  \/ b[q] < a[p] /\ b2[q] < a2[p] /\ b2[q] < a2[right]
           \/ b[p] < a[q] /\ b2[p] < a2[q] /\ b2[right] < a2[q]
           \/ Inside(a, b, p, q) /\ Inside(a2, b2, p, q) /\ Inside(a2, b2, right, q)
           \/ Inside(a, b, q, p) /\ Inside(a2, b2, q, p) /\ b2[q] < a2[right]
           \/ Inside(a, b, q, p) /\ Inside(a2, b2, q, right) /\ b2[p] < a2[q]
<1>1. /\ a[q] \in Int /\ b[q] \in Int /\ a[q] < b[q] /\ a[p] \in Int /\ b[p] \in Int /\ a[p] < b[p]
  BY LabelTypes DEF Relabelled
<1>2. /\ m1 \in Int /\ m2 \in Int /\ a[p] < m1 /\ m1 < m2 /\ m2 < b[p]
      /\ a2[q] = a[q] /\ b2[q] = b[q] /\ a2[p] = a[p] /\ b2[p] = m1
      /\ a2[right] = m2 /\ b2[right] = b[p]
      /\ Inside(a, b, q, p) => b[q] < m1 \/ m2 < a[q]
  BY DEF Relabelled
<1>3. b[p] < a[q] \/ b[q] < a[p] \/ Inside(a, b, q, p) \/ Inside(a, b, p, q)
  BY DEF Nested, Relabelled
<1> QED
  BY <1>1, <1>2, <1>3 DEF Inside

LEMMA SplitNested ==
    ASSUME NEW D, NEW a, NEW b, NEW K, Labelled(D, a, b, K), Nested(D, a, b),
           NEW right, NEW p, NEW m1, NEW m2, NEW s, NEW a2, NEW b2, NEW K2,
           Relabelled(D, right, p, m1, m2, s, a, b, K, a2, b2, K2)
    PROVE  Nested(D \cup {right}, a2, b2)
<1> DEFINE Good(x, y) == \/ b2[x] < a2[y] \/ b2[y] < a2[x]
                         \/ Inside(a2, b2, y, x) \/ Inside(a2, b2, x, y)
<1>1. ASSUME NEW q \in D, q # p
      PROVE  Good(q, p) /\ Good(q, right) /\ Good(p, q) /\ Good(right, q)
  BY <1>1, SplitPlaces
<1>2. Good(p, right) /\ Good(right, p)
  BY DEF Relabelled
<1>3. ASSUME NEW x \in D, NEW y \in D, x # y, x # p, y # p
      PROVE  Good(x, y)
  <2>1. a2[x] = a[x] /\ b2[x] = b[x] /\ a2[y] = a[y] /\ b2[y] = b[y]
    BY <1>3 DEF Relabelled
  <2>2. b[x] < a[y] \/ b[y] < a[x] \/ Inside(a, b, y, x) \/ Inside(a, b, x, y)
    BY <1>3 DEF Nested
  <2> QED
    BY <2>1, <2>2 DEF Inside
<1> HIDE DEF Good
<1>4. ASSUME NEW x \in D \cup {right}, NEW y \in D \cup {right}, x # y
      PROVE  Good(x, y)
  BY <1>1, <1>2, <1>3, <1>4
<1> QED
  BY <1>4 DEF Nested, Good

\* The halves are good pages, each for its labels.
Halved(ms, right, p, a2, b2, K2) ==
    PagePlaced(ms, a2, b2, K2, p) /\ PagePlaced(ms, a2, b2, K2, right)

LEMMA SplitNarrowing ==
    ASSUME NEW D, NEW a, NEW b, NEW K, Labelled(D, a, b, K), Nested(D, a, b),
           Narrowing(D, a, b, K), NEW right, NEW p, NEW m1, NEW m2, NEW s, NEW a2, NEW b2, NEW K2,
           Relabelled(D, right, p, m1, m2, s, a, b, K, a2, b2, K2),
           NEW ms, DOMAIN ms = D \cup {right}, Halved(ms, right, p, a2, b2, K2)
    PROVE  Narrowing(D \cup {right}, a2, b2, K2)
<1>1. \A q \in D : a[q] \in Int /\ b[q] \in Int /\ a[q] < b[q]
  BY LabelTypes
<1>2. Labelled(D \cup {right}, a2, b2, K2) /\ p \in D /\ right \notin D
  BY SplitLabelled DEF Relabelled
<1>3. \A q \in D \cup {right} : a2[q] \in Int /\ b2[q] \in Int /\ a2[q] < b2[q]
  BY <1>2, LabelTypes
<1>4. ASSUME NEW h \in {p, right}, NEW q \in D, q # p, Inside(a2, b2, q, h)
      PROVE  K2[q] \subseteq K2[h]
  <2>1. PICK i \in Slots(ms, h) : q = Kid(ms, h, i) \/ Inside(a2, b2, q, Kid(ms, h, i))
    BY <1>4 DEF Halved, PagePlaced, KidsReach
  <2> DEFINE c == Kid(ms, h, i)
  <2>2. c \in D \cup {right} /\ Inside(a2, b2, c, h) /\ K2[c] = Allowed(ms, K2, h, i)
    BY DEF Halved, PagePlaced, KidsPlaced
  <2>3. K2[c] \subseteq K2[h]
    BY <2>2 DEF Allowed
  <2>4. c # p /\ c # right
    BY <1>2, <1>3, <2>2 DEF Inside, Relabelled
  <2>5. c \in D /\ K2[c] = K[c] /\ K2[q] = K[q] /\ a2[c] = a[c] /\ b2[c] = b[c]
        /\ a2[q] = a[q] /\ b2[q] = b[q]
    BY <1>4, <2>2, <2>4 DEF Relabelled
  <2>6. Inside(a2, b2, q, c) => K[q] \subseteq K[c]
    BY <2>5 DEF Narrowing, Inside
  <2> QED
    BY <2>1, <2>3, <2>5, <2>6
<1>5. ASSUME NEW x \in D \cup {right}, NEW y \in D \cup {right}, Inside(a2, b2, y, x)
      PROVE  K2[y] \subseteq K2[x]
  <2>1. CASE x \in {p, right} /\ y \in {p, right}
    BY <1>3, <1>5, <2>1 DEF Inside, Relabelled
  <2>2. CASE x \in {p, right} /\ y \notin {p, right}
    BY <1>4, <1>5, <2>2
  <2>3. CASE x \notin {p, right} /\ y \in {p, right}
    <3>1. x \in D /\ x # p
      BY <2>3
    <3>2. Inside(a, b, p, x)
      <4> USE SplitPlaces, <3>1, <1>5, <2>3, <1>1, <1>2, <1>3
      <4>1. /\ a[x] \in Int /\ b[x] \in Int /\ a2[p] \in Int /\ b2[p] \in Int /\ a2[right] \in Int
            /\ b2[right] \in Int /\ a2[x] \in Int /\ b2[x] \in Int
            /\ a2[p] < b2[p] /\ a2[right] < b2[right] /\ a2[x] < b2[x]
        OBVIOUS
      <4>2. y = p \/ y = right
        OBVIOUS
      <4> QED
        BY <4>1, <4>2 DEF Inside
    <3>3. K[p] \subseteq K[x] /\ K2[x] = K[x] /\ K2[y] \subseteq K[p]
      BY <1>2, <2>3, <3>1, <3>2 DEF Narrowing, Relabelled
    <3> QED
      BY <3>3
  <2>4. CASE x \notin {p, right} /\ y \notin {p, right}
    <3>1. x \in D /\ y \in D /\ a2[x] = a[x] /\ b2[x] = b[x] /\ a2[y] = a[y] /\ b2[y] = b[y]
          /\ K2[x] = K[x] /\ K2[y] = K[y]
      BY <2>4 DEF Relabelled
    <3>2. Inside(a, b, y, x)
      BY <1>5, <3>1 DEF Inside
    <3> QED
      BY <3>1, <3>2 DEF Narrowing
  <2> QED
    BY <2>1, <2>2, <2>3, <2>4
<1> QED
  BY <1>5 DEF Narrowing

LEMMA SplitOrdered ==
    ASSUME NEW D, NEW a, NEW b, NEW K, Labelled(D, a, b, K), Nested(D, a, b),
           Ordered(D, a, b, K), NEW right, NEW p, NEW m1, NEW m2, NEW s, NEW a2, NEW b2, NEW K2,
           Relabelled(D, right, p, m1, m2, s, a, b, K, a2, b2, K2),
           Narrowing(D \cup {right}, a2, b2, K2)
    PROVE  Ordered(D \cup {right}, a2, b2, K2)
<1> DEFINE Ascend(S, T) == \A x \in S, y \in T : x <= y
<1>1. Labelled(D \cup {right}, a2, b2, K2) /\ p \in D /\ right \notin D
  BY SplitLabelled DEF Relabelled
<1>2. \A q \in D \cup {right} : /\ a2[q] \in Int /\ b2[q] \in Int /\ a2[q] < b2[q]
                                /\ K2[q] \subseteq Int
  BY <1>1, LabelTypes
<1>3. /\ s \in Int /\ K2[p] \subseteq K[p] /\ K2[right] \subseteq K[p]
      /\ \A x \in K2[p] : x <= s /\ \A y \in K2[right] : s <= y
  BY <1>1, LabelTypes DEF Relabelled
<1>4. ASSUME NEW q \in D, q # p
      PROVE  /\ b2[q] < a2[p] => Ascend(K2[q], K2[p])
             /\ b2[p] < a2[q] => Ascend(K2[p], K2[q])
             /\ b2[q] < a2[right] => Ascend(K2[q], K2[right])
             /\ b2[right] < a2[q] => Ascend(K2[right], K2[q])
  <2>1. K2[q] = K[q] /\ K2[q] \subseteq Int /\ K[p] \subseteq Int
    BY <1>1, <1>2, <1>4, LabelTypes DEF Relabelled
  <2>2. b[q] < a[p] => Ascend(K[q], K[p])
    BY <1>1 DEF Ordered
  <2>3. b[p] < a[q] => Ascend(K[p], K[q])
    BY <1>1 DEF Ordered
  <2>4. Inside(a2, b2, q, p) => K2[q] \subseteq K2[p]
    BY <1>1 DEF Narrowing
  <2>5. Inside(a2, b2, q, right) => K2[q] \subseteq K2[right]
    BY <1>1 DEF Narrowing
  <2>6. /\ a2[q] \in Int /\ b2[q] \in Int /\ a2[q] < b2[q] /\ a2[p] \in Int /\ b2[p] \in Int
        /\ a2[p] < b2[p] /\ a2[right] \in Int /\ b2[right] \in Int /\ a2[right] < b2[right]
        /\ b2[p] < a2[right]
    BY <1>1, <1>2 DEF Relabelled
  <2>7. Ascend(K[q], K[p]) => Ascend(K2[q], K2[p]) /\ Ascend(K2[q], K2[right])
    BY <1>3, <2>1
  <2>8. Ascend(K[p], K[q]) => Ascend(K2[p], K2[q]) /\ Ascend(K2[right], K2[q])
    BY <1>3, <2>1
  <2>9. K2[q] \subseteq K2[p] => Ascend(K2[q], K2[right])
    BY <1>2, <1>3, <2>1
  <2>10. K2[q] \subseteq K2[right] => Ascend(K2[p], K2[q])
    BY <1>1, <1>2, <1>3, <2>1
  <2> HIDE DEF Ascend
  <2>11. CASE b[q] < a[p] /\ b2[q] < a2[p] /\ b2[q] < a2[right]
    BY <2>2, <2>6, <2>7, <2>11
  <2>12. CASE b[p] < a[q] /\ b2[p] < a2[q] /\ b2[right] < a2[q]
    BY <2>3, <2>6, <2>8, <2>12
  <2>13. CASE Inside(a2, b2, p, q) /\ Inside(a2, b2, right, q)
    BY <2>6, <2>13 DEF Inside
  <2>14. CASE Inside(a2, b2, q, p) /\ b2[q] < a2[right]
    <3>1. Ascend(K2[q], K2[right])
      BY <2>4, <2>9, <2>14
    <3> QED
      BY <2>6, <2>14, <3>1 DEF Inside
  <2>15. CASE Inside(a2, b2, q, right) /\ b2[p] < a2[q]
    <3>1. Ascend(K2[p], K2[q])
      BY <2>5, <2>10, <2>15
    <3> QED
      BY <2>6, <2>15, <3>1 DEF Inside
  <2> QED
    BY <1>4, SplitPlaces, <2>11, <2>12, <2>13, <2>14, <2>15
<1>5. Ascend(K2[p], K2[right]) /\ ~(b2[right] < a2[p])
  <2>1. Ascend(K2[p], K2[right])
    BY <1>1, <1>2, <1>3
  <2>2. /\ a2[p] \in Int /\ b2[p] \in Int /\ a2[p] < b2[p] /\ a2[right] \in Int
        /\ b2[right] \in Int /\ a2[right] < b2[right] /\ b2[p] < a2[right]
    BY <1>1, <1>2 DEF Relabelled
  <2> QED
    BY <2>1, <2>2
<1>6. ASSUME NEW x \in D, NEW y \in D, x # p, y # p, b2[x] < a2[y]
      PROVE  Ascend(K2[x], K2[y])
  <2>1. b[x] < a[y] /\ K2[x] = K[x] /\ K2[y] = K[y]
    BY <1>6 DEF Relabelled
  <2> QED
    BY <2>1 DEF Ordered
<1>7. ASSUME NEW x \in D \cup {right}, b2[x] < a2[x]
      PROVE  FALSE
  BY <1>2, <1>7
<1> HIDE DEF Ascend
<1>8. ASSUME NEW x \in D \cup {right}, NEW y \in D \cup {right}, b2[x] < a2[y]
      PROVE  Ascend(K2[x], K2[y])
  BY <1>4, <1>5, <1>6, <1>7, <1>8
<1> QED
  BY <1>8 DEF Ordered, Ascend

\* The parent z has the right half in the place behind p, and the separator s
\* between the two.
Promoted(ns, ms, z, j, s, right) ==
    /\ ~ms[z].leaf /\ Width(ms, z) = Width(ns, z) + 1
    /\ \A i \in 1..Width(ns, z) + 2 :
          Kid(ms, z, i) = IF i <= j THEN Kid(ns, z, i)
                          ELSE IF i = j + 1 THEN right ELSE Kid(ns, z, i - 1)
    /\ \A i \in 1..Width(ns, z) + 1 :
          Key(ms, z, i) = IF i < j THEN Key(ns, z, i)
                          ELSE IF i = j THEN s ELSE Key(ns, z, i - 1)

\* Nothing that the shape depends on changed at a page.
SamePage(ns, ms, q) ==
    /\ ms[q].leaf = ns[q].leaf /\ Width(ms, q) = Width(ns, q)
    /\ \A i \in Slots(ns, q) : Kid(ms, q, i) = Kid(ns, q, i)
    /\ \A i \in 1..Width(ns, q) : Key(ms, q, i) = Key(ns, q, i)

LEMMA SameSlots ==
    ASSUME NEW ns, NEW ms, NEW q, SamePage(ns, ms, q), NEW K, Width(ns, q) \in Nat
    PROVE  /\ Slots(ms, q) = Slots(ns, q)
           /\ \A i \in Slots(ns, q) : Allowed(ms, K, q, i) = Allowed(ns, K, q, i)
<1>1. Slots(ms, q) = Slots(ns, q)
  BY DEF SamePage, Slots
<1>2. ASSUME NEW i \in Slots(ns, q)
      PROVE  Allowed(ms, K, q, i) = Allowed(ns, K, q, i)
  <2>1. i \in 1..Width(ns, q) + 1
    BY DEF Slots
  <2>2. /\ i > 1 => Key(ms, q, i - 1) = Key(ns, q, i - 1)
        /\ i <= Width(ns, q) => Key(ms, q, i) = Key(ns, q, i)
        /\ Width(ms, q) = Width(ns, q)
    BY <2>1 DEF SamePage
  <2> QED
    BY <2>2 DEF Allowed
<1> QED
  BY <1>1, <1>2

\* All pages but p and its parent z are left alone.
Kept(ns, ms, p, z) == \A q \in DOMAIN ns : q # p /\ q # z => SamePage(ns, ms, q)

OthersPlaced(ns, ms, a2, b2, K2, p, z) ==
    \A q \in DOMAIN ns : q # p /\ q # z => PagePlaced(ms, a2, b2, K2, q)

\* The pages whose children are not split.
LEMMA OtherPlaced ==
    ASSUME NEW ns, NEW r, NEW a, NEW b, NEW K, TreeShape(ns, r, a, b, K),
           NEW right, NEW p, NEW m1, NEW m2, NEW s, NEW a2, NEW b2, NEW K2,
           Relabelled(DOMAIN ns, right, p, m1, m2, s, a, b, K, a2, b2, K2),
           NEW z \in DOMAIN ns, NEW j \in Slots(ns, z), Kid(ns, z, j) = p,
           NEW ms, DOMAIN ms = DOMAIN ns \cup {right},
           Kept(ns, ms, p, z)
    PROVE  OthersPlaced(ns, ms, a2, b2, K2, p, z)
<1> DEFINE D == DOMAIN ns
<1> SUFFICES ASSUME NEW q \in DOMAIN ns, q # p, q # z, SamePage(ns, ms, q)
             PROVE  PagePlaced(ms, a2, b2, K2, q)
  BY DEF Kept, OthersPlaced
<1>1. /\ Labelled(D, a, b, K) /\ Nested(D, a, b) /\ PagePlaced(ns, a, b, K, q)
  BY DEF TreeShape
<1>2. p \in D /\ right \notin D /\ a2[q] = a[q] /\ b2[q] = b[q] /\ K2[q] = K[q]
  BY DEF Relabelled
<1>3. /\ Slots(ms, q) = Slots(ns, q)
      /\ \A i \in Slots(ns, q) : Allowed(ms, K2, q, i) = Allowed(ns, K2, q, i)
  BY <1>1, SameSlots DEF PagePlaced, KeysPlaced
<1>4. ASSUME NEW i \in Slots(ns, q)
      PROVE  /\ Kid(ms, q, i) = Kid(ns, q, i) /\ Kid(ns, q, i) \in D /\ Kid(ns, q, i) # p
             /\ a2[Kid(ns, q, i)] = a[Kid(ns, q, i)] /\ b2[Kid(ns, q, i)] = b[Kid(ns, q, i)]
             /\ K2[Kid(ns, q, i)] = K[Kid(ns, q, i)]
  <2>1. Kid(ms, q, i) = Kid(ns, q, i) /\ Kid(ns, q, i) \in D
    BY <1>1 DEF SamePage, PagePlaced, KidsPlaced
  <2>2. Kid(ns, q, i) # p
    BY OneParent
  <2> QED
    BY <2>1, <2>2 DEF Relabelled
<1>5. KidsPlaced(ms, a2, b2, K2, q)
  <2> SUFFICES ASSUME NEW i \in Slots(ms, q)
               PROVE  /\ Kid(ms, q, i) \in DOMAIN ms
                      /\ Inside(a2, b2, Kid(ms, q, i), q)
                      /\ K2[Kid(ms, q, i)] = Allowed(ms, K2, q, i)
    BY DEF KidsPlaced
  <2>1. i \in Slots(ns, q)
    BY <1>3
  <2>2. Inside(a, b, Kid(ns, q, i), q) /\ K[Kid(ns, q, i)] = Allowed(ns, K, q, i)
    BY <1>1, <2>1 DEF PagePlaced, KidsPlaced
  <2>3. Allowed(ns, K, q, i) = Allowed(ns, K2, q, i)
    BY <1>2 DEF Allowed
  <2> QED
    BY <1>2, <1>3, <1>4, <2>1, <2>2, <2>3 DEF Inside
<1>6. KidsApart(ms, a2, b2, q)
  <2> SUFFICES ASSUME NEW i \in Slots(ms, q), NEW k \in Slots(ms, q), i < k
               PROVE  b2[Kid(ms, q, i)] < a2[Kid(ms, q, k)]
    BY DEF KidsApart
  <2>1. i \in Slots(ns, q) /\ k \in Slots(ns, q)
    BY <1>3
  <2>2. b[Kid(ns, q, i)] < a[Kid(ns, q, k)]
    BY <1>1, <2>1 DEF PagePlaced, KidsApart
  <2> QED
    BY <1>4, <2>1, <2>2
<1>7. KeysPlaced(ms, K2, q)
  BY <1>1, <1>2 DEF PagePlaced, KeysPlaced, SamePage
<1>8. KidsReach(ms, a2, b2, q)
  <2> SUFFICES ASSUME NEW x \in D \cup {right}, Inside(a2, b2, x, q)
               PROVE  \E i \in Slots(ns, q) : \/ x = Kid(ns, q, i)
                                              \/ Inside(a2, b2, x, Kid(ns, q, i))
    BY <1>3, <1>4 DEF KidsReach
  <2>1. CASE x \in D /\ x # p
    <3>1. Inside(a, b, x, q) /\ a2[x] = a[x] /\ b2[x] = b[x]
      BY <1>2, <2>1 DEF Relabelled, Inside
    <3>2. PICK i \in Slots(ns, q) : x = Kid(ns, q, i) \/ Inside(a, b, x, Kid(ns, q, i))
      BY <1>1, <2>1, <3>1 DEF PagePlaced, KidsReach
    <3> QED
      BY <1>4, <3>1, <3>2 DEF Inside
  <2>2. CASE x = p \/ x = right
    <3>1. Labelled(D \cup {right}, a2, b2, K2)
      BY <1>1, SplitLabelled
    <3>2. /\ a2[p] \in Int /\ b2[p] \in Int /\ a2[right] \in Int /\ b2[right] \in Int
          /\ a2[q] \in Int /\ b2[q] \in Int /\ a2[p] < b2[p] /\ a2[right] < b2[right]
          /\ a2[q] < b2[q]
      BY <1>2, <3>1, LabelTypes
    <3>3. Inside(a, b, p, q)
      BY <1>1, <2>2, <3>2, SplitPlaces DEF Inside
    <3>4. PICK i \in Slots(ns, q) : p = Kid(ns, q, i) \/ Inside(a, b, p, Kid(ns, q, i))
      BY <1>1, <1>2, <3>3 DEF PagePlaced, KidsReach
    <3>5. Kid(ns, q, i) \in D /\ Kid(ns, q, i) # p /\ Inside(a, b, p, Kid(ns, q, i))
      BY <1>4, <3>4
    <3>6. /\ a[Kid(ns, q, i)] \in Int /\ b[Kid(ns, q, i)] \in Int /\ a[p] \in Int /\ b[p] \in Int
      BY <1>1, <1>2, <3>5, LabelTypes
    <3>7. Inside(a2, b2, p, Kid(ns, q, i)) /\ Inside(a2, b2, right, Kid(ns, q, i))
      BY <1>4, <3>5, <3>6 DEF Inside, Relabelled
    <3> QED
      BY <2>2, <3>7
  <2> QED
    BY <2>1, <2>2
<1> QED
  BY <1>5, <1>6, <1>7, <1>8 DEF PagePlaced

\* The parent of the page that is split.
LEMMA ParentPlaced ==
    ASSUME NEW ns, NEW r, NEW a, NEW b, NEW K, TreeShape(ns, r, a, b, K),
           NEW right, NEW p, NEW m1, NEW m2, NEW s, NEW a2, NEW b2, NEW K2,
           Relabelled(DOMAIN ns, right, p, m1, m2, s, a, b, K, a2, b2, K2),
           NEW z \in DOMAIN ns, NEW j \in Slots(ns, z), Kid(ns, z, j) = p,
           NEW ms, DOMAIN ms = DOMAIN ns \cup {right}, Promoted(ns, ms, z, j, s, right)
    PROVE  PagePlaced(ms, a2, b2, K2, z)
<1> DEFINE D == DOMAIN ns
           W == Width(ns, z)
<1>1. /\ Labelled(D, a, b, K) /\ Nested(D, a, b) /\ PagePlaced(ns, a, b, K, z)
  BY DEF TreeShape
<1>2. W \in Nat /\ Slots(ns, z) = 1..W + 1 /\ j \in 1..W + 1
  BY <1>1 DEF PagePlaced, KeysPlaced, Slots
<1>3. Slots(ms, z) = 1..W + 2 /\ Width(ms, z) = W + 1
  BY <1>2 DEF Promoted, Slots
<1>4. ASSUME NEW i \in 1..W + 1
      PROVE  Kid(ns, z, i) \in D /\ Inside(a, b, Kid(ns, z, i), z)
             /\ K[Kid(ns, z, i)] = Allowed(ns, K, z, i)
  BY <1>1, <1>2 DEF PagePlaced, KidsPlaced
<1>5. p \in D /\ p # z /\ right \notin D /\ Inside(a, b, p, z)
  <2>1. p \in D /\ right \notin D /\ Inside(a, b, p, z)
    BY <1>2, <1>4 DEF Relabelled
  <2> QED
    BY <1>1, <2>1, LabelTypes DEF Inside
<1>6. a2[z] = a[z] /\ b2[z] = b[z] /\ K2[z] = K[z]
  BY <1>5 DEF Relabelled
<1>7. ASSUME NEW i \in 1..W + 1, i # j
      PROVE  /\ Kid(ns, z, i) # p
             /\ a2[Kid(ns, z, i)] = a[Kid(ns, z, i)] /\ b2[Kid(ns, z, i)] = b[Kid(ns, z, i)]
             /\ K2[Kid(ns, z, i)] = K[Kid(ns, z, i)]
  <2>1. Kid(ns, z, i) # p
    BY <1>2, <1>7, OneParent
  <2> QED
    BY <1>4, <2>1 DEF Relabelled
\* The places of the parent, old and new.
<1>8. ASSUME NEW i \in 1..W + 2
      PROVE  \/ i = j /\ Kid(ms, z, i) = p
             \/ i = j + 1 /\ Kid(ms, z, i) = right
             \/ i < j /\ i \in 1..W + 1 /\ Kid(ms, z, i) = Kid(ns, z, i)
             \/ i > j + 1 /\ i - 1 \in 1..W + 1 /\ i - 1 > j /\ Kid(ms, z, i) = Kid(ns, z, i - 1)
  BY <1>2 DEF Promoted
<1>9. Labelled(D \cup {right}, a2, b2, K2)
  BY <1>1, SplitLabelled
<1>10. /\ a[p] \in Int /\ b[p] \in Int /\ a[z] \in Int /\ b[z] \in Int /\ a2[p] = a[p]
       /\ a2[right] \in Int /\ b2[p] \in Int /\ b2[right] = b[p] /\ a[p] < b2[p]
       /\ b2[p] < a2[right] /\ a2[right] < b[p] /\ s \in K[p] /\ s \in Int /\ K[z] \subseteq Int
  BY <1>1, <1>5, LabelTypes DEF Relabelled
<1>11. ASSUME NEW i \in 1..W + 2
       PROVE  Kid(ms, z, i) \in DOMAIN ms /\ Inside(a2, b2, Kid(ms, z, i), z)
  <2>1. CASE Kid(ms, z, i) = p
    BY <1>5, <1>6, <1>10, <2>1 DEF Inside
  <2>2. CASE Kid(ms, z, i) = right
    BY <1>5, <1>6, <1>10, <2>2 DEF Inside
  <2>3. ASSUME NEW k \in 1..W + 1, k # j, Kid(ms, z, i) = Kid(ns, z, k)
        PROVE  Kid(ms, z, i) \in DOMAIN ms /\ Inside(a2, b2, Kid(ms, z, i), z)
    BY <1>4, <1>6, <1>7, <2>3 DEF Inside
  <2> QED
    BY <1>2, <1>8, <2>1, <2>2, <2>3
<1>12. ASSUME NEW i \in 1..W
       PROVE  Key(ns, z, i) \in K[z] /\ Key(ns, z, i) \in Int
  BY <1>1, <1>10 DEF PagePlaced, KeysPlaced
<1>13. /\ s \in K[z]
       /\ j > 1 => Key(ns, z, j - 1) <= s
       /\ j <= W => s <= Key(ns, z, j)
  BY <1>2, <1>4, <1>10 DEF Allowed
<1>14. ASSUME NEW i \in 1..W, NEW k \in 1..W, i < k
       PROVE  Key(ns, z, i) <= Key(ns, z, k)
  BY <1>1, <1>14 DEF PagePlaced, KeysPlaced
<1>15. ASSUME NEW i \in 1..W + 1
       PROVE  \/ i = j /\ Key(ms, z, i) = s
              \/ i < j /\ i \in 1..W /\ Key(ms, z, i) = Key(ns, z, i)
              \/ i > j /\ i - 1 \in 1..W /\ Key(ms, z, i) = Key(ns, z, i - 1)
  BY <1>2 DEF Promoted
<1>16. KidsApart(ms, a2, b2, z)
  <2> SUFFICES ASSUME NEW i \in 1..W + 2, NEW k \in 1..W + 2, i < k
               PROVE  b2[Kid(ms, z, i)] < a2[Kid(ms, z, k)]
    BY <1>3 DEF KidsApart
  <2>1. ASSUME NEW x \in 1..W + 1, NEW y \in 1..W + 1, x < y
        PROVE  /\ b[Kid(ns, z, x)] < a[Kid(ns, z, y)]
               /\ b[Kid(ns, z, x)] \in Int /\ a[Kid(ns, z, y)] \in Int
    <3>1. b[Kid(ns, z, x)] < a[Kid(ns, z, y)]
      BY <1>1, <1>2, <2>1 DEF PagePlaced, KidsApart
    <3> QED
      BY <1>1, <1>4, <3>1, LabelTypes
  <2>2. CASE i = j /\ Kid(ms, z, i) = p
    <3>1. CASE k = j + 1
      BY <1>2, <1>8, <1>10, <2>2, <3>1
    <3>2. CASE k # j + 1
      <4>1. k - 1 \in 1..W + 1 /\ j < k - 1 /\ Kid(ms, z, k) = Kid(ns, z, k - 1)
        BY <1>2, <1>8, <2>2, <3>2
      <4>2. b[p] < a[Kid(ns, z, k - 1)] /\ a2[Kid(ns, z, k - 1)] = a[Kid(ns, z, k - 1)]
            /\ a[Kid(ns, z, k - 1)] \in Int
        BY <1>2, <1>7, <2>1, <4>1
      <4> QED
        BY <1>10, <2>2, <4>1, <4>2
    <3> QED
      BY <3>1, <3>2
  <2>3. CASE i = j + 1 /\ Kid(ms, z, i) = right
    <3>1. k - 1 \in 1..W + 1 /\ j < k - 1 /\ Kid(ms, z, k) = Kid(ns, z, k - 1)
      BY <1>2, <1>8, <2>3
    <3>2. b[p] < a[Kid(ns, z, k - 1)] /\ a2[Kid(ns, z, k - 1)] = a[Kid(ns, z, k - 1)]
      BY <1>2, <1>7, <2>1, <3>1
    <3> QED
      BY <1>10, <2>3, <3>1, <3>2
  <2>4. CASE i < j /\ i \in 1..W + 1 /\ Kid(ms, z, i) = Kid(ns, z, i)
    <3>1. b2[Kid(ns, z, i)] = b[Kid(ns, z, i)]
      BY <1>7, <2>4
    <3>2. CASE k = j \/ k = j + 1
      <4>1. b[Kid(ns, z, i)] < a[p] /\ b[Kid(ns, z, i)] \in Int
        BY <1>2, <2>1, <2>4
      <4>2. Kid(ms, z, k) = p \/ Kid(ms, z, k) = right
        BY <1>2, <1>8, <3>2
      <4>3. a2[p] = a[p] /\ a[p] < a2[right]
        BY <1>10
      <4> QED
        BY <1>10, <2>4, <3>1, <4>1, <4>2, <4>3
    <3>3. CASE k < j
      <4>1. k \in 1..W + 1 /\ Kid(ms, z, k) = Kid(ns, z, k)
        BY <1>2, <1>8, <3>3
      <4>2. a2[Kid(ns, z, k)] = a[Kid(ns, z, k)]
        BY <1>7, <3>3, <4>1
      <4> QED
        BY <2>1, <2>4, <3>1, <4>1, <4>2
    <3>4. CASE k > j + 1
      <4>1. k - 1 \in 1..W + 1 /\ i < k - 1 /\ k - 1 # j /\ Kid(ms, z, k) = Kid(ns, z, k - 1)
        BY <1>2, <1>8, <2>4, <3>4
      <4>2. a2[Kid(ns, z, k - 1)] = a[Kid(ns, z, k - 1)]
        BY <1>7, <4>1
      <4> QED
        BY <2>1, <2>4, <3>1, <4>1, <4>2
    <3> QED
      BY <1>2, <3>2, <3>3, <3>4
  <2>5. CASE i > j + 1 /\ i - 1 \in 1..W + 1 /\ i - 1 > j /\ Kid(ms, z, i) = Kid(ns, z, i - 1)
    <3>1. k - 1 \in 1..W + 1 /\ i - 1 < k - 1 /\ k - 1 # j /\ i - 1 # j
          /\ Kid(ms, z, k) = Kid(ns, z, k - 1)
      BY <1>2, <1>8, <2>5
    <3>2. a2[Kid(ns, z, k - 1)] = a[Kid(ns, z, k - 1)] /\ b2[Kid(ns, z, i - 1)] = b[Kid(ns, z, i - 1)]
      BY <1>7, <2>5, <3>1
    <3> QED
      BY <2>1, <2>5, <3>1, <3>2
  <2> QED
    BY <1>8, <2>2, <2>3, <2>4, <2>5
<1>17. KeysPlaced(ms, K2, z)
  <2>1. ASSUME NEW i \in 1..W + 1
        PROVE  Key(ms, z, i) \in K[z]
    BY <1>12, <1>13, <1>15
  <2>2. ASSUME NEW i \in 1..W
        PROVE  /\ i < j => Key(ns, z, i) <= s
               /\ i >= j => s <= Key(ns, z, i)
    <3>1. CASE i = j - 1 \/ i = j
      BY <1>2, <1>13, <3>1
    <3>2. CASE i < j - 1
      <4>1. j - 1 \in 1..W /\ j > 1 /\ Key(ns, z, i) <= Key(ns, z, j - 1)
        BY <1>2, <1>14, <3>2
      <4> QED
        BY <1>2, <1>10, <1>12, <1>13, <3>2, <4>1
    <3>3. CASE i > j
      <4>1. j \in 1..W /\ Key(ns, z, j) <= Key(ns, z, i)
        BY <1>2, <1>14, <3>3
      <4> QED
        BY <1>2, <1>10, <1>12, <1>13, <3>3, <4>1
    <3> QED
      BY <1>2, <3>1, <3>2, <3>3
  <2>3. ASSUME NEW i \in 1..W + 1, NEW k \in 1..W + 1, i < k
        PROVE  Key(ms, z, i) <= Key(ms, z, k)
    <3>1. CASE i = j /\ Key(ms, z, i) = s
      BY <1>2, <1>15, <2>2, <2>3, <3>1
    <3>2. CASE i < j /\ i \in 1..W /\ Key(ms, z, i) = Key(ns, z, i)
      BY <1>2, <1>14, <1>15, <2>2, <2>3, <3>2
    <3>3. CASE i > j /\ i - 1 \in 1..W /\ Key(ms, z, i) = Key(ns, z, i - 1)
      BY <1>2, <1>14, <1>15, <2>3, <3>3
    <3> QED
      BY <1>15, <3>1, <3>2, <3>3
  <2> QED
    BY <1>2, <1>3, <1>6, <2>1, <2>3 DEF KeysPlaced
<1>18. ASSUME NEW i \in 1..W + 2
       PROVE  K2[Kid(ms, z, i)] = Allowed(ms, K2, z, i)
  <2>1. Allowed(ms, K2, z, i) = {k \in K[z] : /\ i > 1 => Key(ms, z, i - 1) <= k
                                              /\ i <= W + 1 => k <= Key(ms, z, i)}
    BY <1>3, <1>6 DEF Allowed
  <2>2. ASSUME NEW h \in 1..W + 1
        PROVE  \A k : k \in K[Kid(ns, z, h)] <=> /\ k \in K[z]
                                                 /\ h > 1 => Key(ns, z, h - 1) <= k
                                                 /\ h <= W => k <= Key(ns, z, h)
    BY <1>4 DEF Allowed
  <2>3. CASE i = j /\ Kid(ms, z, i) = p
    <3>1. i <= W + 1 /\ Key(ms, z, i) = s
      BY <1>2, <1>15, <2>3
    <3>2. i > 1 => Key(ms, z, i - 1) = Key(ns, z, i - 1)
      BY <1>2, <1>15, <2>3
    <3>3. ASSUME NEW k \in K[z], k <= s, i <= W
          PROVE  k <= Key(ns, z, i)
      <4>1. s <= Key(ns, z, i) /\ Key(ns, z, i) \in Int /\ k \in Int /\ s \in Int
        BY <1>2, <1>10, <1>12, <1>13, <2>3, <3>3
      <4> QED
        BY <3>3, <4>1
    <3>4. \A k : k \in K2[p] <=> k \in K[p] /\ k <= s
      BY DEF Relabelled
    <3>5. \A k : k \in K[p] <=> /\ k \in K[z]
                                /\ i > 1 => Key(ns, z, i - 1) <= k
                                /\ i <= W => k <= Key(ns, z, i)
      BY <1>2, <2>2, <2>3
    <3> QED
      BY <2>1, <2>3, <3>1, <3>2, <3>3, <3>4, <3>5
  <2>4. CASE i = j + 1 /\ Kid(ms, z, i) = right
    <3>1. i > 1 /\ Key(ms, z, i - 1) = s
      BY <1>2, <1>15, <2>4
    <3>2. i <= W + 1 => Key(ms, z, i) = Key(ns, z, j)
      BY <1>2, <1>15, <2>4
    <3>3. ASSUME NEW k \in K[z], s <= k, j > 1
          PROVE  Key(ns, z, j - 1) <= k
      <4>1. Key(ns, z, j - 1) <= s /\ Key(ns, z, j - 1) \in Int /\ k \in Int /\ s \in Int
        BY <1>2, <1>10, <1>12, <1>13, <3>3
      <4> QED
        BY <3>3, <4>1
    <3>4. \A k : k \in K2[right] <=> k \in K[p] /\ s <= k
      BY DEF Relabelled
    <3>5. \A k : k \in K[p] <=> /\ k \in K[z]
                                /\ j > 1 => Key(ns, z, j - 1) <= k
                                /\ j <= W => k <= Key(ns, z, j)
      BY <1>2, <2>2
    <3>6. i <= W + 1 <=> j <= W
      BY <1>2, <2>4
    <3> QED
      BY <2>1, <2>4, <3>1, <3>2, <3>3, <3>4, <3>5, <3>6
  <2>5. CASE i < j /\ i \in 1..W + 1 /\ Kid(ms, z, i) = Kid(ns, z, i)
    <3>1. /\ i <= W + 1 /\ i <= W /\ Key(ms, z, i) = Key(ns, z, i)
          /\ i > 1 => Key(ms, z, i - 1) = Key(ns, z, i - 1)
      BY <1>2, <1>15, <2>5
    <3>2. K2[Kid(ms, z, i)] = K[Kid(ns, z, i)]
      BY <1>7, <2>5
    <3> QED
      BY <2>1, <2>2, <2>5, <3>1, <3>2
  <2>6. CASE i > j + 1 /\ i - 1 \in 1..W + 1 /\ i - 1 > j /\ Kid(ms, z, i) = Kid(ns, z, i - 1)
    <3>1. PICK h \in 1..W + 1 : h = i - 1 /\ h > 1 /\ h # j
      BY <1>2, <2>6
    <3>2. Key(ms, z, h) = Key(ns, z, h - 1)
      BY <1>2, <1>15, <2>6, <3>1
    <3>3. i <= W + 1 => Key(ms, z, i) = Key(ns, z, h)
      BY <1>2, <1>15, <2>6, <3>1
    <3>4. K2[Kid(ms, z, i)] = K[Kid(ns, z, h)]
      BY <1>7, <2>6, <3>1
    <3>5. (i <= W + 1 <=> h <= W) /\ i > 1
      BY <1>2, <3>1
    <3> QED
      BY <2>1, <2>2, <3>1, <3>2, <3>3, <3>4, <3>5
  <2> QED
    BY <1>8, <2>3, <2>4, <2>5, <2>6
<1>19. KidsReach(ms, a2, b2, z)
  <2> SUFFICES ASSUME NEW x \in D \cup {right}, Inside(a2, b2, x, z)
               PROVE  \E i \in 1..W + 2 : x = Kid(ms, z, i) \/ Inside(a2, b2, x, Kid(ms, z, i))
    BY <1>3 DEF KidsReach
  <2>1. j \in 1..W + 2 /\ j + 1 \in 1..W + 2 /\ Kid(ms, z, j) = p /\ Kid(ms, z, j + 1) = right
    <3>1. j \in 1..W + 2 /\ j + 1 \in 1..W + 2 /\ j + 1 # j /\ ~(j + 1 <= j) /\ j <= j
      BY <1>2
    <3> QED
      BY <3>1 DEF Promoted
  <2>2. CASE x = p \/ x = right
    BY <2>1, <2>2
  <2>3. CASE x \in D /\ x # p
    <3>1. Inside(a, b, x, z) /\ a2[x] = a[x] /\ b2[x] = b[x]
      BY <1>6, <2>3 DEF Relabelled, Inside
    <3>2. PICK h \in 1..W + 1 : x = Kid(ns, z, h) \/ Inside(a, b, x, Kid(ns, z, h))
      BY <1>1, <1>2, <2>3, <3>1 DEF PagePlaced, KidsReach
    <3>3. CASE h = j
      <4>1. Inside(a, b, x, p)
        BY <2>3, <3>2, <3>3
      <4>2. a[x] \in Int /\ b[x] \in Int /\ a[x] < b[x]
        BY <1>1, <2>3, LabelTypes
      <4>3. Inside(a2, b2, x, p) \/ Inside(a2, b2, x, right)
        BY <1>1, <1>10, <2>3, <3>1, <4>1, <4>2, SplitPlaces DEF Inside
      <4> QED
        BY <2>1, <4>3
    <3>4. CASE h # j
      <4>1. \E i \in 1..W + 2 : Kid(ms, z, i) = Kid(ns, z, h)
        <5>1. CASE h < j
          <6>1. h \in 1..W + 2 /\ Kid(ms, z, h) = Kid(ns, z, h)
            BY <1>2, <1>8, <5>1
          <6> QED
            BY <6>1
        <5>2. CASE h > j
          <6>1. h + 1 \in 1..W + 2 /\ Kid(ms, z, h + 1) = Kid(ns, z, h)
            BY <1>2, <1>8, <5>2
          <6> QED
            BY <6>1
        <5> QED
          BY <1>2, <3>4, <5>1, <5>2
      <4>2. a2[Kid(ns, z, h)] = a[Kid(ns, z, h)] /\ b2[Kid(ns, z, h)] = b[Kid(ns, z, h)]
        BY <1>7, <3>4
      <4> QED
        BY <3>1, <3>2, <4>1, <4>2 DEF Inside
    <3> QED
      BY <3>3, <3>4
  <2> QED
    BY <2>2, <2>3
<1> QED
  BY <1>3, <1>11, <1>16, <1>17, <1>18, <1>19 DEF PagePlaced, KidsPlaced

\* The tree with a page split in two.
LEMMA TreeSplit ==
    ASSUME NEW ns, NEW r, NEW a, NEW b, NEW K, TreeShape(ns, r, a, b, K),
           NEW right, NEW p, NEW m1, NEW m2, NEW s, NEW a2, NEW b2, NEW K2,
           Relabelled(DOMAIN ns, right, p, m1, m2, s, a, b, K, a2, b2, K2),
           NEW z \in DOMAIN ns, NEW j \in Slots(ns, z), Kid(ns, z, j) = p,
           NEW ms, DOMAIN ms = DOMAIN ns \cup {right}, Promoted(ns, ms, z, j, s, right),
           Kept(ns, ms, p, z),
           Halved(ms, right, p, a2, b2, K2)
    PROVE  TreeShape(ms, r, a2, b2, K2)
<1> DEFINE D == DOMAIN ns
<1>1. /\ Labelled(D, a, b, K) /\ Rooted(D, r, a, b, K) /\ Nested(D, a, b)
      /\ Ordered(D, a, b, K) /\ Narrowing(D, a, b, K)
  BY DEF TreeShape
<1>2. p \in D /\ p # r /\ p # z /\ Inside(a, b, p, z)
  <2>1. p \in D /\ Inside(a, b, p, z)
    BY DEF TreeShape, PagePlaced, KidsPlaced
  <2>2. /\ a[p] \in Int /\ b[p] \in Int /\ a[z] \in Int /\ b[z] \in Int
        /\ z # r => Inside(a, b, z, r) /\ a[r] \in Int /\ b[r] \in Int
    BY <1>1, <2>1, LabelTypes DEF Rooted
  <2> QED
    BY <2>1, <2>2 DEF Inside
<1>3. Labelled(D \cup {right}, a2, b2, K2) /\ Rooted(D \cup {right}, r, a2, b2, K2)
      /\ Nested(D \cup {right}, a2, b2)
  BY <1>1, <1>2, SplitLabelled, SplitRooted, SplitNested
<1>4. Narrowing(D \cup {right}, a2, b2, K2)
  BY <1>1, SplitNarrowing
<1>5. Ordered(D \cup {right}, a2, b2, K2)
  BY <1>1, <1>4, SplitOrdered
<1>6. OthersPlaced(ns, ms, a2, b2, K2, p, z)
  BY OtherPlaced
<1>7. ASSUME NEW q \in D \cup {right}
      PROVE  PagePlaced(ms, a2, b2, K2, q)
  <2>1. CASE q = p \/ q = right
    BY <2>1 DEF Halved
  <2>2. CASE q = z
    BY <2>2, ParentPlaced
  <2>3. CASE q \in D /\ q # p /\ q # z
    BY <1>6, <2>3 DEF OthersPlaced
  <2> QED
    BY <2>1, <2>2, <2>3
<1> QED
  BY <1>3, <1>4, <1>5, <1>7 DEF TreeShape

-----------------------------------------------------------------------------
(* Parts of a listed sequence                                              *)

LEMMA SubFacts ==
    ASSUME NEW S, NEW s \in Seq(S), NEW i \in 1..Len(s) + 1, NEW j \in i - 1..Len(s)
    PROVE  /\ SubSeq(s, i, j) \in Seq(S) /\ Len(SubSeq(s, i, j)) = j - i + 1
           /\ \A k \in 1..j - i + 1 : SubSeq(s, i, j)[k] = s[i + k - 1]
<1>1. SubSeq(s, i, j) = [k \in 1..j - i + 1 |-> s[i + k - 1]]
  OBVIOUS
<1>2. j - i + 1 \in Nat /\ \A k \in 1..j - i + 1 : i + k - 1 \in 1..Len(s) /\ s[i + k - 1] \in S
  OBVIOUS
<1> QED
  BY <1>1, <1>2

Slice(s, i, j) == {s[k] : k \in i..j}

LEMMA ListsSub ==
    ASSUME NEW s, NEW S, NEW R, Lists(s, S, R), NEW i \in 1..Len(s) + 1, NEW j \in i - 1..Len(s)
    PROVE  Lists(SubSeq(s, i, j), Slice(s, i, j), R)
<1>1. /\ s \in Seq(S) /\ Len(s) \in Nat /\ DOMAIN s = 1..Len(s) /\ \A k \in 1..Len(s) : s[k] \in S
      /\ \A k, l \in 1..Len(s) : k < l => <<s[k], s[l]>> \in R
  BY ListsFields
<1> DEFINE n == j - i + 1
<1>2. PICK u : u = SubSeq(s, i, j)
  OBVIOUS
<1>3. u \in Seq(S) /\ Len(u) = n /\ \A k \in 1..n : u[k] = s[i + k - 1]
  BY <1>1, <1>2, SubFacts
<1>4. n \in Nat /\ i \in Int /\ j \in Int /\ Len(s) \in Nat
  BY <1>1
<1>5. \A k \in 1..n : i + k - 1 \in i..j /\ i + k - 1 \in 1..Len(s)
  BY <1>4
<1>6. \A k \in i..j : k - i + 1 \in 1..n /\ i + (k - i + 1) - 1 = k
  BY <1>4
<1>7. DOMAIN u = 1..n
  BY <1>3
<1> HIDE DEF n
<1>8. u \in Seq(Slice(s, i, j))
  <2>1. \A k \in 1..n : u[k] \in Slice(s, i, j)
    BY <1>3, <1>5 DEF Slice
  <2>2. u = [k \in 1..n |-> u[k]]
    BY <1>3, <1>7
  <2>3. u \in [1..n -> Slice(s, i, j)]
    BY <2>1, <2>2
  <2> QED
    BY <1>4, <2>3
<1>9. ASSUME NEW x \in Slice(s, i, j)
      PROVE  \E k \in DOMAIN u : u[k] = x
  <2>1. PICK k \in i..j : x = s[k]
    BY DEF Slice
  <2>2. k - i + 1 \in 1..n /\ u[k - i + 1] = x
    BY <1>3, <1>6, <2>1
  <2> QED
    BY <1>7, <2>2
<1>10. ASSUME NEW k \in DOMAIN u, NEW l \in DOMAIN u, k < l
       PROVE  <<u[k], u[l]>> \in R
  <2>1. k \in 1..n /\ l \in 1..n /\ u[k] = s[i + k - 1] /\ u[l] = s[i + l - 1]
    BY <1>3, <1>7
  <2>2. k \in Int /\ l \in Int /\ i + k - 1 \in 1..Len(s) /\ i + l - 1 \in 1..Len(s)
    BY <1>4, <1>5, <2>1
  <2>3. i + k - 1 < i + l - 1
    BY <1>4, <1>10, <2>2
  <2> QED
    BY <1>1, <2>1, <2>2, <2>3
<1> QED
  BY <1>2, <1>8, <1>9, <1>10 DEF Lists

LEMMA SlicesMeet ==
    ASSUME NEW S, NEW s \in Seq(S), NEW i \in 1..Len(s) + 1, NEW l \in 0..Len(s), i <= l + 1
    PROVE  /\ \A h \in i - 1..l : Slice(s, i, h) \cup Slice(s, h + 1, l) = Slice(s, i, l)
           /\ \A h \in i..l : Slice(s, i, h - 1) \cup {s[h]} \cup Slice(s, h + 1, l) = Slice(s, i, l)
<1>1. ASSUME NEW h \in i - 1..l
      PROVE  Slice(s, i, h) \cup Slice(s, h + 1, l) = Slice(s, i, l)
  <2>1. (i..h) \cup (h + 1..l) = i..l
    OBVIOUS
  <2> QED
    BY <2>1 DEF Slice
<1>2. ASSUME NEW h \in i..l
      PROVE  Slice(s, i, h - 1) \cup {s[h]} \cup Slice(s, h + 1, l) = Slice(s, i, l)
  <2>1. (i..h - 1) \cup {h} \cup (h + 1..l) = i..l
    OBVIOUS
  <2> QED
    BY <2>1 DEF Slice
<1> QED
  BY <1>1, <1>2

LEMMA ListsWhole ==
    ASSUME NEW s, NEW S, NEW R, Lists(s, S, R)
    PROVE  Slice(s, 1, Len(s)) = S /\ ToSet(s) = S
<1>1. /\ Len(s) \in Nat /\ DOMAIN s = 1..Len(s) /\ \A i \in 1..Len(s) : s[i] \in S
      /\ \A x \in S : \E i \in 1..Len(s) : s[i] = x
  BY ListsFields
<1> QED
  BY <1>1 DEF Slice, ToSet

\* An element comes in between.
LEMMA ListsInsert ==
    ASSUME NEW s, NEW S, NEW R, Lists(s, S, R), NEW e, NEW i \in 1..Len(s) + 1,
           \A k \in 1..i - 1 : <<s[k], e>> \in R, \A k \in i..Len(s) : <<e, s[k]>> \in R
    PROVE  Lists(InsertAt(s, i, e), S \cup {e}, R)
<1>1. /\ s \in Seq(S) /\ Len(s) \in Nat
      /\ \A k, l \in 1..Len(s) : k < l => <<s[k], s[l]>> \in R
  BY ListsFields
<1> DEFINE P == Slice(s, 1, i - 1)
           Q == Slice(s, i, Len(s))
<1>2. Lists(SubSeq(s, 1, i - 1), P, R)
  BY <1>1, ListsSub
<1>3. Lists(SubSeq(s, i, Len(s)), Q, R)
  BY <1>1, ListsSub
<1>4. P \cup Q = S
  <2>1. i - 1 \in 1 - 1..Len(s) /\ (i - 1) + 1 = i /\ Len(s) \in 0..Len(s) /\ 1 \in 1..Len(s) + 1
        /\ 1 <= Len(s) + 1
    BY <1>1
  <2>2. P \cup Slice(s, (i - 1) + 1, Len(s)) = Slice(s, 1, Len(s))
    BY <1>1, <2>1, SlicesMeet
  <2> QED
    BY <2>1, <2>2, ListsWhole
<1>5. Before(P, {e}, R)
  BY DEF Before, Slice
<1>6. Before(P \cup {e}, Q, R)
  <2>1. ASSUME NEW x \in P, NEW y \in Q
        PROVE  <<x, y>> \in R
    <3>1. PICK k \in 1..i - 1 : x = s[k]
      BY DEF Slice
    <3>2. PICK l \in i..Len(s) : y = s[l]
      BY DEF Slice
    <3>3. k \in 1..Len(s) /\ l \in 1..Len(s) /\ k < l
      BY <1>1
    <3> QED
      BY <1>1, <3>1, <3>2, <3>3
  <2>2. ASSUME NEW y \in Q
        PROVE  <<e, y>> \in R
    BY DEF Slice
  <2> QED
    BY <2>1, <2>2 DEF Before
<1>7. Lists(<<e>>, {e}, R)
  BY ListsOne
<1> HIDE DEF P, Q
<1>8. Lists(SubSeq(s, 1, i - 1) \o <<e>>, P \cup {e}, R)
  BY <1>2, <1>5, <1>7, ListsJoined
<1>9. Lists((SubSeq(s, 1, i - 1) \o <<e>>) \o SubSeq(s, i, Len(s)), (P \cup {e}) \cup Q, R)
  BY <1>3, <1>6, <1>8, ListsJoined
<1>10. (P \cup {e}) \cup Q = S \cup {e}
  BY <1>4
<1> QED
  BY <1>9, <1>10 DEF InsertAt

\* An element is taken away.
LEMMA ListsRemove ==
    ASSUME NEW s, NEW S, NEW R, Lists(s, S, R), NEW i \in 1..Len(s), \A x : <<x, x>> \notin R
    PROVE  Lists(RemoveAt(s, i), S \ {s[i]}, R)
<1>1. /\ s \in Seq(S) /\ Len(s) \in Nat
      /\ \A k, l \in 1..Len(s) : k < l => <<s[k], s[l]>> \in R
  BY ListsFields
<1> DEFINE P == Slice(s, 1, i - 1)
           Q == Slice(s, i + 1, Len(s))
<1>2. Lists(SubSeq(s, 1, i - 1), P, R)
  BY <1>1, ListsSub
<1>3. Lists(SubSeq(s, i + 1, Len(s)), Q, R)
  BY <1>1, ListsSub
<1>4. P \cup {s[i]} \cup Q = S
  <2>1. Len(s) \in 0..Len(s) /\ 1 \in 1..Len(s) + 1 /\ 1 <= Len(s) + 1
    BY <1>1
  <2>2. P \cup {s[i]} \cup Q = Slice(s, 1, Len(s))
    BY <1>1, <2>1, SlicesMeet
  <2> QED
    BY <2>2, ListsWhole
<1>5. Before(P, Q, R)
  <2> SUFFICES ASSUME NEW x \in P, NEW y \in Q
               PROVE  <<x, y>> \in R
    BY DEF Before
  <2>1. PICK k \in 1..i - 1 : x = s[k]
    BY DEF Slice
  <2>2. PICK l \in i + 1..Len(s) : y = s[l]
    BY DEF Slice
  <2>3. k \in 1..Len(s) /\ l \in 1..Len(s) /\ k < l
    BY <1>1
  <2> QED
    BY <1>1, <2>1, <2>2, <2>3
<1>6. s[i] \notin P /\ s[i] \notin Q
  <2>1. ASSUME NEW k \in 1..i - 1
        PROVE  s[k] # s[i]
    <3>1. k \in 1..Len(s) /\ k < i
      BY <1>1
    <3>2. <<s[k], s[i]>> \in R
      BY <1>1, <3>1
    <3> QED
      BY <3>2
  <2>2. ASSUME NEW k \in i + 1..Len(s)
        PROVE  s[k] # s[i]
    <3>1. k \in 1..Len(s) /\ i < k
      BY <1>1
    <3>2. <<s[i], s[k]>> \in R
      BY <1>1, <3>1
    <3> QED
      BY <3>2
  <2> QED
    BY <2>1, <2>2 DEF Slice
<1> HIDE DEF P, Q
<1>7. Lists(SubSeq(s, 1, i - 1) \o SubSeq(s, i + 1, Len(s)), P \cup Q, R)
  BY <1>2, <1>3, <1>5, ListsJoined
<1>8. P \cup Q = S \ {s[i]}
  BY <1>4, <1>6
<1> QED
  BY <1>7, <1>8 DEF RemoveAt

-----------------------------------------------------------------------------
(* What walks along links find                                             *)

\* A walk that keeps to I ends at a page of I.
LEMMA ChaseReaches ==
    ASSUME NEW D, NEW Stop, NEW base, NEW succ, NEW N, NEW m, Falls(D, Stop, succ, m, N),
           NEW f, Chases(f, D, Stop, base, succ),
           NEW I \in SUBSET D, \A p \in I : p \notin Stop => succ[p] \in I
    PROVE  \A p \in I : \E q \in I \cap Stop : f[p] = base[q]
<1> DEFINE Good(p) == \E q \in I \cap Stop : f[p] = base[q]
           Wrong == {n \in Nat : \E p \in I : m[p] = n /\ ~Good(p)}
<1>1. \A p \in D : m[p] \in Nat /\ (p \notin Stop => succ[p] \in D /\ m[succ[p]] < m[p])
  BY DEF Falls
<1>2. \A p \in I : p \in D /\ f[p] = ChaseStep(f, Stop, base, succ, p)
  BY DEF Chases
<1>3. Wrong = {}
  <2> SUFFICES ASSUME Wrong # {} PROVE FALSE
    OBVIOUS
  <2>1. PICK n \in Wrong : \A k \in Wrong : n <= k
    <3>1. Wrong \in SUBSET Nat
      OBVIOUS
    <3> HIDE DEF Wrong
    <3> QED
      BY <3>1, LeastNatural
  <2>2. PICK p \in I : m[p] = n /\ ~Good(p)
    OBVIOUS
  <2>3. CASE p \in Stop
    BY <1>2, <2>2, <2>3 DEF ChaseStep
  <2>4. CASE p \notin Stop
    <3>1. f[p] = f[succ[p]] /\ succ[p] \in I /\ m[succ[p]] \in Nat /\ m[succ[p]] < n
      BY <1>1, <1>2, <2>2, <2>4 DEF ChaseStep
    <3>2. Good(succ[p])
      BY <2>1, <3>1
    <3> QED
      BY <2>2, <3>1, <3>2
  <2> QED
    BY <2>3, <2>4
<1> QED
  BY <1>1, <1>3

\* P is what is found at a page, G what is found from there on.
Collects(D, Stop, found, succ, P, G, R) ==
    \A p \in D : /\ Lists(found[p], P[p], R)
                 /\ p \in Stop => G[p] = P[p]
                 /\ p \notin Stop => G[p] = P[p] \cup G[succ[p]] /\ Before(P[p], G[succ[p]], R)

LEMMA GatherLists ==
    ASSUME NEW D, NEW Stop, NEW found, NEW succ, NEW N, NEW m, Falls(D, Stop, succ, m, N),
           NEW f, Gathers(f, D, Stop, found, succ),
           NEW P, NEW G, NEW R, Collects(D, Stop, found, succ, P, G, R)
    PROVE  \A p \in D : Lists(f[p], G[p], R)
<1> DEFINE Wrong == {n \in Nat : \E p \in D : m[p] = n /\ ~Lists(f[p], G[p], R)}
<1>1. \A p \in D : m[p] \in Nat /\ (p \notin Stop => succ[p] \in D /\ m[succ[p]] < m[p])
  BY DEF Falls
<1>2. \A p \in D : f[p] = GatherStep(f, Stop, found, succ, p)
  BY DEF Gathers
<1>3. Wrong = {}
  <2> SUFFICES ASSUME Wrong # {} PROVE FALSE
    OBVIOUS
  <2>1. PICK n \in Wrong : \A k \in Wrong : n <= k
    <3>1. Wrong \in SUBSET Nat
      OBVIOUS
    <3> HIDE DEF Wrong
    <3> QED
      BY <3>1, LeastNatural
  <2>2. PICK p \in D : m[p] = n /\ ~Lists(f[p], G[p], R)
    OBVIOUS
  <2>3. CASE p \in Stop
    <3>1. f[p] = found[p] /\ G[p] = P[p] /\ Lists(found[p], P[p], R)
      BY <1>2, <2>3 DEF GatherStep, Collects
    <3> QED
      BY <2>2, <3>1
  <2>4. CASE p \notin Stop
    <3>1. succ[p] \in D /\ m[succ[p]] \in Nat /\ m[succ[p]] < n
      BY <1>1, <2>2, <2>4
    <3>2. Lists(f[succ[p]], G[succ[p]], R)
      BY <2>1, <3>1
    <3>3. f[p] = found[p] \o f[succ[p]]
      BY <1>2, <2>4 DEF GatherStep
    <3>4. Lists(found[p], P[p], R) /\ G[p] = P[p] \cup G[succ[p]] /\ Before(P[p], G[succ[p]], R)
      BY <2>4 DEF Collects
    <3>5. Lists(found[p] \o f[succ[p]], P[p] \cup G[succ[p]], R)
      BY <3>2, <3>4, ListsJoined
    <3> QED
      BY <2>2, <3>3, <3>4, <3>5
  <2> QED
    BY <2>3, <2>4
<1> QED
  BY <1>1, <1>3

\* H is what a page adds, G what is found below it.
TreeCollects(ns, head, H, G, R) ==
    \A p \in DOMAIN ns :
        IF ns[p].leaf THEN G[p] = {p}
        ELSE /\ Len(ns[p].entries) \in Nat /\ DOMAIN ns[p].entries = 1..Len(ns[p].entries)
             /\ IF p \in DOMAIN head THEN Lists(head[p], H[p], R) ELSE H[p] = {}
             /\ G[p] = H[p] \cup UNION {G[Kid(ns, p, i)] : i \in Slots(ns, p)}
             /\ \A i \in Slots(ns, p) : Before(H[p], G[Kid(ns, p, i)], R)
             /\ \A i, j \in Slots(ns, p) : i < j => Before(G[Kid(ns, p, i)], G[Kid(ns, p, j)], R)

LEMMA TreeListsStep ==
    ASSUME NEW ns, NEW head, NEW H, NEW G, NEW R, TreeCollects(ns, head, H, G, R),
           NEW f, NEW p \in DOMAIN ns, ~ns[p].leaf,
           \A i \in Slots(ns, p) : Lists(f[Kid(ns, p, i)], G[Kid(ns, p, i)], R)
    PROVE  Lists(TreeStep(f, ns, head, p), G[p], R)
<1> DEFINE n == Len(ns[p].entries)
           kid(i) == Kid(ns, p, i)
           P == [i \in 1..n |-> G[kid(i)]]
           T == UNION {G[kid(i)] : i \in 1..n + 1}
<1>1. /\ n \in Nat /\ DOMAIN ns[p].entries = 1..n /\ Slots(ns, p) = 1..n + 1
      /\ IF p \in DOMAIN head THEN Lists(head[p], H[p], R) ELSE H[p] = {}
      /\ G[p] = H[p] \cup T
      /\ \A i \in 1..n + 1 : Before(H[p], G[kid(i)], R) /\ Lists(f[kid(i)], G[kid(i)], R)
      /\ \A i, j \in 1..n + 1 : i < j => Before(G[kid(i)], G[kid(j)], R)
  BY DEF TreeCollects, Slots, Width
<1>2. PICK q : q = [i \in 1..n |-> f[kid(i)]]
  OBVIOUS
<1>3. [i \in DOMAIN ns[p].entries |-> f[ns[p].entries[i].child]] = q
  BY <1>1, <1>2 DEF Kid, Width
<1>4. kid(n + 1) = ns[p].rightmost
  BY <1>1 DEF Kid, Width
<1>5. Len(q) = n /\ DOMAIN q = 1..n /\ (q = <<>> \/ Len(q) > 0) /\ \A i \in 1..n : q[i] = f[kid(i)]
  BY <1>1, <1>2
<1> HIDE DEF kid
<1>6. \A i \in 1..n : P[i] = G[kid(i)] /\ i \in 1..n + 1
  BY <1>1
<1> HIDE DEF P
<1>7. Lists(FlattenSeq(q), Upto(P, n), R)
  <2>1. \A i \in 1..Len(q) : Lists(q[i], P[i], R)
    BY <1>1, <1>5, <1>6
  <2>2. \A i, j \in 1..Len(q) : i < j => Before(P[i], P[j], R)
    BY <1>1, <1>5, <1>6
  <2>3. Len(q) \in Nat /\ DOMAIN q = 1..Len(q) /\ (q = <<>> \/ Len(q) > 0)
    BY <1>1, <1>5
  <2>4. Lists(FlattenSeq(q), Upto(P, Len(q)), R)
    BY <2>1, <2>2, <2>3, FlattenLists
  <2> QED
    BY <1>5, <2>4
<1>8. \A x : x \in Upto(P, n) <=> \E i \in 1..n : x \in G[kid(i)]
  <2>1. \A x : x \in Upto(P, n) <=> \E i \in 1..n : x \in P[i]
    BY <1>1, UptoNext
  <2> HIDE DEF n
  <2> QED
    BY <1>6, <2>1
<1>9. Before(H[p], Upto(P, n), R)
  BY <1>1, <1>6, <1>8 DEF Before
<1>10. n + 1 \in 1..n + 1 /\ \A i \in 1..n : i < n + 1
  BY <1>1
<1>11. Before(H[p] \cup Upto(P, n), G[kid(n + 1)], R)
  <2>1. ASSUME NEW x \in Upto(P, n), NEW y \in G[kid(n + 1)]
        PROVE  <<x, y>> \in R
    <3>1. PICK i \in 1..n : x \in G[kid(i)]
      BY <1>8
    <3> QED
      BY <1>1, <1>6, <1>10, <3>1 DEF Before
  <2>2. ASSUME NEW x \in H[p], NEW y \in G[kid(n + 1)]
        PROVE  <<x, y>> \in R
    BY <1>1, <1>10 DEF Before
  <2> QED
    BY <2>1, <2>2 DEF Before
<1>12. Lists(Headed(head, p, FlattenSeq(q)), H[p] \cup Upto(P, n), R)
  <2>1. CASE p \in DOMAIN head
    <3>1. Lists(head[p] \o FlattenSeq(q), H[p] \cup Upto(P, n), R)
      BY <1>1, <1>7, <1>9, <2>1, ListsJoined
    <3> QED
      BY <2>1, <3>1 DEF Headed
  <2>2. CASE p \notin DOMAIN head
    <3>1. H[p] \cup Upto(P, n) = Upto(P, n)
      BY <1>1, <2>2
    <3> QED
      BY <1>7, <2>2, <3>1 DEF Headed
  <2> QED
    BY <2>1, <2>2
<1>13. Lists(f[kid(n + 1)], G[kid(n + 1)], R)
  BY <1>1, <1>10
<1>14. Lists(Headed(head, p, FlattenSeq(q)) \o f[kid(n + 1)],
             (H[p] \cup Upto(P, n)) \cup G[kid(n + 1)], R)
  BY <1>11, <1>12, <1>13, ListsJoined
<1>15. (H[p] \cup Upto(P, n)) \cup G[kid(n + 1)] = G[p]
  <2>1. Upto(P, n) \cup G[kid(n + 1)] = T
    <3>1. ASSUME NEW x
          PROVE  x \in T <=> \E i \in 1..n + 1 : x \in G[kid(i)]
      OBVIOUS
    <3>2. ASSUME NEW i \in 1..n + 1
          PROVE  i \in 1..n \/ i = n + 1
      BY <1>1
    <3> QED
      BY <1>6, <1>8, <1>10, <3>1, <3>2
  <2> QED
    BY <1>1, <2>1
<1>16. TreeStep(f, ns, head, p) = Headed(head, p, FlattenSeq(q)) \o f[kid(n + 1)]
  BY <1>3, <1>4 DEF TreeStep
<1> QED
  BY <1>14, <1>15, <1>16

LEMMA TreeLists ==
    ASSUME NEW ns, NEW head, NEW N, NEW m, Descends(ns, m, N), NEW f, WalksTree(f, ns, head),
           NEW H, NEW G, NEW R, TreeCollects(ns, head, H, G, R)
    PROVE  \A p \in DOMAIN ns : Lists(f[p], G[p], R)
<1> DEFINE D == DOMAIN ns
           Wrong == {n \in Nat : \E p \in D : m[p] = n /\ ~Lists(f[p], G[p], R)}
<1>1. \A p \in D : m[p] \in Nat
  BY DEF Descends
<1>2. \A p \in D : f[p] = TreeStep(f, ns, head, p)
  BY DEF WalksTree
<1>3. Wrong = {}
  <2> SUFFICES ASSUME Wrong # {} PROVE FALSE
    OBVIOUS
  <2>1. PICK n \in Wrong : \A k \in Wrong : n <= k
    <3>1. Wrong \in SUBSET Nat
      OBVIOUS
    <3> HIDE DEF Wrong
    <3> QED
      BY <3>1, LeastNatural
  <2>2. PICK p \in D : m[p] = n /\ ~Lists(f[p], G[p], R)
    OBVIOUS
  <2>3. CASE ns[p].leaf
    <3>1. f[p] = <<p>> /\ G[p] = {p}
      BY <1>2, <2>3 DEF TreeStep, TreeCollects
    <3> QED
      BY <2>2, <3>1, ListsOne
  <2>4. CASE ~ns[p].leaf
    <3>1. ASSUME NEW i \in Slots(ns, p)
          PROVE  Lists(f[Kid(ns, p, i)], G[Kid(ns, p, i)], R)
      <4>1. Len(ns[p].entries) \in Nat /\ DOMAIN ns[p].entries = 1..Len(ns[p].entries)
        BY <2>4 DEF TreeCollects
      <4>2. i \in 1..Len(ns[p].entries) + 1
        BY <2>4 DEF Slots, Width
      <4>3. Kid(ns, p, i) \in D /\ m[Kid(ns, p, i)] < m[p]
        <5>1. CASE i <= Len(ns[p].entries)
          <6>1. i \in DOMAIN ns[p].entries
            BY <4>1, <4>2, <5>1
          <6> QED
            BY <2>4, <5>1, <6>1 DEF Kid, Width, Descends
        <5>2. CASE ~(i <= Len(ns[p].entries))
          BY <2>4, <5>2 DEF Kid, Width, Descends
        <5> QED
          BY <5>1, <5>2
      <4>4. m[Kid(ns, p, i)] \in Nat /\ m[Kid(ns, p, i)] < n
        BY <1>1, <2>2, <4>3
      <4> QED
        BY <2>1, <4>3, <4>4
    <3>2. Lists(TreeStep(f, ns, head, p), G[p], R)
      BY <2>4, <3>1, TreeListsStep
    <3> QED
      BY <1>2, <2>2, <3>2
  <2> QED
    BY <2>3, <2>4
<1> QED
  BY <1>1, <1>3

-----------------------------------------------------------------------------
(* The nodes of the pages                                                  *)

LeafNodes ==
    [leaf : {TRUE}, entries : Seq(EntrySet), prev : Nat, next : Nat, parent : Nat]
ChildSet == [key : Keys, child : Nat]
InternalNodes ==
    [leaf : {FALSE}, entries : Seq(ChildSet), rightmost : Nat, parent : Nat]

Typed(ns) == \A p \in DOMAIN ns : p \in Nat \ {0} /\ ns[p] \in LeafNodes \cup InternalNodes

LEMMA NodeFields ==
    ASSUME NEW ns, Typed(ns), NEW p \in DOMAIN ns
    PROVE  /\ p \in Nat \ {0} /\ ns[p].leaf \in BOOLEAN
           /\ ns[p].leaf => ns[p] \in LeafNodes
           /\ ~ns[p].leaf => ns[p] \in InternalNodes
           /\ Width(ns, p) \in Nat /\ DOMAIN ns[p].entries = 1..Width(ns, p)
           /\ \A i \in 1..Width(ns, p) : Key(ns, p, i) \in Keys /\ Key(ns, p, i) \in Int
<1>1. p \in Nat \ {0} /\ (ns[p] \in LeafNodes \/ ns[p] \in InternalNodes)
  BY DEF Typed
<1>2. Keys \subseteq Int
  BY IndexAssumption
<1>3. CASE ns[p] \in LeafNodes
  <2>1. ns[p].leaf = TRUE /\ ns[p].entries \in Seq(EntrySet)
    BY <1>3 DEF LeafNodes
  <2>2. /\ Len(ns[p].entries) \in Nat /\ DOMAIN ns[p].entries = 1..Len(ns[p].entries)
        /\ \A i \in 1..Len(ns[p].entries) : ns[p].entries[i] \in EntrySet
    BY <2>1
  <2> QED
    BY <1>1, <1>2, <1>3, <2>1, <2>2 DEF Width, Key, EntrySet
<1>4. CASE ns[p] \in InternalNodes
  <2>1. ns[p].leaf = FALSE /\ ns[p].entries \in Seq(ChildSet)
    BY <1>4 DEF InternalNodes
  <2>2. /\ Len(ns[p].entries) \in Nat /\ DOMAIN ns[p].entries = 1..Len(ns[p].entries)
        /\ \A i \in 1..Len(ns[p].entries) : ns[p].entries[i] \in ChildSet
    BY <2>1
  <2> QED
    BY <1>1, <1>2, <1>4, <2>1, <2>2 DEF Width, Key, ChildSet
<1> QED
  BY <1>1, <1>3, <1>4

-----------------------------------------------------------------------------
(* Walking the tree                                                        *)

LEMMA ShapeDescends ==
    ASSUME NEW ns, NEW r, NEW a, NEW b, NEW K, TreeShape(ns, r, a, b, K), Typed(ns)
    PROVE  Descends(ns, [p \in DOMAIN ns |-> b[p] - a[p]], b[r] - a[r])
<1> DEFINE D == DOMAIN ns
           m == [p \in D |-> b[p] - a[p]]
           N == b[r] - a[r]
<1>1. \A p \in D : a[p] \in Int /\ b[p] \in Int /\ a[p] < b[p]
  BY LabelTypes DEF TreeShape
<1>2. r \in D /\ \A p \in D : p # r => Inside(a, b, p, r)
  BY DEF TreeShape, Rooted
<1>3. N \in Nat /\ \A p \in D : m[p] \in 0..N
  <2>1. ASSUME NEW p \in D
        PROVE  b[p] - a[p] \in 0..N
    <3>1. a[r] <= a[p] /\ b[p] <= b[r] /\ a[r] \in Int /\ b[r] \in Int
      BY <1>1, <1>2 DEF Inside
    <3> QED
      BY <1>1, <3>1
  <2> QED
    BY <1>1, <1>2, <2>1
<1>4. ASSUME NEW p \in D, NEW i \in Slots(ns, p)
      PROVE  Kid(ns, p, i) \in D /\ m[Kid(ns, p, i)] < m[p]
  <2>1. Kid(ns, p, i) \in D /\ Inside(a, b, Kid(ns, p, i), p)
    BY DEF TreeShape, PagePlaced, KidsPlaced
  <2> QED
    BY <1>1, <2>1 DEF Inside
<1>5. ASSUME NEW p \in D, ~ns[p].leaf
      PROVE  /\ \A i \in DOMAIN ns[p].entries :
                    ns[p].entries[i].child \in D /\ m[ns[p].entries[i].child] < m[p]
             /\ ns[p].rightmost \in D /\ m[ns[p].rightmost] < m[p]
  <2>1. Width(ns, p) \in Nat /\ DOMAIN ns[p].entries = 1..Width(ns, p)
    BY NodeFields
  <2>2. Slots(ns, p) = 1..Width(ns, p) + 1
    BY <1>5 DEF Slots
  <2>3. \A i \in 1..Width(ns, p) : i \in Slots(ns, p) /\ Kid(ns, p, i) = ns[p].entries[i].child
    BY <2>1, <2>2 DEF Kid
  <2>4. Width(ns, p) + 1 \in Slots(ns, p) /\ Kid(ns, p, Width(ns, p) + 1) = ns[p].rightmost
    BY <2>1, <2>2 DEF Kid
  <2> QED
    BY <1>4, <2>1, <2>3, <2>4
<1> HIDE DEF m, N
<1>6. m \in [D -> 0..N]
  BY <1>3 DEF m
<1>7. Descends(ns, m, N)
  BY <1>3, <1>5, <1>6 DEF Descends
<1> QED
  BY <1>7 DEF m, N

\* A page and the pages below it.
Under(D, a, b, p) == {q \in D : q = p \/ Inside(a, b, q, p)}

LEMMA UnderKids ==
    ASSUME NEW ns, NEW r, NEW a, NEW b, NEW K, TreeShape(ns, r, a, b, K), NEW p \in DOMAIN ns
    PROVE  /\ Under(DOMAIN ns, a, b, p)
                = {p} \cup UNION {Under(DOMAIN ns, a, b, Kid(ns, p, i)) : i \in Slots(ns, p)}
           /\ \A i \in Slots(ns, p) : \A x \in Under(DOMAIN ns, a, b, Kid(ns, p, i)) : x # p
           /\ \A i, j \in Slots(ns, p) : i < j =>
                 \A x \in Under(DOMAIN ns, a, b, Kid(ns, p, i)),
                    y \in Under(DOMAIN ns, a, b, Kid(ns, p, j)) : b[x] < a[y]
<1> DEFINE D == DOMAIN ns
           kid(i) == Kid(ns, p, i)
           U(q) == Under(D, a, b, q)
<1>1. \A q \in D : a[q] \in Int /\ b[q] \in Int /\ a[q] < b[q]
  BY LabelTypes DEF TreeShape
<1>2. \A i \in Slots(ns, p) : kid(i) \in D /\ Inside(a, b, kid(i), p)
  BY DEF TreeShape, PagePlaced, KidsPlaced
<1>3. \A i, j \in Slots(ns, p) : i < j => b[kid(i)] < a[kid(j)]
  BY DEF TreeShape, PagePlaced, KidsApart
<1>4. \A q \in D : Inside(a, b, q, p) =>
          \E i \in Slots(ns, p) : q = kid(i) \/ Inside(a, b, q, kid(i))
  BY DEF TreeShape, PagePlaced, KidsReach
<1> HIDE DEF kid
<1>5. ASSUME NEW i \in Slots(ns, p), NEW x \in U(kid(i))
      PROVE  x \in D /\ Inside(a, b, x, p) /\ a[kid(i)] <= a[x] /\ b[x] <= b[kid(i)]
  BY <1>1, <1>2 DEF Under, Inside
<1>6. ASSUME NEW x \in U(p)
      PROVE  x = p \/ \E i \in Slots(ns, p) : x \in U(kid(i))
  BY <1>4 DEF Under
<1>7. p \in U(p) /\ \A i \in Slots(ns, p) : \A x \in U(kid(i)) : x \in U(p) /\ x # p
  BY <1>1, <1>5 DEF Under, Inside
<1>8. ASSUME NEW i \in Slots(ns, p), NEW j \in Slots(ns, p), i < j,
             NEW x \in U(kid(i)), NEW y \in U(kid(j))
      PROVE  b[x] < a[y]
  <2>1. /\ b[x] \in Int /\ b[x] <= b[kid(i)] /\ b[kid(i)] < a[kid(j)] /\ a[kid(j)] <= a[y]
        /\ b[kid(i)] \in Int /\ a[kid(j)] \in Int /\ a[y] \in Int
    BY <1>1, <1>2, <1>3, <1>5, <1>8
  <2> QED
    BY <2>1
<1> HIDE DEF U
<1>9. U(p) = {p} \cup UNION {U(kid(i)) : i \in Slots(ns, p)}
  BY <1>6, <1>7
<1> QED
  BY <1>7, <1>8, <1>9 DEF U, kid

\* The pages that a dropped table releases.
LEMMA PagesListed ==
    ASSUME NEW a, NEW b, NEW K, TreeShape(nodes, root, a, b, K), Typed(nodes)
    PROVE  ReleaseIsComplete
<1> DEFINE D == DOMAIN nodes
           head == [p \in D |-> <<p>>]
           H == [p \in D |-> {p}]
           G == [p \in D |-> Under(D, a, b, p)]
           R == {e \in D \X D : e[1] # e[2]}
           Body(f, p) ==
               IF nodes[p].leaf THEN <<p>>
               ELSE <<p>> \o FlattenSeq([i \in DOMAIN nodes[p].entries |->
                                            f[nodes[p].entries[i].child]])
                          \o f[nodes[p].rightmost]
           F == CHOOSE f : f = [p \in D |-> Body(f, p)]
<1>0. PICK m, N : Descends(nodes, m, N)
  BY ShapeDescends
<1>1. PICK f : WalksTree(f, nodes, head)
  <2> HIDE DEF head
  <2> QED
    BY <1>0, TreeWalkDefined
<1>2. ASSUME NEW g, NEW p \in D
      PROVE  TreeStep(g, nodes, head, p) = Body(g, p)
  BY DEF TreeStep, Headed
<1>3. index_tree_pages = F[root]
  BY Zenon DEF index_tree_pages
<1> HIDE DEF Body, head
<1>4. f = [p \in D |-> Body(f, p)]
  <2>1. [p \in D |-> TreeStep(f, nodes, head, p)] = [p \in D |-> Body(f, p)]
    BY <1>2
  <2> QED
    BY <1>1, <2>1 DEF WalksTree
<1>5. F = [p \in D |-> Body(F, p)]
  BY <1>4
<1>6. WalksTree(F, nodes, head)
  <2> HIDE DEF F
  <2>1. [p \in D |-> TreeStep(F, nodes, head, p)] = [p \in D |-> Body(F, p)]
    BY <1>2
  <2> QED
    BY <1>5, <2>1 DEF WalksTree
<1> HIDE DEF F
<1>7. TreeCollects(nodes, head, H, G, R)
  <2> SUFFICES ASSUME NEW p \in D
               PROVE  IF nodes[p].leaf THEN G[p] = {p}
                      ELSE /\ /\ Len(nodes[p].entries) \in Nat
                              /\ DOMAIN nodes[p].entries = 1..Len(nodes[p].entries)
                           /\ IF p \in DOMAIN head THEN Lists(head[p], H[p], R) ELSE H[p] = {}
                           /\ G[p] = H[p] \cup UNION {G[Kid(nodes, p, i)] : i \in Slots(nodes, p)}
                           /\ \A i \in Slots(nodes, p) : Before(H[p], G[Kid(nodes, p, i)], R)
                           /\ \A i, j \in Slots(nodes, p) : i < j =>
                                 Before(G[Kid(nodes, p, i)], G[Kid(nodes, p, j)], R)
    BY DEF TreeCollects
  <2>1. /\ Under(D, a, b, p) = {p} \cup UNION {Under(D, a, b, Kid(nodes, p, i)) : i \in Slots(nodes, p)}
        /\ \A i \in Slots(nodes, p) : \A x \in Under(D, a, b, Kid(nodes, p, i)) : x # p
        /\ \A i, j \in Slots(nodes, p) : i < j =>
              \A x \in Under(D, a, b, Kid(nodes, p, i)),
                 y \in Under(D, a, b, Kid(nodes, p, j)) : b[x] < a[y]
    BY UnderKids
  <2>2. \A i \in Slots(nodes, p) : Kid(nodes, p, i) \in D
    BY DEF TreeShape, PagePlaced, KidsPlaced
  <2>3. \A i \in Slots(nodes, p) : G[Kid(nodes, p, i)] = Under(D, a, b, Kid(nodes, p, i))
    BY <2>2
  <2>4. G[p] = Under(D, a, b, p) /\ H[p] = {p} /\ p \in DOMAIN head /\ head[p] = <<p>>
    BY DEF head
  <2>5. CASE nodes[p].leaf
    BY <2>1, <2>4, <2>5 DEF Slots
  <2>6. CASE ~nodes[p].leaf
    <3>1. Len(nodes[p].entries) \in Nat /\ DOMAIN nodes[p].entries = 1..Len(nodes[p].entries)
      BY NodeFields DEF Width
    <3>2. Lists(head[p], H[p], R)
      BY <2>4, ListsOne
    <3>3. \A q \in D : Under(D, a, b, q) \subseteq D
      BY DEF Under
    <3>4. \A i \in Slots(nodes, p) : Before(H[p], G[Kid(nodes, p, i)], R)
      BY <2>1, <2>2, <2>3, <2>4, <3>3 DEF Before
    <3>5. ASSUME NEW i \in Slots(nodes, p), NEW j \in Slots(nodes, p), i < j
          PROVE  Before(G[Kid(nodes, p, i)], G[Kid(nodes, p, j)], R)
      <4>1. ASSUME NEW x \in Under(D, a, b, Kid(nodes, p, i)),
                   NEW y \in Under(D, a, b, Kid(nodes, p, j))
            PROVE  <<x, y>> \in R
        <5>1. b[x] < a[y] /\ x \in D /\ y \in D
          BY <2>1, <2>2, <3>3, <3>5
        <5>2. x # y
          BY <5>1, LabelTypes DEF TreeShape
        <5> QED
          BY <5>1, <5>2
      <4>2. Before(Under(D, a, b, Kid(nodes, p, i)), Under(D, a, b, Kid(nodes, p, j)), R)
        BY <4>1 DEF Before
      <4> HIDE DEF G, R
      <4> QED
        BY <2>3, <4>2
    <3>6. {G[Kid(nodes, p, i)] : i \in Slots(nodes, p)}
            = {Under(D, a, b, Kid(nodes, p, i)) : i \in Slots(nodes, p)}
      BY <2>3
    <3> QED
      BY <2>1, <2>4, <2>6, <3>1, <3>2, <3>4, <3>5, <3>6
  <2> QED
    BY <2>5, <2>6, NodeFields
<1>8. Lists(F[root], G[root], R)
  <2>1. root \in D
    BY DEF TreeShape, Rooted
  <2> HIDE DEF G, H, R
  <2> QED
    BY <1>0, <1>6, <1>7, <2>1, TreeLists
<1>9. G[root] = D
  BY DEF Under, TreeShape, Rooted
<1>10. \A x : <<x, x>> \notin R
  OBVIOUS
<1>11. ToSet(F[root]) = D /\ Len(F[root]) = Cardinality(D)
  <2> HIDE DEF R, G
  <2> QED
    BY <1>8, <1>9, <1>10, ListsCount
<1> QED
  BY <1>3, <1>11 DEF ReleaseIsComplete

LeftOf(D, a, b) == {e \in D \X D : b[e[1]] < a[e[2]]}

\* The leaves from left to right.
LEMMA LeavesListed ==
    ASSUME NEW a, NEW b, NEW K, TreeShape(nodes, root, a, b, K), Typed(nodes)
    PROVE  Lists(LeavesInOrder, Leaves(nodes), LeftOf(DOMAIN nodes, a, b))
<1> DEFINE D == DOMAIN nodes
           head == <<>>
           H == [p \in D |-> {}]
           G == [p \in D |-> Under(D, a, b, p) \cap Leaves(nodes)]
           R == LeftOf(D, a, b)
           Body(f, p) ==
               IF nodes[p].leaf THEN <<p>>
               ELSE FlattenSeq([i \in DOMAIN nodes[p].entries |-> f[nodes[p].entries[i].child]])
                      \o f[nodes[p].rightmost]
           F == CHOOSE f : f = [p \in D |-> Body(f, p)]
<1>0. PICK m, N : Descends(nodes, m, N)
  BY ShapeDescends
<1>1. PICK f : WalksTree(f, nodes, head)
  <2> HIDE DEF head
  <2> QED
    BY <1>0, TreeWalkDefined
<1>2. ASSUME NEW g, NEW p \in D
      PROVE  TreeStep(g, nodes, head, p) = Body(g, p)
  <2>1. p \notin DOMAIN head
    OBVIOUS
  <2> HIDE DEF head
  <2> QED
    BY <2>1 DEF TreeStep, Headed
<1>3. LeavesInOrder = F[root]
  BY Zenon DEF LeavesInOrder
<1> HIDE DEF Body, head
<1>4. f = [p \in D |-> Body(f, p)]
  <2>1. [p \in D |-> TreeStep(f, nodes, head, p)] = [p \in D |-> Body(f, p)]
    BY <1>2
  <2> QED
    BY <1>1, <2>1 DEF WalksTree
<1>5. F = [p \in D |-> Body(F, p)]
  BY <1>4
<1>6. WalksTree(F, nodes, head)
  <2> HIDE DEF F
  <2>1. [p \in D |-> TreeStep(F, nodes, head, p)] = [p \in D |-> Body(F, p)]
    BY <1>2
  <2> QED
    BY <1>5, <2>1 DEF WalksTree
<1> HIDE DEF F
<1>7. TreeCollects(nodes, head, H, G, R)
  <2> SUFFICES ASSUME NEW p \in D
               PROVE  IF nodes[p].leaf THEN G[p] = {p}
                      ELSE /\ /\ Len(nodes[p].entries) \in Nat
                              /\ DOMAIN nodes[p].entries = 1..Len(nodes[p].entries)
                           /\ IF p \in DOMAIN head THEN Lists(head[p], H[p], R) ELSE H[p] = {}
                           /\ G[p] = H[p] \cup UNION {G[Kid(nodes, p, i)] : i \in Slots(nodes, p)}
                           /\ \A i \in Slots(nodes, p) : Before(H[p], G[Kid(nodes, p, i)], R)
                           /\ \A i, j \in Slots(nodes, p) : i < j =>
                                 Before(G[Kid(nodes, p, i)], G[Kid(nodes, p, j)], R)
    BY DEF TreeCollects
  <2> DEFINE U(q) == Under(D, a, b, q)
             L == Leaves(nodes)
             kid(i) == Kid(nodes, p, i)
  <2>1. /\ U(p) = {p} \cup UNION {U(kid(i)) : i \in Slots(nodes, p)}
        /\ \A i, j \in Slots(nodes, p) : i < j => \A x \in U(kid(i)), y \in U(kid(j)) : b[x] < a[y]
    BY UnderKids
  <2>2. \A i \in Slots(nodes, p) : kid(i) \in D
    BY DEF TreeShape, PagePlaced, KidsPlaced
  <2>3. \A i \in Slots(nodes, p) : G[kid(i)] = U(kid(i)) \cap L
    BY <2>2
  <2>4. G[p] = U(p) \cap L /\ H[p] = {} /\ p \notin DOMAIN head
    BY DEF head
  <2>5. CASE nodes[p].leaf
    BY <2>1, <2>4, <2>5 DEF Slots, Leaves
  <2>6. CASE ~nodes[p].leaf
    <3>1. Len(nodes[p].entries) \in Nat /\ DOMAIN nodes[p].entries = 1..Len(nodes[p].entries)
      BY NodeFields DEF Width
    <3>2. \A q \in D : U(q) \subseteq D
      BY DEF Under
    <3>3. \A i \in Slots(nodes, p) : Before(H[p], G[kid(i)], R)
      BY <2>4 DEF Before
    <3>4. ASSUME NEW i \in Slots(nodes, p), NEW j \in Slots(nodes, p), i < j
          PROVE  Before(G[kid(i)], G[kid(j)], R)
      <4>1. ASSUME NEW x \in U(kid(i)) \cap L, NEW y \in U(kid(j)) \cap L
            PROVE  <<x, y>> \in R
        <5>1. b[x] < a[y] /\ x \in D /\ y \in D
          BY <2>1, <2>2, <3>2, <3>4
        <5> QED
          BY <5>1 DEF LeftOf
      <4>2. Before(U(kid(i)) \cap L, U(kid(j)) \cap L, R)
        BY <4>1 DEF Before
      <4> HIDE DEF G, R, U, L, kid
      <4> QED
        BY <2>3, <4>2
    <3>5. G[p] = H[p] \cup UNION {G[kid(i)] : i \in Slots(nodes, p)}
      <4>1. p \notin L
        BY <2>6 DEF Leaves
      <4> HIDE DEF G, H, U, L, kid
      <4>2. UNION {G[kid(i)] : i \in Slots(nodes, p)} = UNION {U(kid(i)) \cap L : i \in Slots(nodes, p)}
        BY <2>3
      <4>3. U(p) \cap L = UNION {U(kid(i)) \cap L : i \in Slots(nodes, p)}
        BY <2>1, <4>1
      <4> QED
        BY <2>4, <4>2, <4>3
    <3> QED
      BY <2>4, <2>6, <3>1, <3>3, <3>4, <3>5
  <2> QED
    BY <2>5, <2>6, NodeFields
<1>8. Lists(F[root], G[root], R)
  <2>1. root \in D
    BY DEF TreeShape, Rooted
  <2> HIDE DEF G, H, R
  <2> QED
    BY <1>0, <1>6, <1>7, <2>1, TreeLists
<1>9. G[root] = Leaves(nodes)
  BY DEF Under, TreeShape, Rooted, Leaves
<1> QED
  BY <1>3, <1>8, <1>9

-----------------------------------------------------------------------------
(* The chain of leaves                                                     *)

\* The link forwards leads to the nearest leaf behind p, if there is one.
NextLeaf(ns, a, b, p) ==
    LET n == ns[p].next
    IN IF n = NO_PAGE THEN \A q \in Leaves(ns) : ~(b[p] < a[q])
       ELSE /\ n \in Leaves(ns) /\ b[p] < a[n]
            /\ \A q \in Leaves(ns) : b[p] < a[q] => q = n \/ b[n] < a[q]

\* The link backwards leads to the nearest leaf before p.
PrevLeaf(ns, a, b, p) ==
    LET n == ns[p].prev
    IN IF n = NO_PAGE THEN \A q \in Leaves(ns) : ~(b[q] < a[p])
       ELSE /\ n \in Leaves(ns) /\ b[n] < a[p]
            /\ \A q \in Leaves(ns) : b[q] < a[p] => q = n \/ b[q] < a[n]

Chained(ns, a, b) == \A p \in Leaves(ns) : NextLeaf(ns, a, b, p) /\ PrevLeaf(ns, a, b, p)

LEMMA LeavesApart ==
    ASSUME NEW ns, NEW r, NEW a, NEW b, NEW K, TreeShape(ns, r, a, b, K),
           NEW p \in Leaves(ns), NEW q \in Leaves(ns)
    PROVE  /\ p \in DOMAIN ns /\ a[p] \in Int /\ b[p] \in Int /\ a[p] < b[p] /\ K[p] \subseteq Int
           /\ p # q => b[p] < a[q] \/ b[q] < a[p]
           /\ ~(b[p] < a[q] /\ b[q] < a[p])
<1>1. p \in DOMAIN ns /\ q \in DOMAIN ns /\ ns[p].leaf /\ ns[q].leaf
  BY DEF Leaves
<1>2. /\ a[p] \in Int /\ b[p] \in Int /\ a[p] < b[p] /\ K[p] \subseteq Int
      /\ a[q] \in Int /\ b[q] \in Int /\ a[q] < b[q]
  BY <1>1, LabelTypes DEF TreeShape
<1>3. ~Inside(a, b, p, q) /\ ~Inside(a, b, q, p)
  BY <1>1 DEF TreeShape, PagePlaced, KidsReach, Slots
<1>4. p # q => b[p] < a[q] \/ b[q] < a[p]
  BY <1>1, <1>3 DEF TreeShape, Nested
<1> QED
  BY <1>1, <1>2, <1>4

LEMMA ChainInOrder ==
    ASSUME NEW a, NEW b, NEW K, TreeShape(nodes, root, a, b, K), Typed(nodes),
           Chained(nodes, a, b)
    PROVE  ChainFollowsTree
<1> DEFINE L == Leaves(nodes)
<1>1. PICK s : s = LeavesInOrder
  OBVIOUS
<1>2. Lists(s, L, LeftOf(DOMAIN nodes, a, b))
  BY <1>1, LeavesListed
<1>3. /\ Len(s) \in Nat /\ DOMAIN s = 1..Len(s) /\ \A i \in 1..Len(s) : s[i] \in L
      /\ \A x \in L : \E i \in 1..Len(s) : s[i] = x
      /\ \A i, j \in 1..Len(s) : i < j => <<s[i], s[j]>> \in LeftOf(DOMAIN nodes, a, b)
  BY <1>2, ListsFields
<1>4. \A i, j \in 1..Len(s) : i < j => b[s[i]] < a[s[j]]
  BY <1>3 DEF LeftOf
<1>5. \A p, q \in L : /\ a[p] \in Int /\ b[p] \in Int /\ a[p] < b[p]
                      /\ ~(b[p] < a[q] /\ b[q] < a[p])
  BY LeavesApart
<1>6. ASSUME NEW i \in 1..Len(s), NEW j \in 1..Len(s), b[s[i]] < a[s[j]]
      PROVE  i < j
  <2>1. i # j
    BY <1>3, <1>5, <1>6
  <2>2. ~(j < i)
    BY <1>3, <1>4, <1>5, <1>6
  <2> QED
    BY <1>3, <2>1, <2>2
<1>7. ASSUME NEW i \in 1..Len(s)
      PROVE  /\ nodes[s[i]].next = (IF i = Len(s) THEN NO_PAGE ELSE s[i + 1])
             /\ nodes[s[i]].prev = (IF i = 1 THEN NO_PAGE ELSE s[i - 1])
  <2> DEFINE p == s[i]
  <2>1. p \in L /\ NextLeaf(nodes, a, b, p) /\ PrevLeaf(nodes, a, b, p)
    BY <1>3 DEF Chained
  <2>0. Len(s) \in Nat
    BY <1>3
  <2>2. ASSUME i = Len(s)
        PROVE  nodes[p].next = NO_PAGE
    <3>1. \A q \in L : ~(b[p] < a[q])
      <4> SUFFICES ASSUME NEW q \in L, b[p] < a[q] PROVE FALSE
        OBVIOUS
      <4>1. PICK j \in 1..Len(s) : s[j] = q
        BY <1>3
      <4>2. i < j
        BY <1>6, <4>1
      <4> QED
        BY <1>3, <2>2, <4>2
    <3> QED
      BY <2>1, <3>1 DEF NextLeaf
  <2>3. ASSUME i # Len(s)
        PROVE  nodes[p].next = s[i + 1]
    <3>1. i + 1 \in 1..Len(s) /\ i < i + 1
      BY <2>0, <2>3
    <3>2. s[i + 1] \in L /\ b[p] < a[s[i + 1]]
      BY <1>3, <1>4, <3>1
    <3>3. nodes[p].next # NO_PAGE
      BY <2>1, <3>2 DEF NextLeaf
    <3>4. PICK n : n = nodes[p].next
      OBVIOUS
    <3>5. n \in L /\ b[p] < a[n] /\ (s[i + 1] = n \/ b[n] < a[s[i + 1]])
      BY <2>1, <3>2, <3>3, <3>4 DEF NextLeaf
    <3>6. PICK k \in 1..Len(s) : s[k] = n
      BY <1>3, <3>5
    <3>7. i < k /\ (s[i + 1] = n \/ k < i + 1)
      BY <1>6, <3>1, <3>5, <3>6
    <3> QED
      BY <2>0, <3>4, <3>7
  <2>4. ASSUME i = 1
        PROVE  nodes[p].prev = NO_PAGE
    <3>1. \A q \in L : ~(b[q] < a[p])
      <4> SUFFICES ASSUME NEW q \in L, b[q] < a[p] PROVE FALSE
        OBVIOUS
      <4>1. PICK j \in 1..Len(s) : s[j] = q
        BY <1>3
      <4>2. j < i
        BY <1>6, <4>1
      <4> QED
        BY <1>3, <2>4, <4>2
    <3> QED
      BY <2>1, <3>1 DEF PrevLeaf
  <2>5. ASSUME i # 1
        PROVE  nodes[p].prev = s[i - 1]
    <3>1. i - 1 \in 1..Len(s) /\ i - 1 < i
      BY <2>0, <2>5
    <3>2. s[i - 1] \in L /\ b[s[i - 1]] < a[p]
      BY <1>3, <1>4, <3>1
    <3>3. nodes[p].prev # NO_PAGE
      BY <2>1, <3>2 DEF PrevLeaf
    <3>4. PICK n : n = nodes[p].prev
      OBVIOUS
    <3>5. n \in L /\ b[n] < a[p] /\ (s[i - 1] = n \/ b[s[i - 1]] < a[n])
      BY <2>1, <3>2, <3>3, <3>4 DEF PrevLeaf
    <3>6. PICK k \in 1..Len(s) : s[k] = n
      BY <1>3, <3>5
    <3>7. k < i /\ (s[i - 1] = n \/ i - 1 < k)
      BY <1>6, <3>1, <3>5, <3>6
    <3> QED
      BY <2>0, <3>4, <3>7
  <2> QED
    BY <2>2, <2>3, <2>4, <2>5
<1> QED
  BY <1>1, <1>3, <1>7 DEF ChainFollowsTree

-----------------------------------------------------------------------------
(* The way to a leaf                                                       *)

\* What partition_point returns, I being the places that fail its predicate.
LEMMA PartitionPoint ==
    ASSUME NEW n \in Nat, NEW I \in SUBSET (1..n), NEW x, x = (IF I # {} THEN Min(I) ELSE 0),
           NEW c, c = (IF x = 0 THEN n ELSE x - 1)
    PROVE  /\ c \in 0..n /\ \A j \in 1..c : j \notin I
           /\ c < n => c + 1 \in I
<1>1. CASE I = {}
  BY <1>1
<1>2. CASE I # {}
  <2>1. x \in I /\ \A j \in I : x <= j
    <3>1. I \in SUBSET Nat
      OBVIOUS
    <3> QED
      BY <1>2, <3>1, MinIsLeast
  <2> QED
    BY <2>1
<1> QED
  BY <1>1, <1>2

LEMMA ChildFound ==
    ASSUME NEW ns, Typed(ns), NEW p \in DOMAIN ns, ~ns[p].leaf, NEW key \in Int
    PROVE  \E i \in Slots(ns, p) : /\ find_child(ns[p], key) = Kid(ns, p, i)
                                   /\ \A j \in 1..i - 1 : Key(ns, p, j) <= key
                                   /\ i <= Width(ns, p) => key < Key(ns, p, i)
<1> DEFINE e == ns[p].entries
           W == Len(e)
           I == {i \in 1..Len(e) : ~(e[i].key <= key)}
           x == IF I # {} THEN Min(I) ELSE 0
           c == IF x = 0 THEN W ELSE x - 1
<1>1. W \in Nat /\ \A i \in 1..W : e[i].key \in Int
  BY NodeFields DEF Width, Key
<1>2. find_child(ns[p], key) = IF c < W THEN e[c + 1].child ELSE ns[p].rightmost
  BY DEF find_child, partition_point, SelectInSeq
<1>3. I \in SUBSET (1..W)
  OBVIOUS
<1>4. \A i \in I : i \in 1..W /\ ~(e[i].key <= key)
  OBVIOUS
<1>5. \A i \in 1..W : i \notin I => e[i].key <= key
  OBVIOUS
<1> HIDE DEF I
<1> HIDE DEF x, c
<1>0. /\ x = (IF I # {} THEN Min(I) ELSE 0)
      /\ c = (IF x = 0 THEN W ELSE x - 1)
  BY DEF x, c
<1> HIDE DEF W
<1>6. c \in 0..W /\ \A j \in 1..c : j \notin I
  BY <1>0, <1>1, <1>3, PartitionPoint
<1>7. c < W => c + 1 \in I
  BY <1>0, <1>1, <1>3, PartitionPoint
<1>8. c + 1 \in Slots(ns, p) /\ find_child(ns[p], key) = Kid(ns, p, c + 1)
  BY <1>1, <1>2, <1>6 DEF Slots, Kid, Width, W
<1>9. \A j \in 1..(c + 1) - 1 : Key(ns, p, j) <= key
  <2>1. ASSUME NEW j \in 1..(c + 1) - 1
        PROVE  Key(ns, p, j) <= key
    <3>1. j \in 1..c /\ j \in 1..W
      BY <1>1, <1>6
    <3> QED
      BY <1>5, <1>6, <3>1 DEF Key
  <2> QED
    BY <2>1
<1>10. c + 1 <= Width(ns, p) => key < Key(ns, p, c + 1)
  BY <1>1, <1>4, <1>6, <1>7 DEF Width, Key, W
<1> QED
  BY <1>8, <1>9, <1>10

\* The pages behind p hold no key below `key`.
Ahead(D, a, b, K, key, p) == \A q \in D : b[p] < a[q] => \A y \in K[q] : key <= y

LEMMA RouteStep ==
    ASSUME NEW ns, NEW r, NEW a, NEW b, NEW K, TreeShape(ns, r, a, b, K), Typed(ns),
           NEW key \in Int, NEW p \in DOMAIN ns, ~ns[p].leaf
    PROVE  /\ find_child(ns[p], key) \in DOMAIN ns /\ Inside(a, b, find_child(ns[p], key), p)
           /\ \E j \in Slots(ns, p) : Kid(ns, p, j) = find_child(ns[p], key)
           /\ key \in K[p] => key \in K[find_child(ns[p], key)]
           /\ Ahead(DOMAIN ns, a, b, K, key, p)
                 => Ahead(DOMAIN ns, a, b, K, key, find_child(ns[p], key))
<1> DEFINE D == DOMAIN ns
           W == Width(ns, p)
<1>1. PICK i \in Slots(ns, p) : /\ find_child(ns[p], key) = Kid(ns, p, i)
                                /\ \A j \in 1..i - 1 : Key(ns, p, j) <= key
                                /\ i <= W => key < Key(ns, p, i)
  BY ChildFound
<1>2. PICK c : c = Kid(ns, p, i)
  OBVIOUS
<1>3. W \in Nat /\ Slots(ns, p) = 1..W + 1 /\ \A j \in 1..W : Key(ns, p, j) \in Int
  BY NodeFields DEF Slots
<1>4. PagePlaced(ns, a, b, K, p) /\ Nested(D, a, b) /\ Narrowing(D, a, b, K)
  BY DEF TreeShape
<1>5. \A j \in Slots(ns, p) : /\ Kid(ns, p, j) \in D /\ Inside(a, b, Kid(ns, p, j), p)
                              /\ K[Kid(ns, p, j)] = Allowed(ns, K, p, j)
  BY <1>4 DEF PagePlaced, KidsPlaced
<1>6. \A q \in D : a[q] \in Int /\ b[q] \in Int /\ a[q] < b[q] /\ K[q] \subseteq Int
  BY LabelTypes DEF TreeShape
<1>7. c \in D /\ Inside(a, b, c, p)
  BY <1>2, <1>5
<1>8. ASSUME key \in K[p]
      PROVE  key \in K[c]
  <2>1. i > 1 => Key(ns, p, i - 1) <= key
    BY <1>1, <1>3
  <2>2. i <= W => key <= Key(ns, p, i)
    BY <1>1, <1>3
  <2> QED
    BY <1>2, <1>5, <1>8, <2>1, <2>2 DEF Allowed
<1>9. ASSUME Ahead(D, a, b, K, key, p), NEW q \in D, b[c] < a[q], NEW y \in K[q]
      PROVE  key <= y
  <2>1. CASE b[p] < a[q]
    BY <1>9, <2>1 DEF Ahead
  <2>2. CASE ~(b[p] < a[q])
    <3>1. /\ a[p] \in Int /\ b[p] \in Int /\ a[p] < b[p] /\ a[c] \in Int /\ b[c] \in Int
          /\ a[c] < b[c] /\ a[q] \in Int /\ b[q] \in Int /\ a[q] < b[q] /\ y \in Int
      BY <1>6, <1>7
    <3>2. q # p /\ ~(b[q] < a[p]) /\ ~Inside(a, b, p, q)
      BY <1>7, <1>9, <3>1 DEF Inside
    <3>3. Inside(a, b, q, p)
      BY <1>4, <2>2, <3>2 DEF Nested
    <3>4. PICK j \in Slots(ns, p) : q = Kid(ns, p, j) \/ Inside(a, b, q, Kid(ns, p, j))
      BY <1>4, <3>3 DEF PagePlaced, KidsReach
    <3>5. PICK d : d = Kid(ns, p, j)
      OBVIOUS
    <3>6. d \in D /\ a[d] \in Int /\ b[d] \in Int /\ a[d] <= a[q] /\ b[q] <= b[d]
      BY <1>5, <1>6, <3>1, <3>4, <3>5 DEF Inside
    <3>7. i < j
      <4>1. i \in Int /\ j \in Int
        BY <1>3
      <4>2. i # j
        BY <1>2, <1>9, <3>1, <3>5, <3>6
      <4>3. j < i => b[d] < a[c]
        BY <1>2, <1>4, <3>5 DEF PagePlaced, KidsApart
      <4>4. ~(j < i)
        BY <1>9, <3>1, <3>6, <4>3
      <4> QED
        BY <4>1, <4>2, <4>4
    <3>8. i \in 1..W /\ j - 1 \in 1..W /\ i <= j - 1 /\ j > 1 /\ j \in Int
      BY <1>3, <3>7
    <3>9. Key(ns, p, i) <= Key(ns, p, j - 1)
      <4>1. i < j - 1 => Key(ns, p, i) <= Key(ns, p, j - 1)
        BY <1>4, <3>8 DEF PagePlaced, KeysPlaced
      <4>2. i = j - 1 => Key(ns, p, i) <= Key(ns, p, j - 1)
        BY <1>3, <3>8
      <4> QED
        BY <3>8, <4>1, <4>2
    <3>10. y \in K[d]
      <4>1. Inside(a, b, q, d) => K[q] \subseteq K[d]
        BY <1>4, <3>6 DEF Narrowing
      <4> QED
        BY <1>9, <3>4, <3>5, <4>1
    <3>11. Key(ns, p, j - 1) <= y
      BY <1>5, <3>5, <3>8, <3>10 DEF Allowed
    <3>12. key < Key(ns, p, i) /\ Key(ns, p, i) \in Int /\ Key(ns, p, j - 1) \in Int
      BY <1>1, <1>3, <3>8
    <3> QED
      BY <3>1, <3>9, <3>11, <3>12
  <2> QED
    BY <2>1, <2>2
<1>10. Ahead(D, a, b, K, key, p) => Ahead(D, a, b, K, key, c)
  BY <1>9 DEF Ahead
<1>11. find_child(ns[p], key) = c
  BY <1>1, <1>2
<1> QED
  BY <1>1, <1>7, <1>8, <1>10, <1>11

\* s goes from child to child and ends in a leaf, never twice at a page.
Descent(ns, s) ==
    /\ s \in Seq(DOMAIN ns) /\ Len(s) \in Nat \ {0} /\ s[Len(s)] \in Leaves(ns)
    /\ \A i \in 1..Len(s) - 1 : \E j \in Slots(ns, s[i]) : Kid(ns, s[i], j) = s[i + 1]
    /\ \A i, j \in 1..Len(s) : i < j => s[i] # s[j]

\* The way of `key` from p on.
Leads(ns, a, b, K, key, p, s) ==
    /\ Descent(ns, s) /\ s[1] = p
    /\ \A i \in 1..Len(s) : s[i] = p \/ Inside(a, b, s[i], p)
    /\ key \in K[p] => key \in K[s[Len(s)]]
    /\ Ahead(DOMAIN ns, a, b, K, key, p) => Ahead(DOMAIN ns, a, b, K, key, s[Len(s)])

LEMMA ConsFields ==
    ASSUME NEW D, NEW u \in Seq(D), NEW p \in D, NEW s, s = <<p>> \o u
    PROVE  /\ s \in Seq(D) /\ Len(s) = Len(u) + 1 /\ s[1] = p /\ Len(u) \in Nat
           /\ \A i \in 1..Len(u) : s[i + 1] = u[i]
           /\ \A i \in 2..Len(u) + 1 : i - 1 \in 1..Len(u) /\ s[i] = u[i - 1]
<1>1. <<p>> \in Seq(D) /\ Len(<<p>>) = 1 /\ <<p>>[1] = p
  OBVIOUS
<1>2. /\ s \in Seq(D) /\ Len(s) = Len(u) + 1 /\ Len(u) \in Nat /\ s[1] = p
      /\ \A i \in 1..Len(u) : s[i + 1] = u[i]
  BY <1>1
<1>3. ASSUME NEW i \in 2..Len(u) + 1
      PROVE  i - 1 \in 1..Len(u) /\ s[i] = u[i - 1]
  <2>1. i - 1 \in 1..Len(u) /\ (i - 1) + 1 = i
    BY <1>2
  <2> QED
    BY <1>2, <2>1
<1> QED
  BY <1>2, <1>3

LEMMA LeadsOn ==
    ASSUME NEW ns, NEW r, NEW a, NEW b, NEW K, TreeShape(ns, r, a, b, K), Typed(ns),
           NEW key \in Int, NEW p \in DOMAIN ns, ~ns[p].leaf,
           NEW u, Leads(ns, a, b, K, key, find_child(ns[p], key), u), NEW s, s = <<p>> \o u
    PROVE  Leads(ns, a, b, K, key, p, s)
<1> DEFINE D == DOMAIN ns
<1>1. PICK c : c = find_child(ns[p], key)
  OBVIOUS
<1>2. /\ c \in D /\ Inside(a, b, c, p) /\ \E j \in Slots(ns, p) : Kid(ns, p, j) = c
      /\ key \in K[p] => key \in K[c]
      /\ Ahead(D, a, b, K, key, p) => Ahead(D, a, b, K, key, c)
  BY <1>1, RouteStep
<1>3. /\ u \in Seq(D) /\ Len(u) \in Nat \ {0} /\ u[Len(u)] \in Leaves(ns) /\ u[1] = c
      /\ \A i \in 1..Len(u) - 1 : \E j \in Slots(ns, u[i]) : Kid(ns, u[i], j) = u[i + 1]
      /\ \A i, j \in 1..Len(u) : i < j => u[i] # u[j]
      /\ \A i \in 1..Len(u) : u[i] = c \/ Inside(a, b, u[i], c)
      /\ key \in K[c] => key \in K[u[Len(u)]]
      /\ Ahead(D, a, b, K, key, c) => Ahead(D, a, b, K, key, u[Len(u)])
  BY <1>1 DEF Leads, Descent
<1>4. /\ s \in Seq(D) /\ Len(s) = Len(u) + 1 /\ s[1] = p /\ Len(u) \in Nat
      /\ \A i \in 1..Len(u) : s[i + 1] = u[i]
      /\ \A i \in 2..Len(u) + 1 : i - 1 \in 1..Len(u) /\ s[i] = u[i - 1]
  BY <1>3, ConsFields
<1>5. \A q \in D : a[q] \in Int /\ b[q] \in Int /\ a[q] < b[q]
  BY LabelTypes DEF TreeShape
<1>6. \A i \in 1..Len(u) : u[i] \in D
  BY <1>3
<1>7. s[Len(s)] = u[Len(u)] /\ Len(s) \in Nat \ {0}
  <2>1. Len(u) \in 1..Len(u)
    BY <1>3
  <2> QED
    BY <1>3, <1>4, <2>1
<1>8. ASSUME NEW i \in 1..Len(u)
      PROVE  Inside(a, b, u[i], p) /\ u[i] # p
  <2>1. u[i] = c \/ Inside(a, b, u[i], c)
    BY <1>3
  <2> QED
    BY <1>2, <1>5, <1>6, <2>1 DEF Inside
<1>9. ASSUME NEW i \in 1..Len(s)
      PROVE  \/ i = 1 /\ s[i] = p
             \/ i \in 2..Len(u) + 1 /\ i - 1 \in 1..Len(u) /\ s[i] = u[i - 1]
  <2>1. i = 1 \/ i \in 2..Len(u) + 1
    BY <1>4
  <2> QED
    BY <1>4, <2>1
<1>10. ASSUME NEW i \in 1..Len(s) - 1
       PROVE  \E j \in Slots(ns, s[i]) : Kid(ns, s[i], j) = s[i + 1]
  <2>1. CASE i = 1
    <3>1. s[2] = u[1]
      BY <1>3, <1>4
    <3> QED
      BY <1>2, <1>3, <1>4, <2>1, <3>1
  <2>2. CASE i # 1
    <3>1. i - 1 \in 1..Len(u) - 1 /\ i \in 1..Len(u) /\ i \in 2..Len(u) + 1 /\ (i - 1) + 1 = i
      BY <1>4, <2>2
    <3>2. s[i] = u[i - 1] /\ s[i + 1] = u[i]
      BY <1>4, <3>1
    <3>3. \E j \in Slots(ns, u[i - 1]) : Kid(ns, u[i - 1], j) = u[(i - 1) + 1]
      BY <1>3, <3>1
    <3> QED
      BY <3>1, <3>2, <3>3
  <2> QED
    BY <2>1, <2>2
<1>11. ASSUME NEW i \in 1..Len(s), NEW j \in 1..Len(s), i < j
       PROVE  s[i] # s[j]
  <2>1. j \in 2..Len(u) + 1 /\ j - 1 \in 1..Len(u) /\ s[j] = u[j - 1]
    <3>1. j # 1
      BY <1>4, <1>11
    <3> QED
      BY <1>9, <3>1
  <2>2. CASE i = 1
    BY <1>4, <1>8, <2>1, <2>2
  <2>3. CASE i # 1
    <3>1. i - 1 \in 1..Len(u) /\ s[i] = u[i - 1]
      BY <1>9, <2>3
    <3>2. i - 1 < j - 1
      BY <1>4, <1>11
    <3> QED
      BY <1>3, <2>1, <3>1, <3>2
  <2> QED
    BY <2>2, <2>3
<1>12. Descent(ns, s)
  BY <1>3, <1>4, <1>7, <1>10, <1>11 DEF Descent
<1>13. \A i \in 1..Len(s) : s[i] = p \/ Inside(a, b, s[i], p)
  BY <1>8, <1>9
<1> QED
  BY <1>2, <1>3, <1>4, <1>7, <1>12, <1>13 DEF Leads

LEMMA PathFound ==
    ASSUME NEW ns, NEW r, NEW a, NEW b, NEW K, TreeShape(ns, r, a, b, K), Typed(ns),
           NEW key \in Int
    PROVE  /\ Descent(ns, read_path(ns, r, key)) /\ read_path(ns, r, key)[1] = r
           /\ Last(read_path(ns, r, key)) \in Leaves(ns)
           /\ key \in K[Last(read_path(ns, r, key))]
           /\ Ahead(DOMAIN ns, a, b, K, key, Last(read_path(ns, r, key)))
<1> DEFINE D == DOMAIN ns
           Stop == Leaves(ns)
           found == [p \in D |-> <<p>>]
           succ == [p \in D |-> find_child(ns[p], key)]
           m == [p \in D |-> b[p] - a[p]]
           N == b[r] - a[r]
           Body(f, p) == IF ns[p].leaf THEN <<p>> ELSE <<p>> \o f[find_child(ns[p], key)]
           F == CHOOSE f : f = [p \in D |-> Body(f, p)]
<1>1. \A p \in D : a[p] \in Int /\ b[p] \in Int /\ a[p] < b[p]
  BY LabelTypes DEF TreeShape
<1>2. r \in D /\ K[r] = Int /\ \A p \in D : p # r => Inside(a, b, p, r)
  BY DEF TreeShape, Rooted
<1>3. Falls(D, Stop, succ, m, N)
  <2>1. N \in Nat /\ m \in [D -> 0..N]
    BY ShapeDescends DEF Descends
  <2>2. ASSUME NEW p \in D \ Stop
        PROVE  succ[p] \in D /\ m[succ[p]] < m[p]
    <3>1. ~ns[p].leaf /\ p \in D
      BY DEF Leaves
    <3>2. find_child(ns[p], key) \in D /\ Inside(a, b, find_child(ns[p], key), p)
      BY <3>1, RouteStep
    <3> QED
      BY <1>1, <3>2 DEF Inside
  <2> HIDE DEF m, succ, N
  <2> QED
    BY <2>1, <2>2 DEF Falls
<1>4. ASSUME NEW g, NEW p \in D
      PROVE  GatherStep(g, Stop, found, succ, p) = Body(g, p)
  BY DEF GatherStep, Leaves
<1>5. read_path(ns, r, key) = F[r]
  BY Zenon DEF read_path
<1> HIDE DEF Body, found, succ, m, N, Stop
<1>6. PICK f : Gathers(f, D, Stop, found, succ)
  BY <1>3, GatherDefined
<1>7. f = [p \in D |-> Body(f, p)]
  <2>1. [p \in D |-> GatherStep(f, Stop, found, succ, p)] = [p \in D |-> Body(f, p)]
    BY <1>4
  <2> QED
    BY <1>6, <2>1 DEF Gathers
<1>8. F = [p \in D |-> Body(F, p)]
  BY <1>7
<1> HIDE DEF F
<1>9. \A p \in D : F[p] = IF ns[p].leaf THEN <<p>> ELSE <<p>> \o F[find_child(ns[p], key)]
  BY <1>8 DEF Body
<1> DEFINE Wrong == {n \in Nat : \E p \in D : m[p] = n /\ ~Leads(ns, a, b, K, key, p, F[p])}
<1>10. Wrong = {}
  <2> SUFFICES ASSUME Wrong # {} PROVE FALSE
    OBVIOUS
  <2>1. PICK n \in Wrong : \A k \in Wrong : n <= k
    <3>1. Wrong \in SUBSET Nat
      OBVIOUS
    <3> HIDE DEF Wrong
    <3> QED
      BY <3>1, LeastNatural
  <2>2. PICK p \in D : m[p] = n /\ ~Leads(ns, a, b, K, key, p, F[p])
    OBVIOUS
  <2>3. CASE ns[p].leaf
    <3>1. PICK s : s = <<p>>
      OBVIOUS
    <3>2. s \in Seq(D) /\ Len(s) = 1 /\ s[1] = p /\ F[p] = s /\ p \in Leaves(ns)
      BY <1>9, <2>3, <3>1 DEF Leaves
    <3>3. Leads(ns, a, b, K, key, p, s)
      BY <3>2 DEF Leads, Descent
    <3> QED
      BY <2>2, <3>2, <3>3
  <2>4. CASE ~ns[p].leaf
    <3>1. PICK c : c = find_child(ns[p], key)
      OBVIOUS
    <3>2. c \in D /\ m[c] < m[p] /\ m[c] \in Nat
      <4>1. p \notin Stop
        BY <2>4 DEF Stop, Leaves
      <4>2. succ[p] \in D /\ m[succ[p]] < m[p]
        BY <1>3, <4>1 DEF Falls
      <4>3. succ[p] = c
        BY <3>1 DEF succ
      <4>4. \A q \in D : m[q] \in Nat
        BY <1>3 DEF Falls
      <4> QED
        BY <4>2, <4>3, <4>4
    <3>3. Leads(ns, a, b, K, key, c, F[c])
      BY <2>1, <2>2, <3>2
    <3>4. PICK s : s = <<p>> \o F[c]
      OBVIOUS
    <3>5. F[p] = s
      BY <1>9, <2>4, <3>1, <3>4
    <3>6. Leads(ns, a, b, K, key, p, s)
      BY <2>4, <3>1, <3>3, <3>4, LeadsOn
    <3> QED
      BY <2>2, <3>5, <3>6
  <2> QED
    BY <2>3, <2>4, NodeFields
<1>11. Leads(ns, a, b, K, key, r, F[r])
  <2>1. m[r] \in Nat
    BY <1>2, <1>3 DEF Falls
  <2> QED
    BY <1>2, <1>10, <2>1
<1>12. Ahead(D, a, b, K, key, r)
  <2> SUFFICES ASSUME NEW q \in D, b[r] < a[q] PROVE FALSE
    BY DEF Ahead
  <2> QED
    BY <1>1, <1>2 DEF Inside
<1>13. key \in K[r]
  BY <1>2
<1> QED
  BY <1>5, <1>11, <1>12, <1>13 DEF Leads, Descent, Last

-----------------------------------------------------------------------------
(* Room for new labels                                                     *)

\* Labels a2, b2 in the order of a, b.
SameOrder(D, a, b, a2, b2) ==
    /\ a2 \in [D -> Int] /\ b2 \in [D -> Int] /\ \A p \in D : a2[p] < b2[p]
    /\ \A p, q \in D : /\ Inside(a2, b2, q, p) <=> Inside(a, b, q, p)
                       /\ b2[p] < a2[q] <=> b[p] < a[q]

LEMMA ShapeReordered ==
    ASSUME NEW ns, NEW r, NEW a, NEW b, NEW K, TreeShape(ns, r, a, b, K),
           NEW a2, NEW b2, SameOrder(DOMAIN ns, a, b, a2, b2)
    PROVE  TreeShape(ns, r, a2, b2, K)
<1> DEFINE D == DOMAIN ns
<1>1. \A p, q \in D : /\ Inside(a2, b2, q, p) <=> Inside(a, b, q, p)
                      /\ b2[p] < a2[q] <=> b[p] < a[q]
  BY DEF SameOrder
<1>2. Labelled(D, a2, b2, K)
  BY DEF TreeShape, Labelled, SameOrder
<1>3. Rooted(D, r, a2, b2, K)
  BY <1>1 DEF TreeShape, Rooted
<1>4. Nested(D, a2, b2)
  BY <1>1 DEF TreeShape, Nested
<1>5. Ordered(D, a2, b2, K)
  BY <1>1 DEF TreeShape, Ordered
<1>6. Narrowing(D, a2, b2, K)
  BY <1>1 DEF TreeShape, Narrowing
<1>7. ASSUME NEW p \in D
      PROVE  PagePlaced(ns, a2, b2, K, p)
  <2>1. PagePlaced(ns, a, b, K, p)
    BY DEF TreeShape
  <2>2. \A i \in Slots(ns, p) : Kid(ns, p, i) \in D
    BY <2>1 DEF PagePlaced, KidsPlaced
  <2>3. KidsPlaced(ns, a2, b2, K, p)
    BY <1>1, <2>1, <2>2 DEF PagePlaced, KidsPlaced
  <2>4. KidsApart(ns, a2, b2, p)
    BY <1>1, <2>1, <2>2 DEF PagePlaced, KidsApart
  <2>5. KidsReach(ns, a2, b2, p)
    <3> SUFFICES ASSUME NEW q \in D, Inside(a2, b2, q, p)
                 PROVE  \E i \in Slots(ns, p) : \/ q = Kid(ns, p, i)
                                                \/ Inside(a2, b2, q, Kid(ns, p, i))
      BY DEF KidsReach
    <3>1. PICK i \in Slots(ns, p) : q = Kid(ns, p, i) \/ Inside(a, b, q, Kid(ns, p, i))
      BY <1>1, <2>1 DEF PagePlaced, KidsReach
    <3> QED
      BY <1>1, <2>2, <3>1
  <2> QED
    BY <2>1, <2>3, <2>4, <2>5 DEF PagePlaced
<1> QED
  BY <1>2, <1>3, <1>4, <1>5, <1>6, <1>7 DEF TreeShape

\* The chain depends on the order of the leaves only.
LEMMA ChainReordered ==
    ASSUME NEW ns, NEW ms, NEW a, NEW b, Chained(ns, a, b), NEW a2, NEW b2,
           Leaves(ms) = Leaves(ns),
           \A p \in Leaves(ns) : ms[p].next = ns[p].next /\ ms[p].prev = ns[p].prev,
           \A p, q \in Leaves(ns) : b2[p] < a2[q] <=> b[p] < a[q]
    PROVE  Chained(ms, a2, b2)
<1> SUFFICES ASSUME NEW p \in Leaves(ns)
             PROVE  NextLeaf(ms, a2, b2, p) /\ PrevLeaf(ms, a2, b2, p)
  BY DEF Chained
<1>1. NextLeaf(ns, a, b, p) /\ PrevLeaf(ns, a, b, p)
  BY DEF Chained
<1>2. NextLeaf(ms, a2, b2, p)
  BY <1>1 DEF NextLeaf
<1>3. PrevLeaf(ms, a2, b2, p)
  BY <1>1 DEF PrevLeaf
<1> QED
  BY <1>2, <1>3

Wide(D, f) == [p \in D |-> 4 * f[p]]

LEMMA ShapeWidened ==
    ASSUME NEW ns, NEW r, NEW a, NEW b, NEW K, TreeShape(ns, r, a, b, K), Chained(ns, a, b)
    PROVE  /\ TreeShape(ns, r, Wide(DOMAIN ns, a), Wide(DOMAIN ns, b), K)
           /\ Chained(ns, Wide(DOMAIN ns, a), Wide(DOMAIN ns, b))
           /\ \A p \in DOMAIN ns : Wide(DOMAIN ns, a)[p] = 4 * a[p] /\ Wide(DOMAIN ns, b)[p] = 4 * b[p]
<1> DEFINE D == DOMAIN ns
           a2 == Wide(D, a)
           b2 == Wide(D, b)
<1>1. \A p \in D : a[p] \in Int /\ b[p] \in Int /\ a[p] < b[p]
  BY LabelTypes DEF TreeShape
<1>2. \A p \in D : a2[p] = 4 * a[p] /\ b2[p] = 4 * b[p]
  BY DEF Wide
<1>3. a2 \in [D -> Int] /\ b2 \in [D -> Int] /\ \A p \in D : a2[p] < b2[p]
  BY <1>1 DEF Wide
<1>4. ASSUME NEW p \in D, NEW q \in D
      PROVE  (Inside(a2, b2, q, p) <=> Inside(a, b, q, p)) /\ (b2[p] < a2[q] <=> b[p] < a[q])
  <2>1. /\ a[p] \in Int /\ b[p] \in Int /\ a[q] \in Int /\ b[q] \in Int
        /\ a2[p] = 4 * a[p] /\ b2[p] = 4 * b[p] /\ a2[q] = 4 * a[q] /\ b2[q] = 4 * b[q]
    BY <1>1, <1>2
  <2> QED
    BY <2>1 DEF Inside
<1>5. SameOrder(D, a, b, a2, b2)
  BY <1>3, <1>4 DEF SameOrder
<1>6. TreeShape(ns, r, a2, b2, K)
  BY <1>5, ShapeReordered
<1>7. Chained(ns, a2, b2)
  <2>1. \A p, q \in Leaves(ns) : b2[p] < a2[q] <=> b[p] < a[q]
    BY <1>4 DEF Leaves
  <2> HIDE DEF a2, b2
  <2> QED
    BY <2>1, ChainReordered
<1> QED
  BY <1>2, <1>6, <1>7

LEMMA LabelsSplit ==
    ASSUME NEW D, NEW a, NEW b, NEW K, Labelled(D, a, b, K), NEW right, right \notin D,
           NEW p \in D, NEW m1 \in Int, NEW m2 \in Int, a[p] < m1, m1 < m2, m2 < b[p],
           NEW s \in K[p], \A q \in D : Inside(a, b, q, p) => b[q] < m1 \/ m2 < a[q]
    PROVE  \E a2, b2, K2 : Relabelled(D, right, p, m1, m2, s, a, b, K, a2, b2, K2)
<1> DEFINE E == D \cup {right}
           a2 == [q \in E |-> IF q = right THEN m2 ELSE a[q]]
           b2 == [q \in E |-> IF q = right THEN b[p] ELSE IF q = p THEN m1 ELSE b[q]]
           K2 == [q \in E |-> IF q = right THEN {k \in K[p] : s <= k}
                              ELSE IF q = p THEN {k \in K[p] : k <= s} ELSE K[q]]
<1>1. \A q \in D : a[q] \in Int /\ b[q] \in Int /\ K[q] \subseteq Int
  BY LabelTypes
<1>2. a2 \in [E -> Int] /\ b2 \in [E -> Int]
  BY <1>1
<1>3. K2 \in [E -> SUBSET Int]
  BY <1>1
<1>4. Relabelled(D, right, p, m1, m2, s, a, b, K, a2, b2, K2)
  BY <1>2, <1>3 DEF Relabelled
<1> HIDE DEF a2, b2, K2
<1> QED
  BY <1>4

-----------------------------------------------------------------------------
(* The halves of a page                                                    *)

\* The halves of a leaf: the right one begins with the entry at `at`.
LeafHalves(ns, ms, p, right, at) ==
    /\ ms[p].leaf /\ ms[right].leaf
    /\ Width(ms, p) = at - 1 /\ Width(ms, right) = Width(ns, p) - at + 1
    /\ \A i \in 1..at - 1 : Key(ms, p, i) = Key(ns, p, i)
    /\ \A i \in 1..Width(ns, p) - at + 1 : Key(ms, right, i) = Key(ns, p, at + i - 1)

LEMMA LeafHalved ==
    ASSUME NEW ns, NEW r, NEW a, NEW b, NEW K, TreeShape(ns, r, a, b, K),
           NEW right, NEW p \in Leaves(ns), NEW m1, NEW m2, NEW s, NEW a2, NEW b2, NEW K2,
           Relabelled(DOMAIN ns, right, p, m1, m2, s, a, b, K, a2, b2, K2),
           NEW ms, DOMAIN ms = DOMAIN ns \cup {right},
           NEW at \in 1..Width(ns, p), s = Key(ns, p, at), LeafHalves(ns, ms, p, right, at)
    PROVE  Halved(ms, right, p, a2, b2, K2)
<1> DEFINE D == DOMAIN ns
           W == Width(ns, p)
<1>1. /\ p \in D /\ ns[p].leaf /\ right \notin D
  BY DEF Leaves, Relabelled
<1>2. /\ W \in Nat /\ \A i \in 1..W : Key(ns, p, i) \in K[p]
      /\ \A i, j \in 1..W : i < j => Key(ns, p, i) <= Key(ns, p, j)
  BY <1>1 DEF TreeShape, PagePlaced, KeysPlaced
<1>3. K[p] \subseteq Int /\ Labelled(D, a, b, K) /\ Nested(D, a, b)
  BY <1>1, LabelTypes DEF TreeShape
<1>4. Slots(ms, p) = {} /\ Slots(ms, right) = {}
  BY DEF LeafHalves, Slots
<1>5. /\ \A k : k \in K2[p] <=> k \in K[p] /\ k <= s
      /\ \A k : k \in K2[right] <=> k \in K[p] /\ s <= k
  BY DEF Relabelled
<1>6. \A i \in 1..W : (i <= at => Key(ns, p, i) <= s) /\ (at <= i => s <= Key(ns, p, i))
  <2>1. ASSUME NEW i \in 1..W
        PROVE  (i <= at => Key(ns, p, i) <= s) /\ (at <= i => s <= Key(ns, p, i))
    <3>1. CASE i = at
      BY <1>2, <1>3, <3>1
    <3>2. CASE i < at
      BY <1>2, <3>2
    <3>3. CASE at < i
      BY <1>2, <3>3
    <3> QED
      BY <1>2, <3>1, <3>2, <3>3
  <2> QED
    BY <2>1
<1>7. KeysPlaced(ms, K2, p)
  <2>1. Width(ms, p) \in Nat /\ Width(ms, p) = at - 1
    BY <1>2 DEF LeafHalves
  <2>2. \A i \in 1..at - 1 : i \in 1..W /\ i <= at /\ Key(ms, p, i) = Key(ns, p, i)
    BY <1>2 DEF LeafHalves
  <2>3. \A i \in 1..at - 1 : Key(ms, p, i) \in K2[p]
    BY <1>2, <1>5, <1>6, <2>2
  <2>4. \A i, j \in 1..at - 1 : i < j => Key(ms, p, i) <= Key(ms, p, j)
    BY <1>2, <2>2
  <2> QED
    BY <2>1, <2>3, <2>4 DEF KeysPlaced
<1>8. KeysPlaced(ms, K2, right)
  <2> DEFINE V == W - at + 1
  <2>1. Width(ms, right) \in Nat /\ Width(ms, right) = V
    BY <1>2 DEF LeafHalves
  <2>2. \A i \in 1..V : /\ at + i - 1 \in 1..W /\ at <= at + i - 1
                        /\ Key(ms, right, i) = Key(ns, p, at + i - 1)
    BY <1>2 DEF LeafHalves
  <2>3. \A i, j \in 1..V : i < j => at + i - 1 < at + j - 1
    BY <1>2
  <2> HIDE DEF V
  <2>4. \A i \in 1..V : Key(ms, right, i) \in K2[right]
    BY <1>2, <1>5, <1>6, <2>2
  <2>5. \A i, j \in 1..V : i < j => Key(ms, right, i) <= Key(ms, right, j)
    BY <1>2, <2>2, <2>3
  <2> QED
    BY <2>1, <2>4, <2>5 DEF KeysPlaced
<1>9. ASSUME NEW h \in {p, right}, NEW x \in D \cup {right}, Inside(a2, b2, x, h)
      PROVE  FALSE
  <2>1. Labelled(D \cup {right}, a2, b2, K2)
    BY <1>3, SplitLabelled
  <2>2. /\ a2[p] \in Int /\ b2[p] \in Int /\ a2[right] \in Int /\ b2[right] \in Int
        /\ a2[p] < b2[p] /\ a2[right] < b2[right] /\ a2[x] \in Int /\ b2[x] \in Int
        /\ a2[x] < b2[x] /\ b2[p] < a2[right]
    BY <1>1, <2>1, LabelTypes DEF Relabelled
  <2>3. x # p /\ x # right
    BY <1>9, <2>2 DEF Inside
  <2>4. ~Inside(a, b, x, p)
    BY <1>1, <2>3 DEF TreeShape, PagePlaced, KidsReach, Slots
  <2>5. \/ b2[x] < a2[p] /\ b2[x] < a2[right]
        \/ b2[p] < a2[x] /\ b2[right] < a2[x]
        \/ Inside(a2, b2, p, x) /\ Inside(a2, b2, right, x)
    BY <1>3, <2>3, <2>4, SplitPlaces
  <2> QED
    BY <1>9, <2>2, <2>5 DEF Inside
<1>10. KidsReach(ms, a2, b2, p) /\ KidsReach(ms, a2, b2, right)
  BY <1>9 DEF KidsReach
<1> QED
  BY <1>4, <1>7, <1>8, <1>10 DEF Halved, PagePlaced, KidsPlaced, KidsApart

\* The halves of an internal node: the median goes up.
InternalHalves(ns, ms, p, right, at) ==
    /\ ~ms[p].leaf /\ ~ms[right].leaf
    /\ Width(ms, p) = at - 1 /\ Width(ms, right) = Width(ns, p) - at
    /\ \A i \in 1..at - 1 : Key(ms, p, i) = Key(ns, p, i)
    /\ \A i \in 1..at : Kid(ms, p, i) = Kid(ns, p, i)
    /\ \A i \in 1..Width(ns, p) - at : Key(ms, right, i) = Key(ns, p, at + i)
    /\ \A i \in 1..Width(ns, p) - at + 1 : Kid(ms, right, i) = Kid(ns, p, at + i)

\* The children around the cut.
CutBetween(ns, a, b, p, at, m1, m2) == b[Kid(ns, p, at)] < m1 /\ m2 < a[Kid(ns, p, at + 1)]

LEMMA CutKids ==
    ASSUME NEW ns, NEW r, NEW a, NEW b, NEW K, TreeShape(ns, r, a, b, K),
           NEW p \in DOMAIN ns, ~ns[p].leaf, NEW at \in 1..Width(ns, p),
           NEW m1 \in Int, NEW m2 \in Int, CutBetween(ns, a, b, p, at, m1, m2)
    PROVE  /\ \A i \in 1..Width(ns, p) + 1 :
                  (i <= at => b[Kid(ns, p, i)] < m1) /\ (i > at => m2 < a[Kid(ns, p, i)])
           /\ \A q \in DOMAIN ns : Inside(a, b, q, p) => b[q] < m1 \/ m2 < a[q]
<1> DEFINE D == DOMAIN ns
           W == Width(ns, p)
<1>1. W \in Nat /\ Slots(ns, p) = 1..W + 1 /\ PagePlaced(ns, a, b, K, p)
  BY DEF TreeShape, PagePlaced, KeysPlaced, Slots
<1>2. \A q \in D : a[q] \in Int /\ b[q] \in Int /\ a[q] < b[q]
  BY LabelTypes DEF TreeShape
<1>3. \A i \in 1..W + 1 : Kid(ns, p, i) \in D
  BY <1>1 DEF PagePlaced, KidsPlaced
<1>4. \A i, j \in 1..W + 1 : i < j => b[Kid(ns, p, i)] < a[Kid(ns, p, j)]
  BY <1>1 DEF PagePlaced, KidsApart
<1>5. at \in 1..W + 1 /\ at + 1 \in 1..W + 1
  BY <1>1
<1>6. ASSUME NEW i \in 1..W + 1
      PROVE  (i <= at => b[Kid(ns, p, i)] < m1) /\ (i > at => m2 < a[Kid(ns, p, i)])
  <2> DEFINE c == Kid(ns, p, i)
             d == Kid(ns, p, at)
             e == Kid(ns, p, at + 1)
  <2>1. /\ a[c] \in Int /\ b[c] \in Int /\ a[c] < b[c] /\ a[d] \in Int /\ b[d] \in Int
        /\ a[d] < b[d] /\ a[e] \in Int /\ b[e] \in Int /\ a[e] < b[e]
    BY <1>2, <1>3, <1>5
  <2>2. b[d] < m1 /\ m2 < a[e]
    BY DEF CutBetween
  <2>3. i < at => b[c] < a[d]
    BY <1>4, <1>5
  <2>4. i > at + 1 => b[e] < a[c]
    BY <1>4, <1>5
  <2>5. (i = at => c = d) /\ (i = at + 1 => c = e)
    OBVIOUS
  <2>6. i < at \/ i = at \/ i = at + 1 \/ i > at + 1
    BY <1>1
  <2> HIDE DEF c, d, e
  <2>7. (i <= at => b[c] < m1) /\ (i > at => m2 < a[c])
    BY <1>1, <2>1, <2>2, <2>3, <2>4, <2>5, <2>6
  <2> QED
    BY <2>7 DEF c
<1>7. ASSUME NEW q \in D, Inside(a, b, q, p)
      PROVE  b[q] < m1 \/ m2 < a[q]
  <2>1. PICK i \in 1..W + 1 : q = Kid(ns, p, i) \/ Inside(a, b, q, Kid(ns, p, i))
    BY <1>1, <1>7 DEF PagePlaced, KidsReach
  <2>2. PICK c : c = Kid(ns, p, i)
    OBVIOUS
  <2>3. /\ a[c] \in Int /\ b[c] \in Int /\ a[q] \in Int /\ b[q] \in Int
        /\ b[q] <= b[c] /\ a[c] <= a[q]
    BY <1>2, <1>3, <2>1, <2>2 DEF Inside
  <2>4. b[c] < m1 \/ m2 < a[c]
    BY <1>1, <1>6, <2>2
  <2> QED
    BY <2>3, <2>4
<1> QED
  BY <1>6, <1>7

LEMMA InternalHalved ==
    ASSUME NEW ns, NEW r, NEW a, NEW b, NEW K, TreeShape(ns, r, a, b, K),
           NEW right, NEW p \in DOMAIN ns, ~ns[p].leaf,
           NEW m1, NEW m2, NEW s, NEW a2, NEW b2, NEW K2,
           Relabelled(DOMAIN ns, right, p, m1, m2, s, a, b, K, a2, b2, K2),
           NEW ms, DOMAIN ms = DOMAIN ns \cup {right},
           NEW at \in 1..Width(ns, p), s = Key(ns, p, at), CutBetween(ns, a, b, p, at, m1, m2),
           InternalHalves(ns, ms, p, right, at)
    PROVE  Halved(ms, right, p, a2, b2, K2)
<1> DEFINE D == DOMAIN ns
           W == Width(ns, p)
           kid(i) == Kid(ns, p, i)
           key(i) == Key(ns, p, i)
<1>1. W \in Nat /\ Slots(ns, p) = 1..W + 1 /\ PagePlaced(ns, a, b, K, p)
  BY DEF TreeShape, PagePlaced, KeysPlaced, Slots
<1>2. /\ \A i \in 1..W : key(i) \in K[p]
      /\ \A i, j \in 1..W : i < j => key(i) <= key(j)
  BY <1>1 DEF PagePlaced, KeysPlaced
<1>3. /\ Labelled(D, a, b, K) /\ Nested(D, a, b) /\ m1 \in Int /\ m2 \in Int /\ right \notin D
      /\ a2[p] = a[p] /\ b2[p] = m1 /\ a2[right] = m2 /\ b2[right] = b[p] /\ m1 < m2
  BY DEF TreeShape, Relabelled
<1>4. \A q \in D : a[q] \in Int /\ b[q] \in Int /\ a[q] < b[q] /\ K[q] \subseteq Int
  BY <1>3, LabelTypes
<1>5. \A i \in 1..W + 1 : kid(i) \in D /\ Inside(a, b, kid(i), p) /\ K[kid(i)] = Allowed(ns, K, p, i)
  BY <1>1 DEF PagePlaced, KidsPlaced
<1>6. \A i, j \in 1..W + 1 : i < j => b[kid(i)] < a[kid(j)]
  BY <1>1 DEF PagePlaced, KidsApart
<1>7. \A i \in 1..W + 1 : (i <= at => b[kid(i)] < m1) /\ (i > at => m2 < a[kid(i)])
  BY <1>3, CutKids
<1>8. \A i \in 1..W + 1 : a2[kid(i)] = a[kid(i)] /\ b2[kid(i)] = b[kid(i)] /\ K2[kid(i)] = K[kid(i)]
  <2>1. ASSUME NEW i \in 1..W + 1
        PROVE  a2[kid(i)] = a[kid(i)] /\ b2[kid(i)] = b[kid(i)] /\ K2[kid(i)] = K[kid(i)]
    <3>1. kid(i) \in D /\ kid(i) # p
      BY <1>4, <1>5 DEF Inside
    <3> QED
      BY <3>1 DEF Relabelled
  <2> QED
    BY <2>1
<1>9. /\ \A k : k \in K2[p] <=> k \in K[p] /\ k <= s
      /\ \A k : k \in K2[right] <=> k \in K[p] /\ s <= k
  BY DEF Relabelled
<1>10. \A i \in 1..W : (i <= at => key(i) <= s) /\ (at <= i => s <= key(i))
  <2>1. ASSUME NEW i \in 1..W
        PROVE  (i <= at => key(i) <= s) /\ (at <= i => s <= key(i))
    <3>1. CASE i = at
      BY <1>2, <1>4, <3>1
    <3>2. CASE i < at
      BY <1>2, <3>2
    <3>3. CASE at < i
      BY <1>2, <3>3
    <3> QED
      BY <1>1, <3>1, <3>2, <3>3
  <2> QED
    BY <2>1
<1>11. /\ Slots(ms, p) = 1..at /\ Width(ms, p) = at - 1
       /\ Slots(ms, right) = 1..W - at + 1 /\ Width(ms, right) = W - at
  BY <1>1 DEF InternalHalves, Slots
<1>12. \A i \in 1..at : Kid(ms, p, i) = kid(i) /\ i \in 1..W + 1 /\ i <= at
  BY <1>1 DEF InternalHalves
<1>13. \A i \in 1..at - 1 : Key(ms, p, i) = key(i) /\ i \in 1..W /\ i <= at
  BY <1>1 DEF InternalHalves
<1>14. \A i \in 1..W - at + 1 : Kid(ms, right, i) = kid(at + i) /\ at + i \in 1..W + 1 /\ at + i > at
  BY <1>1 DEF InternalHalves
<1>15. \A i \in 1..W - at : Key(ms, right, i) = key(at + i) /\ at + i \in 1..W /\ at <= at + i
  BY <1>1 DEF InternalHalves
<1> HIDE DEF kid, key
<1>16. KeysPlaced(ms, K2, p)
  <2>1. Width(ms, p) \in Nat
    BY <1>1, <1>11
  <2>2. \A i \in 1..at - 1 : Key(ms, p, i) \in K2[p]
    BY <1>2, <1>9, <1>10, <1>13
  <2>3. \A i, j \in 1..at - 1 : i < j => Key(ms, p, i) <= Key(ms, p, j)
    BY <1>2, <1>13
  <2> QED
    BY <1>11, <2>1, <2>2, <2>3 DEF KeysPlaced
<1>17. KeysPlaced(ms, K2, right)
  <2>1. Width(ms, right) \in Nat
    BY <1>1, <1>11
  <2>2. \A i \in 1..W - at : Key(ms, right, i) \in K2[right]
    BY <1>2, <1>9, <1>10, <1>15
  <2>3. \A i, j \in 1..W - at : i < j => at + i < at + j
    BY <1>1
  <2>4. \A i, j \in 1..W - at : i < j => Key(ms, right, i) <= Key(ms, right, j)
    BY <1>2, <1>15, <2>3
  <2> QED
    BY <1>11, <2>1, <2>2, <2>4 DEF KeysPlaced
<1>18. KidsApart(ms, a2, b2, p)
  BY <1>6, <1>8, <1>11, <1>12 DEF KidsApart
<1>19. KidsApart(ms, a2, b2, right)
  <2>1. \A i, j \in 1..W - at + 1 : i < j => at + i < at + j
    BY <1>1
  <2> QED
    BY <1>6, <1>8, <1>11, <1>14, <2>1 DEF KidsApart
<1>20. KidsPlaced(ms, a2, b2, K2, p)
  <2> SUFFICES ASSUME NEW i \in 1..at
               PROVE  /\ Kid(ms, p, i) \in DOMAIN ms /\ Inside(a2, b2, Kid(ms, p, i), p)
                      /\ K2[Kid(ms, p, i)] = Allowed(ms, K2, p, i)
    BY <1>11 DEF KidsPlaced
  <2>1. Kid(ms, p, i) = kid(i) /\ i \in 1..W + 1 /\ i <= at
    BY <1>12
  <2>2. Inside(a2, b2, kid(i), p)
    BY <1>3, <1>5, <1>7, <1>8, <2>1 DEF Inside
  <2>3. \A k : k \in K[kid(i)] <=> /\ k \in K[p]
                                   /\ i > 1 => key(i - 1) <= k
                                   /\ i <= W => k <= key(i)
    BY <1>5, <2>1 DEF Allowed, key
  <2>4. Allowed(ms, K2, p, i) = {k \in K2[p] : /\ i > 1 => Key(ms, p, i - 1) <= k
                                               /\ i <= at - 1 => k <= Key(ms, p, i)}
    BY <1>11 DEF Allowed
  <2>5. i > 1 => Key(ms, p, i - 1) = key(i - 1)
    BY <1>1, <1>13
  <2>6. i <= at - 1 => Key(ms, p, i) = key(i) /\ key(i) <= s /\ i <= W /\ key(i) \in Int
    <3>1. i <= at - 1 => i \in 1..at - 1 /\ i \in 1..W /\ i <= W
      BY <1>1
    <3>2. i \in 1..W => key(i) \in Int
      BY <1>2, <1>4
    <3> QED
      BY <1>10, <1>13, <3>1, <3>2
  <2>7. ~(i <= at - 1) => i = at /\ i <= W /\ key(i) = s
    BY <1>1 DEF key
  <2>8. ASSUME NEW k \in K[p]
        PROVE  (i <= W => k <= key(i)) <=> (k <= s /\ (i <= at - 1 => k <= Key(ms, p, i)))
    <3>1. k \in Int /\ s \in Int
      BY <1>2, <1>4 DEF key
    <3> QED
      BY <2>6, <2>7, <3>1
  <2>9. K[kid(i)] = Allowed(ms, K2, p, i)
    BY <1>9, <2>3, <2>4, <2>5, <2>8
  <2> QED
    BY <1>5, <1>8, <2>1, <2>2, <2>9
<1>21. KidsPlaced(ms, a2, b2, K2, right)
  <2> SUFFICES ASSUME NEW i \in 1..W - at + 1
               PROVE  /\ Kid(ms, right, i) \in DOMAIN ms /\ Inside(a2, b2, Kid(ms, right, i), right)
                      /\ K2[Kid(ms, right, i)] = Allowed(ms, K2, right, i)
    BY <1>11 DEF KidsPlaced
  <2>1. PICK h : h = at + i
    OBVIOUS
  <2>2. Kid(ms, right, i) = kid(h) /\ h \in 1..W + 1 /\ h > at /\ h > 1 /\ h - 1 = at + (i - 1)
    BY <1>1, <1>14, <2>1
  <2>3. Inside(a2, b2, kid(h), right)
    BY <1>3, <1>5, <1>7, <1>8, <2>2 DEF Inside
  <2>4. \A k : k \in K[kid(h)] <=> /\ k \in K[p]
                                   /\ key(h - 1) <= k
                                   /\ h <= W => k <= key(h)
    BY <1>5, <2>2 DEF Allowed, key
  <2>5. Allowed(ms, K2, right, i) = {k \in K2[right] : /\ i > 1 => Key(ms, right, i - 1) <= k
                                                       /\ i <= W - at => k <= Key(ms, right, i)}
    BY <1>11 DEF Allowed
  <2>6. (h <= W <=> i <= W - at) /\ (i <= W - at => Key(ms, right, i) = key(h))
    BY <1>1, <1>15, <2>1
  <2>7. i > 1 => Key(ms, right, i - 1) = key(h - 1)
    <3>1. i > 1 => i - 1 \in 1..W - at
      BY <1>1
    <3> QED
      BY <1>15, <2>2, <3>1
  <2>8. h - 1 \in 1..W /\ at <= h - 1
    BY <1>1, <2>2
  <2>9. s <= key(h - 1) /\ key(h - 1) \in Int
    BY <1>2, <1>4, <1>10, <2>8
  <2>10. ~(i > 1) => key(h - 1) = s
    <3>1. ~(i > 1) => h - 1 = at
      BY <1>1, <2>1
    <3> QED
      BY <3>1 DEF key
  <2>11. ASSUME NEW k \in K[p]
         PROVE  key(h - 1) <= k <=> (s <= k /\ (i > 1 => Key(ms, right, i - 1) <= k))
    <3>1. k \in Int /\ s \in Int
      BY <1>2, <1>4 DEF key
    <3> QED
      BY <2>7, <2>9, <2>10, <3>1
  <2>12. K[kid(h)] = Allowed(ms, K2, right, i)
    BY <1>9, <2>4, <2>5, <2>6, <2>11
  <2> QED
    BY <1>5, <1>8, <2>2, <2>3, <2>12
<1>22. ASSUME NEW g \in {p, right}, NEW x \in D \cup {right}, Inside(a2, b2, x, g)
       PROVE  \E i \in 1..W + 1 : /\ x = kid(i) \/ Inside(a2, b2, x, kid(i))
                                  /\ IF g = p THEN i <= at ELSE i > at
  <2>1. Labelled(D \cup {right}, a2, b2, K2)
    BY <1>3, SplitLabelled
  <2>2. /\ a2[p] \in Int /\ b2[p] \in Int /\ a2[right] \in Int /\ b2[right] \in Int
        /\ a2[p] < b2[p] /\ a2[right] < b2[right] /\ a2[x] \in Int /\ b2[x] \in Int
        /\ a2[x] < b2[x]
    BY <2>1, LabelTypes
  <2>3. x # p /\ x # right
    BY <1>3, <1>22, <2>2 DEF Inside
  <2>4. x \in D /\ a2[x] = a[x] /\ b2[x] = b[x]
    BY <2>3 DEF Relabelled
  <2>5. Inside(a, b, x, p)
    <3>1. \/ b2[x] < a2[p] /\ b2[x] < a2[right]
          \/ b2[p] < a2[x] /\ b2[right] < a2[x]
          \/ Inside(a2, b2, p, x) /\ Inside(a2, b2, right, x)
          \/ Inside(a, b, x, p)
      BY <1>3, <2>3, <2>4, SplitPlaces
    <3> QED
      BY <1>3, <1>22, <2>2, <3>1 DEF Inside
  <2>6. PICK i \in 1..W + 1 : x = kid(i) \/ Inside(a, b, x, kid(i))
    BY <1>1, <2>4, <2>5 DEF PagePlaced, KidsReach, kid
  <2>7. x = kid(i) \/ Inside(a2, b2, x, kid(i))
    BY <1>8, <2>4, <2>6 DEF Inside
  <2>8. PICK c : c = kid(i)
    OBVIOUS
  <2>9. /\ a[c] \in Int /\ b[c] \in Int /\ a[c] <= a[x] /\ b[x] <= b[c]
        /\ (i <= at => b[c] < m1) /\ (i > at => m2 < a[c])
    BY <1>4, <1>5, <1>7, <2>2, <2>4, <2>6, <2>8 DEF Inside
  <2>10. g = p => i <= at
    BY <1>1, <1>3, <1>22, <2>2, <2>4, <2>9 DEF Inside
  <2>11. g # p => i > at
    BY <1>1, <1>3, <1>22, <2>2, <2>4, <2>9 DEF Inside
  <2> QED
    BY <2>7, <2>10, <2>11
<1>23. KidsReach(ms, a2, b2, p)
  <2> SUFFICES ASSUME NEW x \in D \cup {right}, Inside(a2, b2, x, p)
               PROVE  \E i \in 1..at : x = Kid(ms, p, i) \/ Inside(a2, b2, x, Kid(ms, p, i))
    BY <1>11 DEF KidsReach
  <2>1. PICK i \in 1..W + 1 : (x = kid(i) \/ Inside(a2, b2, x, kid(i))) /\ i <= at
    BY <1>22
  <2>2. i \in 1..at
    BY <1>1, <2>1
  <2> QED
    BY <1>12, <2>1, <2>2
<1>24. KidsReach(ms, a2, b2, right)
  <2> SUFFICES ASSUME NEW x \in D \cup {right}, Inside(a2, b2, x, right)
               PROVE  \E i \in 1..W - at + 1 :
                          x = Kid(ms, right, i) \/ Inside(a2, b2, x, Kid(ms, right, i))
    BY <1>11 DEF KidsReach
  <2>1. PICK i \in 1..W + 1 : (x = kid(i) \/ Inside(a2, b2, x, kid(i))) /\ i > at
    BY <1>3, <1>22
  <2>2. i - at \in 1..W - at + 1 /\ at + (i - at) = i
    BY <1>1, <2>1
  <2>3. Kid(ms, right, i - at) = kid(i)
    BY <1>14, <2>2
  <2> QED
    BY <2>1, <2>2, <2>3
<1> QED
  BY <1>16, <1>17, <1>18, <1>19, <1>20, <1>21, <1>23, <1>24 DEF Halved, PagePlaced

-----------------------------------------------------------------------------
(* A new root                                                              *)

SameLabels(D, a, b, K, a2, b2, K2) == \A q \in D : a2[q] = a[q] /\ b2[q] = b[q] /\ K2[q] = K[q]

LEMMA RootAdded ==
    ASSUME NEW ns, NEW r, NEW a, NEW b, NEW K, TreeShape(ns, r, a, b, K),
           NEW top, top \notin DOMAIN ns, NEW ms, DOMAIN ms = DOMAIN ns \cup {top},
           Kept(ns, ms, top, top), ~ms[top].leaf, Width(ms, top) = 0, Kid(ms, top, 1) = r
    PROVE  \E a2, b2, K2 :
               TreeShape(ms, top, a2, b2, K2) /\ SameLabels(DOMAIN ns, a, b, K, a2, b2, K2)
<1> DEFINE D == DOMAIN ns
           E == D \cup {top}
           a2 == [q \in E |-> IF q = top THEN a[r] - 1 ELSE a[q]]
           b2 == [q \in E |-> IF q = top THEN b[r] + 1 ELSE b[q]]
           K2 == [q \in E |-> IF q = top THEN Int ELSE K[q]]
<1>1. \A q \in D : a[q] \in Int /\ b[q] \in Int /\ a[q] < b[q] /\ K[q] \subseteq Int
  BY LabelTypes DEF TreeShape
<1>2. r \in D /\ K[r] = Int /\ \A p \in D : p # r => Inside(a, b, p, r)
  BY DEF TreeShape, Rooted
<1>3. \A q \in D : a2[q] = a[q] /\ b2[q] = b[q] /\ K2[q] = K[q]
  OBVIOUS
<1>4. a2[top] = a[r] - 1 /\ b2[top] = b[r] + 1 /\ K2[top] = Int
  OBVIOUS
<1>5. Labelled(E, a2, b2, K2)
  <2>1. a2 \in [E -> Int] /\ b2 \in [E -> Int]
    BY <1>1, <1>2
  <2>2. K2 \in [E -> SUBSET Int]
    BY <1>1
  <2>3. \A q \in E : a2[q] < b2[q]
    BY <1>1, <1>2
  <2> QED
    BY <2>1, <2>2, <2>3 DEF Labelled
<1> HIDE DEF a2, b2, K2
<1>6. \A q \in D : a[r] <= a[q] /\ b[q] <= b[r]
  BY <1>1, <1>2 DEF Inside
<1>7. \A q \in D : Inside(a2, b2, q, top)
  <2>1. ASSUME NEW q \in D
        PROVE  Inside(a2, b2, q, top)
    <3>1. /\ a[r] \in Int /\ b[r] \in Int /\ a[q] \in Int /\ b[q] \in Int
          /\ a[r] <= a[q] /\ b[q] <= b[r]
      BY <1>1, <1>2, <1>6
    <3> QED
      BY <1>3, <1>4, <3>1 DEF Inside
  <2> QED
    BY <2>1
<1>8. \A p, q \in D : /\ Inside(a2, b2, q, p) <=> Inside(a, b, q, p)
                      /\ b2[p] < a2[q] <=> b[p] < a[q]
  BY <1>3 DEF Inside
<1>9. \A q \in D : ~(b2[q] < a2[top]) /\ ~(b2[top] < a2[q]) /\ ~Inside(a2, b2, top, q)
  <2>1. ASSUME NEW q \in D
        PROVE  ~(b2[q] < a2[top]) /\ ~(b2[top] < a2[q]) /\ ~Inside(a2, b2, top, q)
    <3>1. /\ a2[q] \in Int /\ b2[q] \in Int /\ a2[q] < b2[q] /\ a2[top] \in Int /\ b2[top] \in Int
      BY <1>5, LabelTypes
    <3> QED
      BY <1>7, <3>1 DEF Inside
  <2> QED
    BY <2>1
<1>10. ~(b2[top] < a2[top]) /\ ~Inside(a2, b2, top, top)
  BY <1>5, LabelTypes DEF Inside
<1>11. Rooted(E, top, a2, b2, K2)
  BY <1>4, <1>7 DEF Rooted
<1>12. Nested(E, a2, b2)
  <2>1. ASSUME NEW p \in E, NEW q \in E, p # q
        PROVE  \/ b2[p] < a2[q] \/ b2[q] < a2[p] \/ Inside(a2, b2, q, p) \/ Inside(a2, b2, p, q)
    <3>1. CASE p \in D /\ q \in D
      BY <1>8, <2>1, <3>1 DEF TreeShape, Nested
    <3>2. CASE p = top \/ q = top
      BY <1>7, <2>1, <3>2
    <3> QED
      BY <3>1, <3>2
  <2> QED
    BY <2>1 DEF Nested
<1>13. Ordered(E, a2, b2, K2)
  <2>1. ASSUME NEW p \in E, NEW q \in E, b2[p] < a2[q]
        PROVE  \A x \in K2[p], y \in K2[q] : x <= y
    <3>1. p \in D /\ q \in D
      BY <1>9, <1>10, <2>1
    <3> QED
      BY <1>3, <1>8, <2>1, <3>1 DEF TreeShape, Ordered
  <2> QED
    BY <2>1 DEF Ordered
<1>14. Narrowing(E, a2, b2, K2)
  <2>1. ASSUME NEW p \in E, NEW q \in E, Inside(a2, b2, q, p)
        PROVE  K2[q] \subseteq K2[p]
    <3>1. q \in D
      BY <1>9, <1>10, <2>1
    <3>2. CASE p = top
      BY <1>1, <1>3, <1>4, <3>1, <3>2
    <3>3. CASE p \in D
      BY <1>3, <1>8, <2>1, <3>1, <3>3 DEF TreeShape, Narrowing
    <3> QED
      BY <3>2, <3>3
  <2> QED
    BY <2>1 DEF Narrowing
<1>15. ASSUME NEW q \in D
       PROVE  PagePlaced(ms, a2, b2, K2, q)
  <2>1. PagePlaced(ns, a, b, K, q) /\ SamePage(ns, ms, q)
    BY DEF TreeShape, Kept
  <2>2. /\ Slots(ms, q) = Slots(ns, q)
        /\ \A i \in Slots(ns, q) : Allowed(ms, K2, q, i) = Allowed(ns, K2, q, i)
    BY <2>1, SameSlots DEF PagePlaced, KeysPlaced
  <2>3. \A i : Allowed(ns, K2, q, i) = Allowed(ns, K, q, i)
    BY <1>3 DEF Allowed
  <2>4. \A i \in Slots(ns, q) : /\ Kid(ms, q, i) = Kid(ns, q, i) /\ Kid(ns, q, i) \in D
                                /\ Inside(a, b, Kid(ns, q, i), q)
                                /\ K[Kid(ns, q, i)] = Allowed(ns, K, q, i)
    BY <2>1 DEF SamePage, PagePlaced, KidsPlaced
  <2>5. KidsPlaced(ms, a2, b2, K2, q)
    BY <1>3, <1>8, <2>2, <2>3, <2>4 DEF KidsPlaced
  <2>6. KidsApart(ms, a2, b2, q)
    BY <1>8, <2>1, <2>2, <2>4 DEF KidsApart, PagePlaced
  <2>7. KeysPlaced(ms, K2, q)
    BY <1>3, <2>1 DEF PagePlaced, KeysPlaced, SamePage
  <2>8. KidsReach(ms, a2, b2, q)
    <3> SUFFICES ASSUME NEW x \in E, Inside(a2, b2, x, q)
                 PROVE  \E i \in Slots(ns, q) : \/ x = Kid(ns, q, i)
                                                \/ Inside(a2, b2, x, Kid(ns, q, i))
      BY <2>2, <2>4 DEF KidsReach
    <3>1. x \in D /\ Inside(a, b, x, q)
      BY <1>8, <1>9
    <3>2. PICK i \in Slots(ns, q) : x = Kid(ns, q, i) \/ Inside(a, b, x, Kid(ns, q, i))
      BY <2>1, <3>1 DEF PagePlaced, KidsReach
    <3> QED
      BY <1>8, <2>4, <3>1, <3>2
  <2> QED
    BY <2>5, <2>6, <2>7, <2>8 DEF PagePlaced
<1>16. PagePlaced(ms, a2, b2, K2, top)
  <2>1. Slots(ms, top) = {1}
    BY DEF Slots
  <2>2. KidsPlaced(ms, a2, b2, K2, top)
    <3>1. Allowed(ms, K2, top, 1) = Int
      BY <1>4 DEF Allowed
    <3> QED
      BY <1>2, <1>3, <1>7, <2>1, <3>1 DEF KidsPlaced
  <2>3. KidsApart(ms, a2, b2, top)
    BY <2>1 DEF KidsApart
  <2>4. KeysPlaced(ms, K2, top)
    BY DEF KeysPlaced
  <2>5. KidsReach(ms, a2, b2, top)
    <3>1. ASSUME NEW x \in E, Inside(a2, b2, x, top)
          PROVE  x = r \/ Inside(a2, b2, x, r)
      <4>1. x \in D
        BY <1>10, <3>1
      <4> QED
        BY <1>2, <1>8, <4>1
    <3> QED
      BY <2>1, <3>1 DEF KidsReach
  <2> QED
    BY <2>2, <2>3, <2>4, <2>5 DEF PagePlaced
<1>17. TreeShape(ms, top, a2, b2, K2)
  BY <1>5, <1>11, <1>12, <1>13, <1>14, <1>15, <1>16 DEF TreeShape
<1>18. SameLabels(D, a, b, K, a2, b2, K2)
  BY <1>3 DEF SameLabels
<1> QED
  BY <1>17, <1>18

-----------------------------------------------------------------------------
(* The chain with a leaf split                                             *)

\* The right half is linked in behind the left one.
LinkedBehind(ns, ms, p, right) ==
    /\ Leaves(ms) = Leaves(ns) \cup {right}
    /\ ms[p].next = right /\ ms[p].prev = ns[p].prev
    /\ ms[right].next = ns[p].next /\ ms[right].prev = p
    /\ \A q \in Leaves(ns) : q # p =>
          /\ ms[q].next = ns[q].next
          /\ ms[q].prev = IF q = ns[p].next THEN right ELSE ns[q].prev

LEMMA LeafSplitOrder ==
    ASSUME NEW ns, NEW r, NEW a, NEW b, NEW K, TreeShape(ns, r, a, b, K),
           NEW right, NEW p \in Leaves(ns), NEW m1, NEW m2, NEW s, NEW a2, NEW b2, NEW K2,
           Relabelled(DOMAIN ns, right, p, m1, m2, s, a, b, K, a2, b2, K2)
    PROVE  /\ \A q \in Leaves(ns) : q # p =>
                 /\ b2[q] < a2[p] <=> b[q] < a[p]
                 /\ b2[q] < a2[right] <=> b[q] < a[p]
                 /\ b2[p] < a2[q] <=> b[p] < a[q]
                 /\ b2[right] < a2[q] <=> b[p] < a[q]
           /\ \A q, x \in Leaves(ns) : q # p /\ x # p => (b2[q] < a2[x] <=> b[q] < a[x])
           /\ b2[p] < a2[right] /\ ~(b2[right] < a2[p])
           /\ ~(b2[p] < a2[p]) /\ ~(b2[right] < a2[right])
<1> DEFINE D == DOMAIN ns
<1>1. p \in D /\ Labelled(D, a, b, K) /\ Nested(D, a, b)
  BY DEF Leaves, TreeShape
<1>2. Labelled(D \cup {right}, a2, b2, K2)
  BY <1>1, SplitLabelled
<1>3. /\ a2[p] \in Int /\ b2[p] \in Int /\ a2[right] \in Int /\ b2[right] \in Int
      /\ a2[p] < b2[p] /\ a2[right] < b2[right] /\ b2[p] < a2[right]
  BY <1>1, <1>2, LabelTypes DEF Relabelled
<1>4. ASSUME NEW q \in Leaves(ns), q # p
      PROVE  /\ b2[q] < a2[p] <=> b[q] < a[p]
             /\ b2[q] < a2[right] <=> b[q] < a[p]
             /\ b2[p] < a2[q] <=> b[p] < a[q]
             /\ b2[right] < a2[q] <=> b[p] < a[q]
  <2>1. q \in D /\ (b[p] < a[q] \/ b[q] < a[p]) /\ ~(b[p] < a[q] /\ b[q] < a[p])
    BY <1>4, LeavesApart
  <2>2. /\ a2[q] \in Int /\ b2[q] \in Int /\ a2[q] < b2[q]
        /\ a[q] \in Int /\ b[q] \in Int /\ a[q] < b[q]
        /\ a[p] \in Int /\ b[p] \in Int /\ a[p] < b[p]
    BY <1>1, <1>2, <2>1, LabelTypes
  <2>3. \/ b[q] < a[p] /\ b2[q] < a2[p] /\ b2[q] < a2[right]
        \/ b[p] < a[q] /\ b2[p] < a2[q] /\ b2[right] < a2[q]
        \/ Inside(a, b, p, q) \/ Inside(a, b, q, p)
    BY <1>1, <1>4, <2>1, SplitPlaces
  <2>4. ~Inside(a, b, p, q) /\ ~Inside(a, b, q, p)
    BY <2>1, <2>2 DEF Inside
  <2> QED
    BY <1>3, <2>1, <2>2, <2>3, <2>4
<1>5. \A q \in Leaves(ns) : q # p => a2[q] = a[q] /\ b2[q] = b[q]
  BY DEF Relabelled, Leaves
<1> QED
  BY <1>3, <1>4, <1>5

LEMMA LeafSplitChained ==
    ASSUME NEW ns, NEW r, NEW a, NEW b, NEW K, TreeShape(ns, r, a, b, K), Chained(ns, a, b),
           NEW right, NEW p \in Leaves(ns), NEW m1, NEW m2, NEW s, NEW a2, NEW b2, NEW K2,
           Relabelled(DOMAIN ns, right, p, m1, m2, s, a, b, K, a2, b2, K2),
           NEW ms, LinkedBehind(ns, ms, p, right), NO_PAGE \notin DOMAIN ns, right # NO_PAGE
    PROVE  Chained(ms, a2, b2)
<1> DEFINE L == Leaves(ns)
           lt(x, y) == b[x] < a[y]
           lt2(x, y) == b2[x] < a2[y]
<1>1. /\ \A q \in L : q # p => /\ lt2(q, p) <=> lt(q, p)
                               /\ lt2(q, right) <=> lt(q, p)
                               /\ lt2(p, q) <=> lt(p, q)
                               /\ lt2(right, q) <=> lt(p, q)
      /\ \A q, x \in L : q # p /\ x # p => (lt2(q, x) <=> lt(q, x))
      /\ lt2(p, right) /\ ~lt2(right, p) /\ ~lt2(p, p) /\ ~lt2(right, right)
  BY LeafSplitOrder
<1>2. \A x, y \in L : (x # y => lt(x, y) \/ lt(y, x)) /\ ~(lt(x, y) /\ lt(y, x))
  BY LeavesApart
<1>3. ASSUME NEW q \in L
      PROVE  IF ns[q].next = NO_PAGE THEN \A x \in L : ~lt(q, x)
             ELSE /\ ns[q].next \in L /\ lt(q, ns[q].next)
                  /\ \A x \in L : lt(q, x) => x = ns[q].next \/ lt(ns[q].next, x)
  BY DEF Chained, NextLeaf
<1>4. ASSUME NEW q \in L
      PROVE  IF ns[q].prev = NO_PAGE THEN \A x \in L : ~lt(x, q)
             ELSE /\ ns[q].prev \in L /\ lt(ns[q].prev, q)
                  /\ \A x \in L : lt(x, q) => x = ns[q].prev \/ lt(x, ns[q].prev)
  BY DEF Chained, PrevLeaf
<1>5. /\ Leaves(ms) = L \cup {right}
      /\ ms[p].next = right /\ ms[p].prev = ns[p].prev
      /\ ms[right].next = ns[p].next /\ ms[right].prev = p
      /\ \A q \in L : q # p => /\ ms[q].next = ns[q].next
                               /\ ms[q].prev = IF q = ns[p].next THEN right ELSE ns[q].prev
  BY DEF LinkedBehind
<1>6. p \in L /\ right \notin L /\ p # NO_PAGE
  BY DEF Leaves, Relabelled
<1> DEFINE Follows(q, n) ==
               IF n = NO_PAGE THEN \A x \in L \cup {right} : ~lt2(q, x)
               ELSE /\ n \in L \cup {right} /\ lt2(q, n)
                    /\ \A x \in L \cup {right} : lt2(q, x) => x = n \/ lt2(n, x)
           Leads2(q, n) ==
               IF n = NO_PAGE THEN \A x \in L \cup {right} : ~lt2(x, q)
               ELSE /\ n \in L \cup {right} /\ lt2(n, q)
                    /\ \A x \in L \cup {right} : lt2(x, q) => x = n \/ lt2(x, n)
<1>7. ASSUME NEW q \in L \cup {right}, Follows(q, ms[q].next), Leads2(q, ms[q].prev)
      PROVE  NextLeaf(ms, a2, b2, q) /\ PrevLeaf(ms, a2, b2, q)
  BY <1>5, <1>7 DEF NextLeaf, PrevLeaf
<1> HIDE DEF lt, lt2, L
<1>8. Follows(p, right)
  BY <1>1, <1>6
<1>9. Follows(right, ns[p].next)
  <2>1. CASE ns[p].next = NO_PAGE
    BY <1>1, <1>3, <1>6, <2>1
  <2>2. CASE ns[p].next # NO_PAGE
    <3>1. PICK n : n = ns[p].next
      OBVIOUS
    <3>2. n \in L /\ lt(p, n) /\ (\A x \in L : lt(p, x) => x = n \/ lt(n, x)) /\ n # NO_PAGE
      BY <1>3, <1>6, <2>2, <3>1
    <3>3. n # p
      BY <1>2, <3>2
    <3>4. Follows(right, n)
      BY <1>1, <1>6, <3>2, <3>3
    <3> QED
      BY <3>1, <3>4
  <2> QED
    BY <2>1, <2>2
<1>10. ASSUME NEW q \in L, q # p
       PROVE  Follows(q, ns[q].next)
  <2>1. CASE ns[q].next = NO_PAGE
    BY <1>1, <1>3, <1>6, <1>10, <2>1
  <2>2. CASE ns[q].next # NO_PAGE
    <3>1. PICK n : n = ns[q].next
      OBVIOUS
    <3>2. n \in L /\ lt(q, n) /\ (\A x \in L : lt(q, x) => x = n \/ lt(n, x)) /\ n # NO_PAGE
      BY <1>3, <2>2, <3>1
    <3>3. lt2(q, n)
      BY <1>1, <1>10, <3>2
    <3>4. ASSUME NEW x \in L \cup {right}, lt2(q, x)
          PROVE  x = n \/ lt2(n, x)
      <4>1. CASE x = right
        <5>1. p = n \/ lt(n, p)
          BY <1>1, <1>6, <1>10, <3>2, <3>4, <4>1
        <5> QED
          BY <1>1, <3>2, <4>1, <5>1
      <4>2. CASE x = p
        BY <1>1, <1>6, <1>10, <3>2, <3>4, <4>2
      <4>3. CASE x \in L /\ x # p
        BY <1>1, <1>10, <3>2, <3>4, <4>3
      <4> QED
        BY <4>1, <4>2, <4>3
    <3>5. Follows(q, n)
      BY <3>2, <3>3, <3>4
    <3> QED
      BY <3>1, <3>5
  <2> QED
    BY <2>1, <2>2
<1>11. Leads2(p, ns[p].prev)
  <2>1. CASE ns[p].prev = NO_PAGE
    BY <1>1, <1>4, <1>6, <2>1
  <2>2. CASE ns[p].prev # NO_PAGE
    <3>1. PICK n : n = ns[p].prev
      OBVIOUS
    <3>2. n \in L /\ lt(n, p) /\ (\A x \in L : lt(x, p) => x = n \/ lt(x, n)) /\ n # NO_PAGE
      BY <1>4, <1>6, <2>2, <3>1
    <3>3. n # p
      BY <1>2, <3>2
    <3>4. Leads2(p, n)
      BY <1>1, <1>6, <3>2, <3>3
    <3> QED
      BY <3>1, <3>4
  <2> QED
    BY <2>1, <2>2
<1>12. Leads2(right, p)
  BY <1>1, <1>6
<1>13. ASSUME NEW q \in L, q # p, q = ns[p].next
       PROVE  Leads2(q, right)
  <2>1. lt(p, q) /\ \A x \in L : lt(p, x) => x = q \/ lt(q, x)
    <3>1. q # NO_PAGE
      BY DEF L, Leaves
    <3> QED
      BY <1>3, <1>6, <1>13, <3>1
  <2>2. lt2(right, q)
    BY <1>1, <1>13, <2>1
  <2>3. ASSUME NEW x \in L, x # p, lt2(x, q)
        PROVE  lt2(x, right)
    <3>1. lt(x, q)
      BY <1>1, <1>13, <2>3
    <3>2. x # q /\ ~lt(q, x)
      BY <1>2, <3>1
    <3>3. ~lt(p, x)
      BY <2>1, <3>2
    <3>4. lt(x, p)
      BY <1>2, <1>6, <2>3, <3>3
    <3> QED
      BY <1>1, <2>3, <3>4
  <2> QED
    BY <1>1, <2>2, <2>3
<1>14. ASSUME NEW q \in L, q # p, q # ns[p].next
       PROVE  Leads2(q, ns[q].prev)
  <2>1. CASE ns[q].prev = NO_PAGE
    <3>1. \A x \in L : ~lt(x, q)
      BY <1>4, <2>1
    <3> QED
      BY <1>1, <1>6, <1>14, <2>1, <3>1
  <2>2. CASE ns[q].prev # NO_PAGE
    <3>1. PICK n : n = ns[q].prev
      OBVIOUS
    <3>2. n \in L /\ lt(n, q) /\ (\A x \in L : lt(x, q) => x = n \/ lt(x, n)) /\ n # NO_PAGE
      BY <1>4, <2>2, <3>1
    <3>3. n # p
      <4> SUFFICES ASSUME n = p PROVE FALSE
        OBVIOUS
      <4>1. PICK g : g = ns[p].next
        OBVIOUS
      <4>2. g \in L /\ lt(p, g) /\ (q = g \/ lt(g, q))
        BY <1>3, <1>6, <3>2, <4>1
      <4>3. lt(g, q)
        BY <1>14, <4>1, <4>2
      <4>4. g = p \/ lt(g, p)
        BY <3>2, <4>2, <4>3
      <4> QED
        BY <1>2, <1>6, <4>2, <4>4
    <3>4. lt2(n, q)
      BY <1>1, <1>14, <3>2, <3>3
    <3>5. ASSUME NEW x \in L \cup {right}, lt2(x, q)
          PROVE  x = n \/ lt2(x, n)
      <4>1. CASE x = right
        <5>1. lt(p, q)
          BY <1>1, <1>14, <3>5, <4>1
        <5>2. lt(p, n)
          BY <1>6, <3>2, <3>3, <5>1
        <5> QED
          BY <1>1, <3>2, <3>3, <4>1, <5>2
      <4>2. CASE x \in L
        <5>1. lt(x, q)
          BY <1>1, <1>14, <3>5, <4>2
        <5>2. x = n \/ lt(x, n)
          BY <3>2, <4>2, <5>1
        <5> QED
          BY <1>1, <3>2, <3>3, <4>2, <5>2
      <4> QED
        BY <4>1, <4>2
    <3>6. Leads2(q, n)
      BY <3>2, <3>4, <3>5
    <3> QED
      BY <3>1, <3>6
  <2> QED
    BY <2>1, <2>2
<1> HIDE DEF Follows, Leads2
<1>15. ASSUME NEW q \in L \cup {right}
       PROVE  Follows(q, ms[q].next) /\ Leads2(q, ms[q].prev)
  <2>1. CASE q = right
    BY <1>5, <1>9, <1>12, <2>1
  <2>2. CASE q = p
    BY <1>5, <1>8, <1>11, <2>2
  <2>3. CASE q \in L /\ q # p
    BY <1>5, <1>10, <1>13, <1>14, <2>3
  <2> QED
    BY <2>1, <2>2, <2>3
<1> QED
  BY <1>5, <1>7, <1>15 DEF Chained

-----------------------------------------------------------------------------
(* Where a page is split                                                   *)

\* f holds the sums of the sizes from m on, as the function inside Sum does.
Sums(f, sizes, m, n) == f = [k \in 0..n |-> IF k < m THEN 0 ELSE f[k - 1] + sizes[k]]

LEMMA SumsGrow ==
    ASSUME NEW sizes, NEW m \in Nat \ {0}, NEW n \in Nat, NEW f, Sums(f, sizes, m, n)
    PROVE  \E g : Sums(g, sizes, m, n + 1)
<1> DEFINE g == [k \in 0..n + 1 |->
                    IF k = n + 1 THEN (IF k < m THEN 0 ELSE f[n] + sizes[k]) ELSE f[k]]
<1>1. \A k \in 0..n : f[k] = IF k < m THEN 0 ELSE f[k - 1] + sizes[k]
  BY DEF Sums
<1>2. ASSUME NEW k \in 0..n + 1
      PROVE  g[k] = IF k < m THEN 0 ELSE g[k - 1] + sizes[k]
  <2>1. CASE k = n + 1
    <3>1. k - 1 = n /\ n \in 0..n + 1 /\ n # n + 1
      BY <2>1
    <3> QED
      BY <2>1, <3>1
  <2>2. CASE k # n + 1
    <3>1. k \in 0..n /\ (~(k < m) => k - 1 \in 0..n /\ k - 1 # n + 1 /\ k - 1 \in 0..n + 1)
      BY <2>2
    <3> QED
      BY <2>2, <3>1, <1>1
  <2> QED
    BY <2>1, <2>2
<1>3. Sums(g, sizes, m, n + 1)
  BY <1>2 DEF Sums
<1> QED
  BY <1>3

LEMMA SumsDefined ==
    ASSUME NEW sizes, NEW m \in Nat \ {0}, NEW N \in Nat
    PROVE  \E f : Sums(f, sizes, m, N)
<1> DEFINE Missing == {n \in Nat : ~\E f : Sums(f, sizes, m, n)}
<1> SUFFICES ASSUME Missing # {} PROVE FALSE
  OBVIOUS
<1>1. PICK n \in Missing : \A k \in Missing : n <= k
  BY LeastNatural
<1>2. n # 0
  <2>1. Sums([k \in 0..0 |-> 0], sizes, m, 0)
    BY DEF Sums
  <2> QED
    BY <2>1
<1>3. n - 1 \in Nat /\ n - 1 \notin Missing /\ n = (n - 1) + 1
  BY <1>1, <1>2
<1>4. \E f : Sums(f, sizes, m, n)
  BY <1>3, SumsGrow
<1> QED
  BY <1>4

LEMMA SumIsNatural ==
    ASSUME NEW sizes, NEW m \in Nat \ {0}, NEW n \in Nat, \A k \in m..n : sizes[k] \in Nat
    PROVE  Sum(sizes, m, n) \in Nat
<1> DEFINE F == CHOOSE f : f = [k \in 0..n |-> IF k < m THEN 0 ELSE f[k - 1] + sizes[k]]
<1>1. Sum(sizes, m, n) = F[n]
  BY Zenon DEF Sum
<1>2. Sums(F, sizes, m, n)
  <2>1. \E f : Sums(f, sizes, m, n)
    BY SumsDefined
  <2> QED
    BY <2>1 DEF Sums
<1> HIDE DEF F
<1>3. \A k \in 0..n : F[k] = IF k < m THEN 0 ELSE F[k - 1] + sizes[k]
  BY <1>2 DEF Sums
<1> DEFINE Wrong == {k \in 0..n : F[k] \notin Nat}
<1> SUFFICES Wrong = {}
  BY <1>1
<1> SUFFICES ASSUME Wrong # {} PROVE FALSE
  OBVIOUS
<1>4. PICK k \in Wrong : \A l \in Wrong : k <= l
  <2>1. Wrong \in SUBSET Nat
    OBVIOUS
  <2> HIDE DEF Wrong
  <2> QED
    BY <2>1, LeastNatural
<1>5. CASE k < m
  BY <1>3, <1>5
<1>6. CASE ~(k < m)
  <2>1. k - 1 \in 0..n /\ k - 1 \notin Wrong /\ k \in m..n
    BY <1>4, <1>6
  <2> QED
    BY <1>3, <1>6, <2>1
<1> QED
  BY <1>5, <1>6

\* A split leaves entries on both sides; the median of an internal node is
\* neither the first nor the last one.
LEMMA SplitIndexInside ==
    ASSUME NEW sizes, Len(sizes) \in Nat, \A k \in 1..Len(sizes) : sizes[k] \in Nat,
           NEW capacity, NEW median \in BOOLEAN,
           NEW at, at = byte_balanced_split_index(sizes, capacity, median)
    PROVE  at = 0 \/ (at \in 2..Len(sizes) /\ (median => at < Len(sizes)))
<1> DEFINE n == Len(sizes)
           Left(i)  == Sum(sizes, 1, i - 1)
           Right(i) == Sum(sizes, IF median THEN i + 1 ELSE i, n)
           Skew(i)  == IF Left(i) > Right(i) THEN Left(i) - Right(i) ELSE Right(i) - Left(i)
           Valid == {i \in 2 .. n : /\ median => i < n
                                    /\ Left(i) <= capacity
                                    /\ Right(i) <= capacity}
           Best  == {i \in Valid : \A j \in Valid : Skew(i) <= Skew(j)}
<1>1. at = IF Valid = {} THEN 0 ELSE CHOOSE i \in Best : \A j \in Best : i <= j
  BY Zenon DEF byte_balanced_split_index
<1>2. \A i \in Valid : i \in 2..n /\ (median => i < n)
  OBVIOUS
<1>3. \A i \in Valid : Skew(i) \in Nat
  <2> SUFFICES ASSUME NEW i \in Valid PROVE Skew(i) \in Nat
    OBVIOUS
  <2>1. Left(i) \in Nat
    <3>1. i - 1 \in Nat /\ \A k \in 1..i - 1 : sizes[k] \in Nat
      BY <1>2
    <3> HIDE DEF Valid
    <3> QED
      BY <3>1, SumIsNatural
  <2>2. Right(i) \in Nat
    <3>1. PICK m : m = IF median THEN i + 1 ELSE i
      OBVIOUS
    <3>2. m \in Nat \ {0} /\ \A k \in m..n : sizes[k] \in Nat
      BY <1>2, <3>1
    <3>3. Sum(sizes, m, n) \in Nat
      BY <3>2, SumIsNatural
    <3> QED
      BY <3>1, <3>3
  <2> HIDE DEF Left, Right
  <2> QED
    BY <2>1, <2>2
<1> HIDE DEF Valid, Skew
<1>4. ASSUME Valid # {}
      PROVE  Best # {}
  <2> DEFINE S == {Skew(i) : i \in Valid}
  <2>1. S \in SUBSET Nat /\ S # {}
    BY <1>3, <1>4
  <2>2. PICK x \in S : \A y \in S : x <= y
    <3> HIDE DEF S
    <3> QED
      BY <2>1, LeastNatural
  <2>3. PICK i \in Valid : x = Skew(i)
    OBVIOUS
  <2>4. i \in Best
    BY <2>2, <2>3
  <2> QED
    BY <2>4
<1>5. Best \subseteq Valid /\ Best \in SUBSET Nat
  BY <1>2
<1> HIDE DEF Best
<1>6. ASSUME Valid # {}
      PROVE  at \in Valid
  <2>1. \E i \in Best : \A j \in Best : i <= j
    BY <1>4, <1>5, <1>6, LeastNatural
  <2> QED
    BY <1>1, <1>5, <1>6, <2>1
<1> QED
  BY <1>1, <1>2, <1>6

-----------------------------------------------------------------------------
(* The content of the tree                                                 *)

\* Entries one behind the other in key order.
EntryOrder == {e \in EntrySet \X EntrySet : e[1] # e[2] /\ e[1].key <= e[2].key}

Held(ns, p) == ToSet(ns[p].entries)

\* The leaves hold the entries of E, each in one place and in key order.
Stored(ns, E) ==
    /\ \A p \in Leaves(ns) : Lists(ns[p].entries, Held(ns, p), EntryOrder)
    /\ \A p, q \in Leaves(ns) : \A x \in Held(ns, p) : x \in Held(ns, q) => p = q
    /\ \A x : x \in E <=> \E p \in Leaves(ns) : x \in Held(ns, p)

Placed(ns, r) == \E a, b, K : TreeShape(ns, r, a, b, K) /\ Chained(ns, a, b)

\* A tree that holds the entries of E.
Sound(ns, r, E) == Typed(ns) /\ Placed(ns, r) /\ Stored(ns, E)

\* What the tree looks up in a node, apart from the links between leaves.
SameNode(ns, ms, q) ==
    /\ ms[q].leaf = ns[q].leaf /\ ms[q].entries = ns[q].entries
    /\ ~ns[q].leaf => ms[q].rightmost = ns[q].rightmost

SameLinks(ns, ms, q) == ms[q].next = ns[q].next /\ ms[q].prev = ns[q].prev

LEMMA SameNodeSamePage ==
    ASSUME NEW ns, NEW ms, NEW q, SameNode(ns, ms, q)
    PROVE  SamePage(ns, ms, q)
BY DEF SameNode, SamePage, Slots, Kid, Key, Width

\* A leaf is cut in front of the entry at `at`.
LeafCut(ns, ms, p, right, at, z) ==
    /\ DOMAIN ms = DOMAIN ns \cup {right} /\ LinkedBehind(ns, ms, p, right)
    /\ ms[p].entries = SubSeq(ns[p].entries, 1, at - 1)
    /\ ms[right].entries = SubSeq(ns[p].entries, at, Width(ns, p))
    /\ \A q \in DOMAIN ns : q # p /\ q # z => SameNode(ns, ms, q)

\* An internal node is cut at the entry at `at`, which goes up.
InternalCut(ns, ms, p, right, at, z) ==
    /\ DOMAIN ms = DOMAIN ns \cup {right}
    /\ ~ms[p].leaf /\ ~ms[right].leaf /\ ~ms[z].leaf
    /\ ms[p].entries = SubSeq(ns[p].entries, 1, at - 1)
    /\ ms[p].rightmost = ns[p].entries[at].child
    /\ ms[right].entries = SubSeq(ns[p].entries, at + 1, Width(ns, p))
    /\ ms[right].rightmost = ns[p].rightmost
    /\ \A q \in DOMAIN ns : q # p /\ q # z => SameNode(ns, ms, q) /\ SameLinks(ns, ms, q)

LEMMA LeafEntries ==
    ASSUME NEW ns, Typed(ns), NEW p \in Leaves(ns)
    PROVE  /\ p \in DOMAIN ns /\ ns[p].entries \in Seq(EntrySet)
           /\ ns[p].prev \in Nat /\ ns[p].next \in Nat /\ ns[p].parent \in Nat
           /\ Width(ns, p) = Len(ns[p].entries) /\ Width(ns, p) \in Nat
<1>1. p \in DOMAIN ns /\ ns[p] \in LeafNodes
  BY NodeFields DEF Leaves
<1> QED
  BY <1>1 DEF LeafNodes, Width

LEMMA InternalEntries ==
    ASSUME NEW ns, Typed(ns), NEW p \in DOMAIN ns, ~ns[p].leaf
    PROVE  /\ ns[p].entries \in Seq(ChildSet) /\ ns[p].rightmost \in Nat /\ ns[p].parent \in Nat
           /\ Width(ns, p) = Len(ns[p].entries) /\ Width(ns, p) \in Nat
<1>1. ns[p] \in InternalNodes
  BY NodeFields
<1> QED
  BY <1>1 DEF InternalNodes, Width

LEMMA LeafCutShape ==
    ASSUME NEW ns, NEW r, Typed(ns), Placed(ns, r), NEW p \in Leaves(ns),
           NEW z \in DOMAIN ns, NEW j \in Slots(ns, z), Kid(ns, z, j) = p,
           NEW at \in 1..Width(ns, p), NEW right \in Nat \ {0}, right \notin DOMAIN ns,
           NEW ms, LeafCut(ns, ms, p, right, at, z),
           Promoted(ns, ms, z, j, Key(ns, p, at), right)
    PROVE  Placed(ms, r)
<1>1. PICK a0, b0, K : TreeShape(ns, r, a0, b0, K) /\ Chained(ns, a0, b0)
  BY DEF Placed
<1>2. PICK a : a = Wide(DOMAIN ns, a0)
  OBVIOUS
<1>3. PICK b : b = Wide(DOMAIN ns, b0)
  OBVIOUS
<1>4. /\ TreeShape(ns, r, a, b, K) /\ Chained(ns, a, b)
      /\ \A q \in DOMAIN ns : a[q] = 4 * a0[q] /\ b[q] = 4 * b0[q]
  <2>1. /\ TreeShape(ns, r, Wide(DOMAIN ns, a0), Wide(DOMAIN ns, b0), K)
        /\ Chained(ns, Wide(DOMAIN ns, a0), Wide(DOMAIN ns, b0))
    BY Zenon, <1>1, ShapeWidened
  <2>2. \A q \in DOMAIN ns : a[q] = 4 * a0[q] /\ b[q] = 4 * b0[q]
    BY <1>2, <1>3 DEF Wide
  <2> QED
    BY <1>2, <1>3, <2>1, <2>2
<1>5. p \in DOMAIN ns /\ ns[p].leaf
  BY DEF Leaves
<1>6. Labelled(DOMAIN ns, a0, b0, K) /\ Labelled(DOMAIN ns, a, b, K)
  BY <1>1, <1>4 DEF TreeShape
<1>7. a0[p] \in Int /\ b0[p] \in Int /\ a0[p] < b0[p]
  BY <1>5, <1>6, LabelTypes
<1>8. PICK m1 \in Int : m1 = a[p] + 1
  BY <1>4, <1>5, <1>7
<1>9. PICK m2 \in Int : m2 = a[p] + 2
  BY <1>4, <1>5, <1>7
<1>10. a[p] < m1 /\ m1 < m2 /\ m2 < b[p]
  BY <1>4, <1>5, <1>7, <1>8, <1>9
<1>11. PICK s : s = Key(ns, p, at)
  OBVIOUS
<1>12. s \in K[p]
  BY <1>4, <1>5, <1>11 DEF TreeShape, PagePlaced, KeysPlaced
<1>13. \A q \in DOMAIN ns : Inside(a, b, q, p) => b[q] < m1 \/ m2 < a[q]
  BY <1>4, <1>5 DEF TreeShape, PagePlaced, KidsReach, Slots
<1>14. PICK a2, b2, K2 : Relabelled(DOMAIN ns, right, p, m1, m2, s, a, b, K, a2, b2, K2)
  BY <1>5, <1>6, <1>10, <1>12, <1>13, LabelsSplit
<1>15. DOMAIN ms = DOMAIN ns \cup {right} /\ LinkedBehind(ns, ms, p, right)
  BY DEF LeafCut
<1>16. Kept(ns, ms, p, z)
  BY SameNodeSamePage DEF Kept, LeafCut
<1>17. LeafHalves(ns, ms, p, right, at)
  <2>1. ms[p].leaf /\ ms[right].leaf
    BY <1>5, <1>15 DEF LinkedBehind, Leaves
  <2>2. PICK s0 : s0 = ns[p].entries
    OBVIOUS
  <2>3. s0 \in Seq(EntrySet) /\ Width(ns, p) = Len(s0) /\ Len(s0) \in Nat
    BY <2>2, LeafEntries
  <2>4. ms[p].entries = SubSeq(s0, 1, at - 1) /\ ms[right].entries = SubSeq(s0, at, Len(s0))
    BY <2>2, <2>3 DEF LeafCut
  <2>5. /\ Len(SubSeq(s0, 1, at - 1)) = at - 1
        /\ \A k \in 1..at - 1 : SubSeq(s0, 1, at - 1)[k] = s0[k]
    <3>1. 1 \in 1..Len(s0) + 1 /\ at - 1 \in 1 - 1..Len(s0) /\ at - 1 - 1 + 1 = at - 1
      BY <2>3
    <3>2. /\ Len(SubSeq(s0, 1, at - 1)) = at - 1 - 1 + 1
          /\ \A k \in 1..at - 1 - 1 + 1 : SubSeq(s0, 1, at - 1)[k] = s0[1 + k - 1]
      BY <2>3, <3>1, SubFacts
    <3>3. \A k \in Int : 1 + k - 1 = k
      OBVIOUS
    <3> QED
      BY <3>1, <3>2, <3>3
  <2>6. /\ Len(SubSeq(s0, at, Len(s0))) = Len(s0) - at + 1
        /\ \A k \in 1..Len(s0) - at + 1 : SubSeq(s0, at, Len(s0))[k] = s0[at + k - 1]
    <3>1. at \in 1..Len(s0) + 1 /\ Len(s0) \in at - 1..Len(s0)
      BY <2>3
    <3> QED
      BY <2>3, <3>1, SubFacts
  <2> QED
    BY <2>1, <2>2, <2>3, <2>4, <2>5, <2>6 DEF LeafHalves, Width, Key
<1>18. Halved(ms, right, p, a2, b2, K2)
  BY <1>4, <1>11, <1>14, <1>15, <1>17, LeafHalved
<1>19. TreeShape(ms, r, a2, b2, K2)
  BY <1>4, <1>11, <1>14, <1>15, <1>16, <1>18, TreeSplit
<1>20. NO_PAGE \notin DOMAIN ns /\ right # NO_PAGE
  BY DEF Typed, NO_PAGE
<1>21. Chained(ms, a2, b2)
  BY <1>4, <1>14, <1>15, <1>20, LeafSplitChained
<1> QED
  BY <1>19, <1>21 DEF Placed

LEMMA InternalCutShape ==
    ASSUME NEW ns, NEW r, Typed(ns), Placed(ns, r), NEW p \in DOMAIN ns, ~ns[p].leaf,
           NEW z \in DOMAIN ns, NEW j \in Slots(ns, z), Kid(ns, z, j) = p,
           NEW at \in 1..Width(ns, p), NEW right \in Nat \ {0}, right \notin DOMAIN ns,
           NEW ms, InternalCut(ns, ms, p, right, at, z),
           Promoted(ns, ms, z, j, Key(ns, p, at), right)
    PROVE  Placed(ms, r)
<1>1. PICK a0, b0, K : TreeShape(ns, r, a0, b0, K) /\ Chained(ns, a0, b0)
  BY DEF Placed
<1>2. PICK a : a = Wide(DOMAIN ns, a0)
  OBVIOUS
<1>3. PICK b : b = Wide(DOMAIN ns, b0)
  OBVIOUS
<1>4. /\ TreeShape(ns, r, a, b, K) /\ Chained(ns, a, b)
      /\ \A q \in DOMAIN ns : a[q] = 4 * a0[q] /\ b[q] = 4 * b0[q]
  <2>1. /\ TreeShape(ns, r, Wide(DOMAIN ns, a0), Wide(DOMAIN ns, b0), K)
        /\ Chained(ns, Wide(DOMAIN ns, a0), Wide(DOMAIN ns, b0))
    BY Zenon, <1>1, ShapeWidened
  <2>2. \A q \in DOMAIN ns : a[q] = 4 * a0[q] /\ b[q] = 4 * b0[q]
    BY <1>2, <1>3 DEF Wide
  <2> QED
    BY <1>2, <1>3, <2>1, <2>2
<1>5. Labelled(DOMAIN ns, a0, b0, K) /\ Labelled(DOMAIN ns, a, b, K)
  BY <1>1, <1>4 DEF TreeShape
<1>6. PICK x : x = Kid(ns, p, at)
  OBVIOUS
<1>7. PICK y : y = Kid(ns, p, at + 1)
  OBVIOUS
<1>8. Width(ns, p) \in Nat /\ at \in Slots(ns, p) /\ at + 1 \in Slots(ns, p)
  BY InternalEntries DEF Slots
<1>9. /\ x \in DOMAIN ns /\ y \in DOMAIN ns /\ b0[x] < a0[y]
      /\ Inside(a0, b0, x, p) /\ Inside(a0, b0, y, p)
  BY <1>1, <1>6, <1>7, <1>8 DEF TreeShape, PagePlaced, KidsPlaced, KidsApart
<1>10. /\ a0[p] \in Int /\ b0[p] \in Int /\ a0[x] \in Int /\ b0[x] \in Int
       /\ a0[y] \in Int /\ b0[y] \in Int /\ a0[x] < b0[x] /\ a0[y] < b0[y]
  BY <1>5, <1>9, LabelTypes
<1>11. PICK m1 \in Int : m1 = b[x] + 1
  BY <1>4, <1>9, <1>10
<1>12. PICK m2 \in Int : m2 = b[x] + 2
  BY <1>4, <1>9, <1>10
<1>13. a[p] < m1 /\ m1 < m2 /\ m2 < b[p] /\ b[x] < m1 /\ m2 < a[y]
  BY <1>4, <1>9, <1>10, <1>11, <1>12 DEF Inside
<1>14. PICK s : s = Key(ns, p, at)
  OBVIOUS
<1>15. s \in K[p]
  BY <1>4, <1>14 DEF TreeShape, PagePlaced, KeysPlaced
<1>16. CutBetween(ns, a, b, p, at, m1, m2)
  BY <1>6, <1>7, <1>13 DEF CutBetween
<1>17. \A q \in DOMAIN ns : Inside(a, b, q, p) => b[q] < m1 \/ m2 < a[q]
  BY <1>4, <1>16, CutKids
<1>18. PICK a2, b2, K2 : Relabelled(DOMAIN ns, right, p, m1, m2, s, a, b, K, a2, b2, K2)
  BY <1>5, <1>13, <1>15, <1>17, LabelsSplit
<1>19. DOMAIN ms = DOMAIN ns \cup {right}
  BY DEF InternalCut
<1>20. Kept(ns, ms, p, z)
  BY SameNodeSamePage DEF Kept, InternalCut
<1>21. InternalHalves(ns, ms, p, right, at)
  <2>1. ~ms[p].leaf /\ ~ms[right].leaf
    BY DEF InternalCut
  <2>2. PICK s0 : s0 = ns[p].entries
    OBVIOUS
  <2>3. s0 \in Seq(ChildSet) /\ Width(ns, p) = Len(s0) /\ Len(s0) \in Nat
    BY <2>2, InternalEntries
  <2>4. /\ ms[p].entries = SubSeq(s0, 1, at - 1) /\ ms[right].entries = SubSeq(s0, at + 1, Len(s0))
        /\ ms[p].rightmost = s0[at].child /\ ms[right].rightmost = ns[p].rightmost
    BY <2>2, <2>3 DEF InternalCut
  <2>5. /\ Len(SubSeq(s0, 1, at - 1)) = at - 1
        /\ \A k \in 1..at - 1 : SubSeq(s0, 1, at - 1)[k] = s0[k]
    <3>1. 1 \in 1..Len(s0) + 1 /\ at - 1 \in 1 - 1..Len(s0) /\ at - 1 - 1 + 1 = at - 1
      BY <2>3
    <3>2. /\ Len(SubSeq(s0, 1, at - 1)) = at - 1 - 1 + 1
          /\ \A k \in 1..at - 1 - 1 + 1 : SubSeq(s0, 1, at - 1)[k] = s0[1 + k - 1]
      BY <2>3, <3>1, SubFacts
    <3>3. \A k \in Int : 1 + k - 1 = k
      OBVIOUS
    <3> QED
      BY <3>1, <3>2, <3>3
  <2>6. /\ Len(SubSeq(s0, at + 1, Len(s0))) = Len(s0) - at
        /\ \A k \in 1..Len(s0) - at : SubSeq(s0, at + 1, Len(s0))[k] = s0[at + k]
    <3>1. /\ at + 1 \in 1..Len(s0) + 1 /\ Len(s0) \in at + 1 - 1..Len(s0)
          /\ Len(s0) - (at + 1) + 1 = Len(s0) - at
      BY <2>3
    <3>2. /\ Len(SubSeq(s0, at + 1, Len(s0))) = Len(s0) - (at + 1) + 1
          /\ \A k \in 1..Len(s0) - (at + 1) + 1 : SubSeq(s0, at + 1, Len(s0))[k] = s0[at + 1 + k - 1]
      BY <2>3, <3>1, SubFacts
    <3>3. ASSUME NEW k \in 1..Len(s0) - at
          PROVE  SubSeq(s0, at + 1, Len(s0))[k] = s0[at + k]
      <4>1. at + 1 + k - 1 = at + k /\ k \in 1..Len(s0) - (at + 1) + 1
        BY <3>1
      <4>2. SubSeq(s0, at + 1, Len(s0))[k] = s0[at + 1 + k - 1]
        BY <3>2, <4>1
      <4> QED
        BY <4>1, <4>2
    <3> QED
      BY <3>1, <3>2, <3>3
  <2>7. Width(ms, p) = at - 1 /\ Width(ms, right) = Width(ns, p) - at
    BY <2>2, <2>3, <2>4, <2>5, <2>6 DEF Width
  <2>8. \A i \in 1..at - 1 : ms[p].entries[i] = ns[p].entries[i]
    BY <2>2, <2>4, <2>5
  <2>9. \A i \in 1..Width(ns, p) - at : ms[right].entries[i] = ns[p].entries[at + i]
    BY <2>2, <2>3, <2>4, <2>6
  <2>10. \A i \in 1..at - 1 : Key(ms, p, i) = Key(ns, p, i)
    BY <2>8 DEF Key
  <2>11. \A i \in 1..Width(ns, p) - at : Key(ms, right, i) = Key(ns, p, at + i)
    BY <2>9 DEF Key
  <2>12. ASSUME NEW i \in 1..at
         PROVE  Kid(ms, p, i) = Kid(ns, p, i)
    <3>1. CASE i = at
      <4>1. Kid(ms, p, i) = ms[p].rightmost /\ Kid(ns, p, i) = ns[p].entries[at].child
        BY <1>8, <2>7, <3>1 DEF Kid
      <4> QED
        BY <2>2, <2>4, <4>1
    <3>2. CASE i # at
      <4>1. i \in 1..at - 1 /\ i <= Width(ms, p) /\ i <= Width(ns, p)
        BY <1>8, <2>7, <3>2
      <4> QED
        BY <2>8, <4>1 DEF Kid
    <3> QED
      BY <3>1, <3>2
  <2>13. ASSUME NEW i \in 1..Width(ns, p) - at + 1
         PROVE  Kid(ms, right, i) = Kid(ns, p, at + i)
    <3>1. CASE i = Width(ns, p) - at + 1
      <4>1. Kid(ms, right, i) = ms[right].rightmost /\ Kid(ns, p, at + i) = ns[p].rightmost
        BY <1>8, <2>7, <3>1 DEF Kid
      <4> QED
        BY <2>4, <4>1
    <3>2. CASE i # Width(ns, p) - at + 1
      <4>1. i \in 1..Width(ns, p) - at /\ i <= Width(ms, right) /\ at + i <= Width(ns, p)
        BY <1>8, <2>7, <3>2
      <4> QED
        BY <2>9, <4>1 DEF Kid
    <3> QED
      BY <3>1, <3>2
  <2> QED
    BY <2>1, <2>7, <2>10, <2>11, <2>12, <2>13 DEF InternalHalves
<1>22. Halved(ms, right, p, a2, b2, K2)
  BY <1>4, <1>14, <1>16, <1>18, <1>19, <1>21, InternalHalved
<1>23. TreeShape(ms, r, a2, b2, K2)
  BY <1>4, <1>14, <1>18, <1>19, <1>20, <1>22, TreeSplit
<1>24. Leaves(ms) = Leaves(ns)
  BY <1>19 DEF InternalCut, SameNode, Leaves, Slots
<1>25. \A q \in Leaves(ns) : q \in DOMAIN ns /\ q # p /\ q # z
  BY DEF Leaves, Slots
<1>26. Chained(ms, a2, b2)
  <2>1. \A q \in Leaves(ns) : ms[q].next = ns[q].next /\ ms[q].prev = ns[q].prev
    BY <1>25 DEF InternalCut, SameLinks
  <2>2. \A q, l \in Leaves(ns) : b2[q] < a2[l] <=> b[q] < a[l]
    BY <1>18, <1>25 DEF Relabelled
  <2> QED
    BY <1>4, <1>24, <2>1, <2>2, ChainReordered
<1> QED
  BY <1>23, <1>26 DEF Placed

-----------------------------------------------------------------------------
(* The content of the halves                                               *)

LEMMA EntryOrderFacts ==
    \A x, y : <<x, y>> \in EntryOrder <=> x \in EntrySet /\ y \in EntrySet /\ x # y /\ x.key <= y.key
BY DEF EntryOrder

\* u and v list the elements of S between them.
Parted(u, v, S) ==
    /\ Lists(u, ToSet(u), EntryOrder) /\ Lists(v, ToSet(v), EntryOrder)
    /\ ToSet(u) \cup ToSet(v) = S
    /\ \A x \in ToSet(u) : x \notin ToSet(v)

LEMMA CutHeld ==
    ASSUME NEW s, NEW S, Lists(s, S, EntryOrder), NEW at \in 1..Len(s),
           NEW u, u = SubSeq(s, 1, at - 1), NEW v, v = SubSeq(s, at, Len(s))
    PROVE  Parted(u, v, S)
<1>1. /\ s \in Seq(S) /\ Len(s) \in Nat
      /\ \A i, j \in 1..Len(s) : i < j => <<s[i], s[j]>> \in EntryOrder
  BY ListsFields
<1>2. 1 \in 1..Len(s) + 1 /\ at - 1 \in 1 - 1..Len(s) /\ at \in 1..Len(s) + 1
      /\ Len(s) \in at - 1..Len(s) /\ at - 1 + 1 = at /\ Len(s) \in 0..Len(s) /\ 1 <= Len(s) + 1
  BY <1>1
<1>3. Lists(u, Slice(s, 1, at - 1), EntryOrder) /\ Lists(v, Slice(s, at, Len(s)), EntryOrder)
  BY <1>2, ListsSub
<1>4. ToSet(u) = Slice(s, 1, at - 1) /\ ToSet(v) = Slice(s, at, Len(s))
  BY <1>3, ListsWhole
<1>5. Slice(s, 1, at - 1) \cup Slice(s, at, Len(s)) = Slice(s, 1, Len(s))
  <2>1. \A h \in 1 - 1..Len(s) : Slice(s, 1, h) \cup Slice(s, h + 1, Len(s)) = Slice(s, 1, Len(s))
    BY <1>1, <1>2, SlicesMeet
  <2>2. Slice(s, 1, at - 1) \cup Slice(s, at - 1 + 1, Len(s)) = Slice(s, 1, Len(s))
    BY <1>2, <2>1
  <2> QED
    BY <1>2, <2>2
<1>6. Slice(s, 1, Len(s)) = S
  BY ListsWhole
<1>7. \A x \in Slice(s, 1, at - 1) : x \notin Slice(s, at, Len(s))
  <2> SUFFICES ASSUME NEW i \in 1..at - 1, NEW k \in at..Len(s), s[i] = s[k] PROVE FALSE
    BY DEF Slice
  <2>1. i \in 1..Len(s) /\ k \in 1..Len(s) /\ i < k
    BY <1>1
  <2>2. <<s[i], s[k]>> \in EntryOrder
    BY <1>1, <2>1, Zenon
  <2> QED
    BY <2>2, EntryOrderFacts
<1> QED
  BY <1>3, <1>4, <1>5, <1>6, <1>7 DEF Parted

LEMMA LeafCutStored ==
    ASSUME NEW ns, NEW E, Typed(ns), Stored(ns, E), NEW p \in Leaves(ns),
           NEW z \in DOMAIN ns, z \notin Leaves(ns),
           NEW at \in 1..Width(ns, p), NEW right, right \notin DOMAIN ns,
           NEW ms, LeafCut(ns, ms, p, right, at, z)
    PROVE  Stored(ms, E)
<1>1. Leaves(ms) = Leaves(ns) \cup {right} /\ right \notin Leaves(ns)
  BY DEF LeafCut, LinkedBehind, Leaves
<1>2. \A q \in Leaves(ns) : q # p => ms[q].entries = ns[q].entries /\ Held(ms, q) = Held(ns, q)
  BY DEF LeafCut, SameNode, Leaves, Held
<1>3. PICK s : s = ns[p].entries
  OBVIOUS
<1>4. Lists(s, Held(ns, p), EntryOrder) /\ Width(ns, p) = Len(s)
  BY <1>3 DEF Stored, Width
<1>5. ms[p].entries = SubSeq(s, 1, at - 1) /\ ms[right].entries = SubSeq(s, at, Len(s))
  BY <1>3, <1>4 DEF LeafCut
<1>6. /\ Lists(ms[p].entries, Held(ms, p), EntryOrder)
      /\ Lists(ms[right].entries, Held(ms, right), EntryOrder)
      /\ Held(ms, p) \cup Held(ms, right) = Held(ns, p)
      /\ \A x \in Held(ms, p) : x \notin Held(ms, right)
  <2>1. PICK u : u = ms[p].entries
    OBVIOUS
  <2>2. PICK v : v = ms[right].entries
    OBVIOUS
  <2>3. u = SubSeq(s, 1, at - 1) /\ v = SubSeq(s, at, Len(s)) /\ at \in 1..Len(s)
    BY <1>4, <1>5, <2>1, <2>2
  <2>4. Parted(u, v, Held(ns, p))
    BY <1>4, <2>3, CutHeld
  <2> QED
    BY <2>1, <2>2, <2>4 DEF Held, Parted
<1>7. \A q \in Leaves(ms) : Lists(ms[q].entries, Held(ms, q), EntryOrder)
  BY <1>1, <1>2, <1>6 DEF Stored
<1>8. \A q \in Leaves(ms) : Held(ms, q) \subseteq Held(ns, IF q = right THEN p ELSE q)
  BY <1>1, <1>2, <1>6
<1>9. ASSUME NEW q \in Leaves(ms), NEW l \in Leaves(ms), NEW x \in Held(ms, q), x \in Held(ms, l)
      PROVE  q = l
  <2>1. (IF q = right THEN p ELSE q) = (IF l = right THEN p ELSE l)
    BY <1>1, <1>8, <1>9 DEF Stored
  <2> QED
    BY <1>1, <1>6, <1>9, <2>1
<1>10. ASSUME NEW x
       PROVE  x \in E <=> \E q \in Leaves(ms) : x \in Held(ms, q)
  <2>1. x \in E <=> \E q \in Leaves(ns) : x \in Held(ns, q)
    BY DEF Stored
  <2> QED
    BY <1>1, <1>2, <1>6, <2>1
<1> QED
  BY <1>7, <1>9, <1>10 DEF Stored

\* The content is that of the leaves.
LEMMA SameLeavesStored ==
    ASSUME NEW ns, NEW E, Stored(ns, E), NEW ms, Leaves(ms) = Leaves(ns),
           \A q \in Leaves(ns) : ms[q].entries = ns[q].entries
    PROVE  Stored(ms, E)
<1>1. \A q \in Leaves(ns) : Held(ms, q) = Held(ns, q)
  BY DEF Held
<1> QED
  BY <1>1 DEF Stored

-----------------------------------------------------------------------------
(* Writing nodes                                                           *)

\* w is u with v behind it.
Joined(u, v, w) ==
    /\ Len(w) = Len(u) + Len(v)
    /\ \A k \in 1..Len(u) : w[k] = u[k]
    /\ \A k \in Len(u) + 1..Len(u) + Len(v) : w[k] = v[k - Len(u)]

LEMMA ConcatFacts ==
    ASSUME NEW S, NEW u \in Seq(S), NEW v \in Seq(S), NEW w, w = u \o v
    PROVE  w \in Seq(S) /\ Joined(u, v, w)
BY DEF Joined

\* t is s with e at place i.
Inserted(s, i, e, t) ==
    /\ Len(t) = Len(s) + 1
    /\ \A k \in 1..Len(s) + 1 : t[k] = IF k < i THEN s[k] ELSE IF k = i THEN e ELSE s[k - 1]

LEMMA InsertFacts ==
    ASSUME NEW S, NEW s \in Seq(S), NEW e \in S, NEW i \in 1..Len(s) + 1,
           NEW t, t = InsertAt(s, i, e)
    PROVE  t \in Seq(S) /\ Inserted(s, i, e, t)
<1>1. PICK u : u = SubSeq(s, 1, i - 1)
  OBVIOUS
<1>2. PICK v : v = SubSeq(s, i, Len(s))
  OBVIOUS
<1>3. PICK d : d = <<e>>
  OBVIOUS
<1>4. PICK w : w = u \o d
  OBVIOUS
<1>5. t = w \o v
  BY <1>1, <1>2, <1>3, <1>4 DEF InsertAt
<1>6. Len(s) \in Nat
  OBVIOUS
<1>7. u \in Seq(S) /\ Len(u) = i - 1 /\ \A k \in 1..i - 1 : u[k] = s[k]
  <2>1. 1 \in 1..Len(s) + 1 /\ i - 1 \in 1 - 1..Len(s) /\ i - 1 - 1 + 1 = i - 1
    BY <1>6
  <2>2. /\ SubSeq(s, 1, i - 1) \in Seq(S) /\ Len(SubSeq(s, 1, i - 1)) = i - 1 - 1 + 1
        /\ \A k \in 1..i - 1 - 1 + 1 : SubSeq(s, 1, i - 1)[k] = s[1 + k - 1]
    BY <2>1, SubFacts
  <2>3. \A k \in Int : 1 + k - 1 = k
    OBVIOUS
  <2> QED
    BY <1>1, <2>1, <2>2, <2>3
<1>8. v \in Seq(S) /\ Len(v) = Len(s) - i + 1 /\ \A k \in 1..Len(s) - i + 1 : v[k] = s[i + k - 1]
  <2>1. Len(s) \in i - 1..Len(s)
    BY <1>6
  <2> QED
    BY <1>2, <2>1, SubFacts
<1>9. d \in Seq(S) /\ Len(d) = 1 /\ d[1] = e
  BY <1>3
<1>10. /\ w \in Seq(S) /\ Len(w) = i
       /\ \A k \in 1..i - 1 : w[k] = s[k]
       /\ w[i] = e
  <2>1. /\ w \in Seq(S) /\ Len(w) = Len(u) + Len(d)
        /\ \A k \in 1..Len(u) : w[k] = u[k]
        /\ \A k \in Len(u) + 1..Len(u) + Len(d) : w[k] = d[k - Len(u)]
    <3>1. w \in Seq(S) /\ Joined(u, d, w)
      BY <1>4, <1>7, <1>9, ConcatFacts
    <3> QED
      BY <3>1 DEF Joined
  <2>2. i \in Len(u) + 1..Len(u) + Len(d) /\ i - Len(u) = 1
    BY <1>7, <1>9
  <2> QED
    BY <1>7, <1>9, <2>1, <2>2
<1>11. /\ t \in Seq(S) /\ Len(t) = Len(w) + Len(v)
       /\ \A k \in 1..Len(w) : t[k] = w[k]
       /\ \A k \in Len(w) + 1..Len(w) + Len(v) : t[k] = v[k - Len(w)]
  <2>1. t \in Seq(S) /\ Joined(w, v, t)
    BY <1>5, <1>8, <1>10, ConcatFacts
  <2> QED
    BY <2>1 DEF Joined
<1>12. Len(t) = Len(s) + 1
  BY <1>6, <1>8, <1>10, <1>11
<1>13. ASSUME NEW k \in 1..Len(s) + 1
       PROVE  t[k] = IF k < i THEN s[k] ELSE IF k = i THEN e ELSE s[k - 1]
  <2>1. CASE k <= i
    BY <1>10, <1>11, <2>1
  <2>2. CASE k > i
    <3>1. /\ k \in Len(w) + 1..Len(w) + Len(v) /\ k - Len(w) \in 1..Len(s) - i + 1
          /\ i + (k - Len(w)) - 1 = k - 1
      BY <1>6, <1>8, <1>10, <2>2
    <3>2. t[k] = v[k - Len(w)] /\ v[k - Len(w)] = s[i + (k - Len(w)) - 1]
      BY <1>8, <1>11, <3>1
    <3> QED
      BY <2>2, <3>1, <3>2
  <2> QED
    BY <2>1, <2>2
<1> QED
  BY <1>11, <1>12, <1>13 DEF Inserted

LEMMA LeafFields ==
    ASSUME NEW e, NEW p, NEW n, NEW u, NEW x, x = LeafNode(e, p, n, u)
    PROVE  x.leaf /\ x.entries = e /\ x.prev = p /\ x.next = n /\ x.parent = u
BY DEF LeafNode

LEMMA LeafTyped ==
    ASSUME NEW e \in Seq(EntrySet), NEW p \in Nat, NEW n \in Nat, NEW u \in Nat
    PROVE  LeafNode(e, p, n, u) \in LeafNodes
BY DEF LeafNode, LeafNodes

LEMMA InternalFields ==
    ASSUME NEW e, NEW c, NEW u, NEW x, x = InternalNode(e, c, u)
    PROVE  ~x.leaf /\ x.entries = e /\ x.rightmost = c /\ x.parent = u
BY DEF InternalNode

LEMMA InternalTyped ==
    ASSUME NEW e \in Seq(ChildSet), NEW c \in Nat, NEW u \in Nat
    PROVE  InternalNode(e, c, u) \in InternalNodes
BY DEF InternalNode, InternalNodes

\* ms has x on page p, and the other pages of ns.
Wrote(ns, p, x, ms) ==
    /\ DOMAIN ms = DOMAIN ns \cup {p} /\ ms[p] = x
    /\ \A q \in DOMAIN ns : q # p => ms[q] = ns[q]

LEMMA PutWrites ==
    ASSUME NEW ns, NEW p, NEW x, NEW ms, ms = Put(ns, p, x)
    PROVE  Wrote(ns, p, x, ms)
BY DEF Put, Wrote

\* The separator in front of the right half takes the place of the left one.
LEMMA PromotedNode ==
    ASSUME NEW ns, NEW r, Typed(ns), Placed(ns, r),
           NEW z \in DOMAIN ns, NEW j \in Slots(ns, z), NEW p, Kid(ns, z, j) = p, p \in Nat,
           NEW key \in Keys, NEW right \in Nat,
           NEW ms, ms[z] = promote_into_internal(ns[z], key, p, right)
    PROVE  ms[z] \in InternalNodes /\ Promoted(ns, ms, z, j, key, right)
<1>1. ~ns[z].leaf /\ j \in 1..Width(ns, z) + 1
  BY DEF Slots
<1>2. PICK e : e = ns[z].entries
  OBVIOUS
<1>3. PICK c : c = [key |-> key, child |-> p]
  OBVIOUS
<1>4. e \in Seq(ChildSet) /\ Width(ns, z) = Len(e) /\ Len(e) \in Nat /\ ns[z].rightmost \in Nat
      /\ ns[z].parent \in Nat /\ c \in ChildSet /\ c.key = key /\ c.child = p
  BY <1>1, <1>2, <1>3, InternalEntries DEF ChildSet
<1>5. \A i \in Slots(ns, z) : Kid(ns, z, i) = p => i = j
  BY OneParent DEF Placed
<1>6. /\ \A i \in 1..Len(e) : Kid(ns, z, i) = e[i].child /\ Key(ns, z, i) = e[i].key
      /\ Kid(ns, z, Len(e) + 1) = ns[z].rightmost
      /\ Slots(ns, z) = 1..Len(e) + 1
  BY <1>1, <1>2, <1>4 DEF Kid, Key, Slots
<1>7. CASE j = Len(e) + 1
  <2>1. ns[z].rightmost = p
    BY <1>6, <1>7
  <2>2. PICK f : f = Append(e, c)
    OBVIOUS
  <2>3. /\ f \in Seq(ChildSet) /\ Len(f) = Len(e) + 1
        /\ \A i \in 1..Len(e) : f[i] = e[i] /\ f[Len(e) + 1] = c
    BY <1>4, <2>2
  <2>4. f[Len(e) + 1] = c
    BY <1>4, <2>2
  <2>5. ms[z] = InternalNode(f, right, ns[z].parent)
    BY <1>2, <1>3, <2>1, <2>2 DEF promote_into_internal
  <2>6. /\ ~ms[z].leaf /\ ms[z].entries = f /\ ms[z].rightmost = right /\ ms[z] \in InternalNodes
    BY <1>4, <2>3, <2>5, InternalFields, InternalTyped
  <2>7. Width(ms, z) = Width(ns, z) + 1
    BY <1>4, <2>3, <2>6 DEF Width
  <2>8. ASSUME NEW i \in 1..Width(ns, z) + 2
        PROVE  Kid(ms, z, i) = IF i <= j THEN Kid(ns, z, i)
                               ELSE IF i = j + 1 THEN right ELSE Kid(ns, z, i - 1)
    <3>1. CASE i = Len(e) + 2
      <4>1. i = j + 1 /\ ~(i <= j) /\ ~(i <= Width(ms, z))
        BY <1>4, <1>7, <2>7, <3>1
      <4> QED
        BY <2>6, <4>1 DEF Kid
    <3>2. CASE i = Len(e) + 1
      <4>1. i <= j /\ i <= Width(ms, z)
        BY <1>4, <1>7, <2>7, <3>2
      <4>2. Kid(ms, z, i) = c.child
        BY <2>4, <2>6, <3>2, <4>1 DEF Kid
      <4> QED
        BY <1>4, <1>7, <3>2, <4>1, <4>2
    <3>3. CASE i \in 1..Len(e)
      <4>1. i <= j /\ i <= Width(ms, z)
        BY <1>4, <1>7, <2>7, <3>3
      <4>2. Kid(ms, z, i) = e[i].child
        BY <2>3, <2>6, <3>3, <4>1 DEF Kid
      <4> QED
        BY <1>6, <3>3, <4>1, <4>2
    <3> QED
      BY <1>4, <3>1, <3>2, <3>3
  <2>9. ASSUME NEW i \in 1..Width(ns, z) + 1
        PROVE  Key(ms, z, i) = IF i < j THEN Key(ns, z, i)
                               ELSE IF i = j THEN key ELSE Key(ns, z, i - 1)
    <3>1. CASE i = j
      BY <1>4, <1>7, <2>4, <2>6, <3>1 DEF Key
    <3>2. CASE i # j
      <4>1. i \in 1..Len(e) /\ i < j
        BY <1>4, <1>7, <3>2
      <4> QED
        BY <1>2, <2>3, <2>6, <4>1 DEF Key
    <3> QED
      BY <3>1, <3>2
  <2> QED
    BY <2>6, <2>7, <2>8, <2>9 DEF Promoted
<1>8. CASE j # Len(e) + 1
  <2>1. j \in 1..Len(e)
    BY <1>1, <1>4, <1>8
  <2>2. ns[z].rightmost # p
    BY <1>4, <1>5, <1>6, <1>8
  <2> DEFINE I == {i \in 1..Len(e) : e[i].child = p}
  <2>3. I = {j}
    BY <1>4, <1>5, <1>6, <2>1
  <2>4. Min(I) = j
    BY <2>1, <2>3 DEF Min
  <2>5. PICK d : d = [key |-> e[j].key, child |-> right]
    OBVIOUS
  <2>6. PICK g : g = [e EXCEPT ![j] = d]
    OBVIOUS
  <2>7. e[j] \in ChildSet /\ e[j].key \in Keys
    <3>1. e[j] \in ChildSet
      BY <1>4, <2>1
    <3> QED
      BY <3>1 DEF ChildSet
  <2>8. d \in ChildSet /\ d.key = e[j].key /\ d.child = right
    BY <2>5, <2>7 DEF ChildSet
  <2>9. /\ g \in Seq(ChildSet) /\ Len(g) = Len(e) /\ g[j] = d
        /\ \A i \in 1..Len(e) : i # j => g[i] = e[i]
    BY <1>4, <2>1, <2>6, <2>8
  <2>10. PICK f : f = InsertAt(g, j, c)
    OBVIOUS
  <2>11. ms[z] = InternalNode(f, ns[z].rightmost, ns[z].parent)
    <3>1. SelectInSeq(e, LAMBDA v : v.child = p) = j
      BY <2>3, <2>4 DEF SelectInSeq
    <3> QED
      BY <1>2, <1>3, <2>2, <2>5, <2>6, <2>10, <3>1 DEF promote_into_internal
  <2>12. /\ f \in Seq(ChildSet) /\ Len(f) = Len(g) + 1
         /\ \A k \in 1..Len(g) + 1 : f[k] = IF k < j THEN g[k] ELSE IF k = j THEN c ELSE g[k - 1]
    <3>1. j \in 1..Len(g) + 1
      BY <1>4, <2>1, <2>9
    <3> QED
      <4>1. f \in Seq(ChildSet) /\ Inserted(g, j, c, f)
        BY <1>4, <2>9, <2>10, <3>1, InsertFacts
      <4> QED
        BY <4>1 DEF Inserted
  <2>13. /\ ~ms[z].leaf /\ ms[z].entries = f /\ ms[z].rightmost = ns[z].rightmost
         /\ ms[z] \in InternalNodes
    BY <1>4, <2>11, <2>12, InternalFields, InternalTyped
  <2>14. Width(ms, z) = Width(ns, z) + 1
    BY <1>4, <2>9, <2>12, <2>13 DEF Width
  <2>15. ASSUME NEW i \in 1..Width(ns, z) + 2
         PROVE  Kid(ms, z, i) = IF i <= j THEN Kid(ns, z, i)
                                ELSE IF i = j + 1 THEN right ELSE Kid(ns, z, i - 1)
    <3>1. CASE i = Len(e) + 2
      <4>1. ~(i <= j) /\ i # j + 1 /\ ~(i <= Width(ms, z)) /\ i - 1 = Len(e) + 1
        BY <1>4, <2>1, <2>14, <3>1
      <4> QED
        BY <1>6, <2>13, <4>1 DEF Kid
    <3>2. CASE i # Len(e) + 2
      <4>1. i \in 1..Len(g) + 1 /\ i <= Width(ms, z)
        BY <1>4, <2>9, <2>14, <3>2
      <4>2. Kid(ms, z, i) = f[i].child
        BY <2>13, <4>1 DEF Kid
      <4>3. CASE i < j
        <5>1. f[i] = g[i] /\ g[i] = e[i] /\ i \in 1..Len(e)
          BY <1>4, <2>1, <2>9, <2>12, <4>1, <4>3
        <5> QED
          BY <1>6, <4>2, <4>3, <5>1
      <4>4. CASE i = j
        <5>1. f[i] = c
          BY <2>12, <4>1, <4>4
        <5> QED
          BY <1>4, <4>2, <4>4, <5>1
      <4>5. CASE i = j + 1
        <5>1. f[i] = g[j]
          BY <2>1, <2>12, <4>1, <4>5
        <5> QED
          BY <2>1, <2>8, <2>9, <4>2, <4>5, <5>1
      <4>6. CASE i > j + 1
        <5>1. i - 1 \in 1..Len(e) /\ i - 1 # j /\ ~(i < j) /\ i # j /\ ~(i <= j) /\ i # j + 1
          BY <1>4, <2>1, <2>9, <4>1, <4>6
        <5>2. f[i] = g[i - 1] /\ g[i - 1] = e[i - 1]
          BY <2>9, <2>12, <4>1, <5>1
        <5> QED
          BY <1>6, <4>2, <5>1, <5>2
      <4> QED
        BY <2>1, <4>3, <4>4, <4>5, <4>6
    <3> QED
      BY <3>1, <3>2
  <2>16. ASSUME NEW i \in 1..Width(ns, z) + 1
         PROVE  Key(ms, z, i) = IF i < j THEN Key(ns, z, i)
                                ELSE IF i = j THEN key ELSE Key(ns, z, i - 1)
    <3>1. i \in 1..Len(g) + 1 /\ Key(ms, z, i) = f[i].key
      BY <1>4, <2>9, <2>13 DEF Key
    <3>2. CASE i < j
      <4>1. f[i] = g[i] /\ g[i] = e[i] /\ i \in 1..Len(e)
        BY <1>4, <2>1, <2>9, <2>12, <3>1, <3>2
      <4> QED
        BY <1>6, <3>1, <3>2, <4>1
    <3>3. CASE i = j
      <4>1. f[i] = c
        BY <2>12, <3>1, <3>3
      <4> QED
        BY <1>4, <3>1, <3>3, <4>1
    <3>4. CASE i = j + 1
      <4>1. f[i] = g[j] /\ i - 1 = j /\ ~(i < j) /\ i # j
        BY <2>1, <2>12, <3>1, <3>4
      <4> QED
        BY <1>6, <2>1, <2>8, <2>9, <3>1, <4>1
    <3>5. CASE i > j + 1
      <4>1. i - 1 \in 1..Len(e) /\ i - 1 # j /\ ~(i < j) /\ i # j
        BY <1>4, <2>1, <2>9, <3>1, <3>5
      <4>2. f[i] = g[i - 1] /\ g[i - 1] = e[i - 1]
        BY <2>9, <2>12, <3>1, <4>1
      <4> QED
        BY <1>6, <3>1, <4>1, <4>2
    <3> QED
      BY <2>1, <3>2, <3>3, <3>4, <3>5
  <2> QED
    BY <2>13, <2>14, <2>15, <2>16 DEF Promoted
<1> QED
  BY <1>7, <1>8

-----------------------------------------------------------------------------
(* The split of one page                                                   *)

TreeOf(ns, r, err) == [nodes |-> ns, root |-> r, err |-> err]

LEMMA TreeFields ==
    ASSUME NEW ns, NEW r, NEW err, NEW t, t = TreeOf(ns, r, err)
    PROVE  t.nodes = ns /\ t.root = r /\ t.err = err
BY DEF TreeOf

LEMMA TreeWithNodes ==
    ASSUME NEW ns, NEW r, NEW err, NEW t, t = TreeOf(ns, r, err), NEW ms
    PROVE  [t EXCEPT !.nodes = ms] = TreeOf(ms, r, err)
BY DEF TreeOf

LEMMA TreeWithError ==
    ASSUME NEW ns, NEW r, NEW err, NEW t, t = TreeOf(ns, r, err), NEW e
    PROVE  [t EXCEPT !.err = e] = TreeOf(ns, r, e)
BY DEF TreeOf

WithRoot(t, ms, top) == [t EXCEPT !.nodes = ms, !.root = top]

LEMMA TreeWithRoot ==
    ASSUME NEW ns, NEW r, NEW err, NEW t, t = TreeOf(ns, r, err), NEW ms, NEW top
    PROVE  WithRoot(t, ms, top) = TreeOf(ms, top, err)
<1>1. PICK u : u = [t EXCEPT !.nodes = ms]
  OBVIOUS
<1>2. u = TreeOf(ms, r, err)
  BY <1>1, TreeWithNodes
<1>3. [u EXCEPT !.root = top] = TreeOf(ms, top, err)
  BY <1>2 DEF TreeOf
<1>4. WithRoot(t, ms, top) = [u EXCEPT !.root = top]
  BY Zenon, <1>1 DEF WithRoot
<1> QED
  BY <1>3, <1>4

LEMMA FreshIsNext ==
    ASSUME NEW ns, NEW r, NEW err, NEW t, t = TreeOf(ns, r, err), NEW n \in Nat, DOMAIN ns = 1..n
    PROVE  FreshPage(t) = n + 1 /\ Cardinality(DOMAIN t.nodes) = n
<1>1. t.nodes = ns
  BY TreeFields
<1>2. Cardinality(1..n) = n
  BY FS_Interval
<1> QED
  BY <1>1, <1>2 DEF FreshPage

\* The right half of a leaf is linked in behind the left one, and the leaf
\* that follows is told so.
LeafSplitTo(ns, ms, p, right, u, v) ==
    /\ DOMAIN ms = DOMAIN ns \cup {right}
    /\ ms[p] = LeafNode(u, ns[p].prev, right, ns[p].parent)
    /\ ms[right] = LeafNode(v, p, ns[p].next, ns[p].parent)
    /\ \A q \in DOMAIN ns : q # p =>
          ms[q] = IF q = ns[p].next THEN [ns[q] EXCEPT !.prev = right] ELSE ns[q]

Cuts(s, at, u, v) == u = SubSeq(s, 1, at - 1) /\ v = SubSeq(s, at, Len(s))

LEMMA SplitLeafNodes ==
    ASSUME NEW ns, NEW r, NEW err, NEW t, t = TreeOf(ns, r, err), NEW p \in Leaves(ns),
           NEW right, right = FreshPage(t), right \notin DOMAIN ns, NEW at,
           NEW u, NEW v, Cuts(ns[p].entries, at, u, v)
    PROVE  \E ms : SplitLeaf(t, p, at) = TreeOf(ms, r, err) /\ LeafSplitTo(ns, ms, p, right, u, v)
<1>1. PICK linked : linked = [q \in DOMAIN ns |->
                         IF q = ns[p].next THEN [ns[q] EXCEPT !.prev = right] ELSE ns[q]]
  OBVIOUS
<1>2. PICK lh : lh = LeafNode(u, ns[p].prev, right, ns[p].parent)
  OBVIOUS
<1>3. PICK rh : rh = LeafNode(v, p, ns[p].next, ns[p].parent)
  OBVIOUS
<1>4. PICK m1 : m1 = Put(linked, p, lh)
  OBVIOUS
<1>5. PICK ms : ms = Put(m1, right, rh)
  OBVIOUS
<1>6. t.nodes = ns /\ p \in DOMAIN ns /\ p # right
  BY TreeFields DEF Leaves
<1>7. SplitLeaf(t, p, at) = [t EXCEPT !.nodes = ms]
  BY <1>1, <1>2, <1>3, <1>4, <1>5, <1>6 DEF SplitLeaf, Cuts
<1>8. SplitLeaf(t, p, at) = TreeOf(ms, r, err)
  BY <1>7, TreeWithNodes
<1>9. DOMAIN linked = DOMAIN ns
  BY <1>1
<1>10. Wrote(linked, p, lh, m1) /\ Wrote(m1, right, rh, ms)
  BY <1>4, <1>5, PutWrites
<1>11. DOMAIN ms = DOMAIN ns \cup {right} /\ ms[p] = lh /\ ms[right] = rh
  BY <1>6, <1>9, <1>10 DEF Wrote
<1>12. \A q \in DOMAIN ns : q # p => ms[q] = linked[q]
  BY <1>6, <1>9, <1>10 DEF Wrote
<1>13. \A q \in DOMAIN ns : q # p =>
          ms[q] = IF q = ns[p].next THEN [ns[q] EXCEPT !.prev = right] ELSE ns[q]
  BY <1>1, <1>12
<1>14. LeafSplitTo(ns, ms, p, right, u, v)
  BY <1>2, <1>3, <1>11, <1>13 DEF LeafSplitTo
<1> QED
  BY <1>8, <1>14

LEMMA SplitLeafCut ==
    ASSUME NEW ns, NEW r, NEW err, Typed(ns), Placed(ns, r), NEW t, t = TreeOf(ns, r, err),
           NEW p \in Leaves(ns), NEW right \in Nat \ {0}, right = FreshPage(t),
           right \notin DOMAIN ns, NEW at \in 1..Width(ns, p)
    PROVE  \E ms : /\ SplitLeaf(t, p, at) = TreeOf(ms, r, err)
                   /\ Typed(ms) /\ LeafCut(ns, ms, p, right, at, p)
                   /\ \A q \in DOMAIN ns : ~ns[q].leaf => ms[q] = ns[q]
<1>1. PICK s : s = ns[p].entries
  OBVIOUS
<1>2. PICK u : u = SubSeq(s, 1, at - 1)
  OBVIOUS
<1>3. PICK v : v = SubSeq(s, at, Len(s))
  OBVIOUS
<1>4. PICK ms : SplitLeaf(t, p, at) = TreeOf(ms, r, err) /\ LeafSplitTo(ns, ms, p, right, u, v)
  <2>1. Cuts(ns[p].entries, at, u, v)
    BY <1>1, <1>2, <1>3 DEF Cuts
  <2> QED
    BY <2>1, SplitLeafNodes
<1>5. /\ p \in DOMAIN ns /\ s \in Seq(EntrySet) /\ ns[p].prev \in Nat /\ ns[p].next \in Nat
      /\ ns[p].parent \in Nat /\ Width(ns, p) = Len(s) /\ Width(ns, p) \in Nat
      /\ p \in Nat \ {0} /\ p # right /\ ns[p].leaf
  BY <1>1, LeafEntries DEF Typed, Leaves
<1>6. u \in Seq(EntrySet) /\ v \in Seq(EntrySet)
  <2>1. /\ 1 \in 1..Len(s) + 1 /\ at - 1 \in 1 - 1..Len(s)
        /\ at \in 1..Len(s) + 1 /\ Len(s) \in at - 1..Len(s)
    BY <1>5
  <2> QED
    BY <1>2, <1>3, <1>5, <2>1, SubFacts
<1>7. /\ DOMAIN ms = DOMAIN ns \cup {right}
      /\ ms[p] = LeafNode(u, ns[p].prev, right, ns[p].parent)
      /\ ms[right] = LeafNode(v, p, ns[p].next, ns[p].parent)
  BY <1>4 DEF LeafSplitTo
<1>8. /\ ms[p].leaf /\ ms[p].entries = u /\ ms[p].prev = ns[p].prev /\ ms[p].next = right
      /\ ms[p] \in LeafNodes
  <2>1. ms[p] \in LeafNodes
    BY <1>5, <1>6, <1>7, LeafTyped
  <2> QED
    BY <1>7, <2>1, LeafFields
<1>9. /\ ms[right].leaf /\ ms[right].entries = v /\ ms[right].prev = p
      /\ ms[right].next = ns[p].next /\ ms[right] \in LeafNodes
  <2>1. ms[right] \in LeafNodes
    BY <1>5, <1>6, <1>7, LeafTyped
  <2> QED
    BY <1>7, <2>1, LeafFields
<1>10. ns[p].next = NO_PAGE \/ ns[p].next \in Leaves(ns)
  BY DEF Placed, Chained, NextLeaf
<1>11. ASSUME NEW q \in DOMAIN ns, q # p
      PROVE  /\ SameNode(ns, ms, q) /\ ms[q] \in LeafNodes \cup InternalNodes
             /\ ns[q].leaf => /\ ms[q].next = ns[q].next
                              /\ ms[q].prev = IF q = ns[p].next THEN right ELSE ns[q].prev
             /\ ~ns[q].leaf => ms[q] = ns[q]
  <2>1. CASE q = ns[p].next
    <3>1. ns[q].leaf /\ ns[q] \in LeafNodes
      <4>1. q \in Leaves(ns)
        BY <1>10, <2>1 DEF Typed, NO_PAGE
      <4> QED
        BY <4>1, NodeFields DEF Leaves
    <3>2. ms[q] = [ns[q] EXCEPT !.prev = right]
      BY <1>4, <1>11, <2>1 DEF LeafSplitTo
    <3>3. PICK x : x = ns[q]
      OBVIOUS
    <3>4. PICK y : y = ms[q]
      OBVIOUS
    <3>5. x \in LeafNodes /\ y = [x EXCEPT !.prev = right]
      BY <3>1, <3>2, <3>3, <3>4
    <3>6. /\ y \in LeafNodes /\ y.leaf = x.leaf /\ y.entries = x.entries /\ y.next = x.next
          /\ y.prev = right
      BY <3>5 DEF LeafNodes
    <3> QED
      BY <2>1, <3>1, <3>3, <3>4, <3>6 DEF SameNode
  <2>2. CASE q # ns[p].next
    <3>1. ms[q] = ns[q] /\ ns[q] \in LeafNodes \cup InternalNodes
      BY <1>4, <1>11, <2>2 DEF Typed, LeafSplitTo
    <3> QED
      BY <2>2, <3>1 DEF SameNode
  <2> QED
    BY <2>1, <2>2
<1>12. Typed(ms)
  BY <1>7, <1>8, <1>9, <1>11 DEF Typed
<1>13. LinkedBehind(ns, ms, p, right)
  <2>1. Leaves(ms) = Leaves(ns) \cup {right}
    BY <1>5, <1>7, <1>8, <1>9, <1>11 DEF Leaves, SameNode
  <2>2. ASSUME NEW q \in Leaves(ns), q # p
        PROVE  /\ ms[q].next = ns[q].next
               /\ ms[q].prev = IF q = ns[p].next THEN right ELSE ns[q].prev
    BY <1>11, <2>2 DEF Leaves
  <2> QED
    BY <1>8, <1>9, <2>1, <2>2 DEF LinkedBehind
<1>14. LeafCut(ns, ms, p, right, at, p)
  BY <1>1, <1>2, <1>3, <1>5, <1>7, <1>8, <1>9, <1>11, <1>13 DEF LeafCut
<1> QED
  BY <1>4, <1>5, <1>11, <1>12, <1>14

LEMMA SplitInternalCut ==
    ASSUME NEW ns, NEW r, NEW err, Typed(ns), NEW t, t = TreeOf(ns, r, err),
           NEW p \in DOMAIN ns, ~ns[p].leaf, NEW right \in Nat \ {0}, right = FreshPage(t),
           right \notin DOMAIN ns, NEW at \in 1..Width(ns, p)
    PROVE  \E ms : /\ SplitInternal(t, p, at) = TreeOf(ms, r, err)
                   /\ Typed(ms) /\ InternalCut(ns, ms, p, right, at, p)
                   /\ \A q \in DOMAIN ns : q # p => ms[q] = ns[q]
<1>1. PICK s : s = ns[p].entries
  OBVIOUS
<1>2. PICK u : u = SubSeq(s, 1, at - 1)
  OBVIOUS
<1>3. PICK v : v = SubSeq(s, at + 1, Len(s))
  OBVIOUS
<1>4. PICK lh : lh = InternalNode(u, s[at].child, ns[p].parent)
  OBVIOUS
<1>5. PICK rh : rh = InternalNode(v, ns[p].rightmost, ns[p].parent)
  OBVIOUS
<1>6. PICK m1 : m1 = Put(ns, p, lh)
  OBVIOUS
<1>7. PICK ms : ms = Put(m1, right, rh)
  OBVIOUS
<1>8. t.nodes = ns /\ p # right
  BY TreeFields
<1>9. SplitInternal(t, p, at) = [t EXCEPT !.nodes = ms]
  BY <1>1, <1>2, <1>3, <1>4, <1>5, <1>6, <1>7, <1>8 DEF SplitInternal
<1>10. SplitInternal(t, p, at) = TreeOf(ms, r, err)
  BY <1>9, TreeWithNodes
<1>11. /\ s \in Seq(ChildSet) /\ ns[p].rightmost \in Nat /\ ns[p].parent \in Nat
       /\ Width(ns, p) = Len(s) /\ Width(ns, p) \in Nat
  BY <1>1, InternalEntries
<1>12. u \in Seq(ChildSet) /\ v \in Seq(ChildSet)
  <2>1. /\ 1 \in 1..Len(s) + 1 /\ at - 1 \in 1 - 1..Len(s)
        /\ at + 1 \in 1..Len(s) + 1 /\ Len(s) \in at + 1 - 1..Len(s)
    BY <1>11
  <2> QED
    BY <1>2, <1>3, <1>11, <2>1, SubFacts
<1>13. s[at].child \in Nat
  <2>1. s[at] \in ChildSet
    BY <1>11
  <2> QED
    BY <2>1 DEF ChildSet
<1>14. Wrote(ns, p, lh, m1) /\ Wrote(m1, right, rh, ms)
  BY <1>6, <1>7, PutWrites
<1>15. /\ DOMAIN ms = DOMAIN ns \cup {right} /\ ms[p] = lh /\ ms[right] = rh
       /\ \A q \in DOMAIN ns : q # p => ms[q] = ns[q]
  BY <1>8, <1>14 DEF Wrote
<1>16. lh \in InternalNodes /\ rh \in InternalNodes
  BY <1>4, <1>5, <1>11, <1>12, <1>13, InternalTyped
<1>17. /\ ~lh.leaf /\ lh.entries = u /\ lh.rightmost = s[at].child
  BY <1>4, InternalFields
<1>18. /\ ~rh.leaf /\ rh.entries = v /\ rh.rightmost = ns[p].rightmost
  BY <1>5, InternalFields
<1>19. Typed(ms)
  BY <1>15, <1>16 DEF Typed
<1>20. InternalCut(ns, ms, p, right, at, p)
  BY <1>1, <1>2, <1>3, <1>11, <1>15, <1>17, <1>18 DEF InternalCut, SameNode, SameLinks
<1> QED
  BY <1>10, <1>15, <1>19, <1>20

\* The page z of the parent is written too.
Carried(ms0, ms, p, z) ==
    /\ DOMAIN ms = DOMAIN ms0 \cup {z} /\ ~ms[z].leaf
    /\ \A q \in DOMAIN ms0 : q # z /\ q # p => ms[q] = ms0[q]
    /\ SameNode(ms0, ms, p) /\ (ms0[p].leaf => SameLinks(ms0, ms, p))

\* The parent z is there already, or it is a new page.
Grown(ns, ns1, z) ==
    /\ DOMAIN ns1 = DOMAIN ns \cup {z} /\ ~ns1[z].leaf /\ z \notin Leaves(ns)
    /\ \A q \in DOMAIN ns : q # z => ns1[q] = ns[q]

LEMMA LeafCutCarried ==
    ASSUME NEW ns, NEW ns1, NEW ms0, NEW ms, NEW p \in Leaves(ns), NEW right, NEW at, NEW z,
           LeafCut(ns, ms0, p, right, at, p), right \notin DOMAIN ns, z # p, z # right,
           Carried(ms0, ms, p, z), Grown(ns, ns1, z)
    PROVE  LeafCut(ns1, ms, p, right, at, z)
<1>1. /\ DOMAIN ms0 = DOMAIN ns \cup {right} /\ LinkedBehind(ns, ms0, p, right)
      /\ p \in DOMAIN ns /\ p # right /\ ns[p].leaf
  BY DEF LeafCut, Leaves
<1>2. DOMAIN ms = DOMAIN ns1 \cup {right}
  BY <1>1 DEF Carried, Grown
<1>3. ns1[p] = ns[p] /\ ms[right] = ms0[right]
  BY <1>1 DEF Grown, Carried
<1>4. Leaves(ns1) = Leaves(ns)
  BY DEF Grown, Leaves
<1>5. Leaves(ms) = Leaves(ms0)
  <2>1. z \notin Leaves(ms0)
    BY <1>1 DEF LinkedBehind, Grown
  <2> QED
    BY <2>1 DEF Carried, SameNode, Leaves
<1>6. p \in Leaves(ms0) /\ right \in Leaves(ms0) /\ ms0[p].leaf
  BY <1>1 DEF LinkedBehind, Leaves
<1>7. ms[p].entries = ms0[p].entries /\ ms[p].next = ms0[p].next /\ ms[p].prev = ms0[p].prev
  BY <1>6 DEF Carried, SameNode, SameLinks
<1>8. ASSUME NEW q \in Leaves(ns), q # p
      PROVE  /\ ms[q].next = ns1[q].next
             /\ ms[q].prev = IF q = ns1[p].next THEN right ELSE ns1[q].prev
  <2>1. q \in DOMAIN ns /\ q # z
    BY DEF Leaves, Grown
  <2>2. ns1[q] = ns[q] /\ ms[q] = ms0[q]
    BY <1>1, <1>8, <2>1 DEF Grown, Carried
  <2> QED
    BY <1>1, <1>3, <1>8, <2>2 DEF LinkedBehind
<1>9. LinkedBehind(ns1, ms, p, right)
  BY <1>1, <1>3, <1>4, <1>5, <1>7, <1>8 DEF LinkedBehind
<1>10. ASSUME NEW q \in DOMAIN ns1, q # p, q # z
       PROVE  SameNode(ns1, ms, q)
  <2>1. q \in DOMAIN ns /\ ns1[q] = ns[q] /\ ms[q] = ms0[q] /\ SameNode(ns, ms0, q)
    BY <1>1, <1>10 DEF Grown, Carried, LeafCut
  <2> QED
    BY <2>1 DEF SameNode
<1>11. /\ ms[p].entries = SubSeq(ns1[p].entries, 1, at - 1)
       /\ ms[right].entries = SubSeq(ns1[p].entries, at, Width(ns1, p))
  BY <1>3, <1>7 DEF LeafCut, Width
<1> QED
  BY <1>2, <1>9, <1>10, <1>11 DEF LeafCut

LEMMA InternalCutCarried ==
    ASSUME NEW ns, NEW ns1, NEW ms0, NEW ms, NEW p \in DOMAIN ns, NEW right, NEW at, NEW z,
           InternalCut(ns, ms0, p, right, at, p), right \notin DOMAIN ns, z # p, z # right,
           Carried(ms0, ms, p, z), Grown(ns, ns1, z)
    PROVE  InternalCut(ns1, ms, p, right, at, z)
<1>1. DOMAIN ms0 = DOMAIN ns \cup {right} /\ p # right
  BY DEF InternalCut
<1>2. DOMAIN ms = DOMAIN ns1 \cup {right}
  BY <1>1 DEF Carried, Grown
<1>3. ns1[p] = ns[p] /\ ms[right] = ms0[right]
  BY <1>1 DEF Grown, Carried
<1>4. /\ ~ms[p].leaf /\ ms[p].entries = ms0[p].entries /\ ms[p].rightmost = ms0[p].rightmost
      /\ ~ms[right].leaf /\ ~ms[z].leaf
  BY <1>3 DEF Carried, SameNode, InternalCut
<1>5. ASSUME NEW q \in DOMAIN ns1, q # p, q # z
       PROVE  SameNode(ns1, ms, q) /\ SameLinks(ns1, ms, q)
  <2>1. /\ q \in DOMAIN ns /\ ns1[q] = ns[q] /\ ms[q] = ms0[q] /\ SameNode(ns, ms0, q)
        /\ SameLinks(ns, ms0, q)
    BY <1>1, <1>5 DEF Grown, Carried, InternalCut
  <2> QED
    BY <2>1 DEF SameNode, SameLinks
<1>6. /\ ms[p].entries = SubSeq(ns1[p].entries, 1, at - 1)
      /\ ms[p].rightmost = ns1[p].entries[at].child
      /\ ms[right].entries = SubSeq(ns1[p].entries, at + 1, Width(ns1, p))
      /\ ms[right].rightmost = ns1[p].rightmost
  BY <1>3, <1>4 DEF InternalCut, Width
<1> QED
  BY <1>2, <1>4, <1>5, <1>6 DEF InternalCut

LEMMA LeafCutSound ==
    ASSUME NEW ns, NEW r, NEW E, Sound(ns, r, E), NEW p \in Leaves(ns),
           NEW z \in DOMAIN ns, NEW j \in Slots(ns, z), Kid(ns, z, j) = p,
           NEW at \in 1..Width(ns, p), NEW right \in Nat \ {0}, right \notin DOMAIN ns,
           NEW ms, LeafCut(ns, ms, p, right, at, z),
           Promoted(ns, ms, z, j, Key(ns, p, at), right), Typed(ms)
    PROVE  Sound(ms, r, E)
<1>1. Typed(ns) /\ Placed(ns, r) /\ Stored(ns, E)
  BY DEF Sound
<1>2. Placed(ms, r)
  BY <1>1, LeafCutShape
<1>3. z \notin Leaves(ns)
  BY DEF Slots, Leaves
<1>4. Stored(ms, E)
  BY <1>1, <1>3, LeafCutStored
<1> QED
  BY <1>2, <1>4 DEF Sound

LEMMA InternalCutSound ==
    ASSUME NEW ns, NEW r, NEW E, Sound(ns, r, E), NEW p \in DOMAIN ns, ~ns[p].leaf,
           NEW z \in DOMAIN ns, NEW j \in Slots(ns, z), Kid(ns, z, j) = p,
           NEW at \in 1..Width(ns, p), NEW right \in Nat \ {0}, right \notin DOMAIN ns,
           NEW ms, InternalCut(ns, ms, p, right, at, z),
           Promoted(ns, ms, z, j, Key(ns, p, at), right), Typed(ms)
    PROVE  Sound(ms, r, E)
<1>1. Typed(ns) /\ Placed(ns, r) /\ Stored(ns, E)
  BY DEF Sound
<1>2. Placed(ms, r)
  BY <1>1, InternalCutShape
<1>3. Leaves(ms) = Leaves(ns) /\ \A q \in Leaves(ns) : ms[q].entries = ns[q].entries
  BY DEF InternalCut, SameNode, Leaves, Slots
<1>4. Stored(ms, E)
  BY <1>1, <1>3, SameLeavesStored
<1> QED
  BY <1>2, <1>4 DEF Sound

PageCut(ns, ms, p, right, at, z) ==
    IF ns[p].leaf THEN LeafCut(ns, ms, p, right, at, z) ELSE InternalCut(ns, ms, p, right, at, z)

SplitPage(t, p, at) == IF t.nodes[p].leaf THEN SplitLeaf(t, p, at) ELSE SplitInternal(t, p, at)

\* The internal nodes other than p stay as they are.
OtherNodes(ns, ms, p) == \A q \in DOMAIN ns : q # p /\ ~ns[q].leaf => ms[q] = ns[q]

LEMMA SplitCut ==
    ASSUME NEW ns, NEW r, NEW err, Typed(ns), Placed(ns, r), NEW t, t = TreeOf(ns, r, err),
           NEW p \in DOMAIN ns, NEW right \in Nat \ {0}, right = FreshPage(t),
           right \notin DOMAIN ns, NEW at \in 1..Width(ns, p)
    PROVE  \E ms : /\ SplitPage(t, p, at) = TreeOf(ms, r, err)
                   /\ Typed(ms) /\ PageCut(ns, ms, p, right, at, p)
                   /\ OtherNodes(ns, ms, p)
<1>1. t.nodes = ns /\ ns[p].leaf \in BOOLEAN
  BY TreeFields, NodeFields
<1>2. CASE ns[p].leaf
  <2>1. p \in Leaves(ns) /\ SplitPage(t, p, at) = SplitLeaf(t, p, at)
    BY <1>1, <1>2 DEF Leaves, SplitPage
  <2>2. PICK ms : /\ SplitLeaf(t, p, at) = TreeOf(ms, r, err)
                  /\ Typed(ms) /\ LeafCut(ns, ms, p, right, at, p)
                  /\ \A q \in DOMAIN ns : ~ns[q].leaf => ms[q] = ns[q]
    BY <2>1, SplitLeafCut
  <2> QED
    BY <1>2, <2>1, <2>2 DEF PageCut, OtherNodes
<1>3. CASE ~ns[p].leaf
  <2>1. SplitPage(t, p, at) = SplitInternal(t, p, at)
    BY <1>1, <1>3 DEF SplitPage
  <2>2. PICK ms : /\ SplitInternal(t, p, at) = TreeOf(ms, r, err)
                  /\ Typed(ms) /\ InternalCut(ns, ms, p, right, at, p)
                  /\ \A q \in DOMAIN ns : q # p => ms[q] = ns[q]
    BY <1>3, SplitInternalCut
  <2> QED
    BY <1>3, <2>1, <2>2 DEF PageCut, OtherNodes
<1> QED
  BY <1>1, <1>2, <1>3

\* A page is split and its parent z learns of it.
CutStep(ns, ns1, ms0, ms, p, right, at, z, j) ==
    /\ Typed(ns) /\ p \in DOMAIN ns /\ right \in Nat \ {0} /\ right \notin DOMAIN ns
    /\ at \in 1..Width(ns, p) /\ z \in Nat \ {0} /\ z # p /\ z # right /\ Grown(ns, ns1, z)
    /\ Typed(ms0) /\ PageCut(ns, ms0, p, right, at, p)
    /\ Carried(ms0, ms, p, z) /\ ms[z] \in InternalNodes /\ ms[p] \in LeafNodes \cup InternalNodes
    /\ j \in Slots(ns1, z) /\ Kid(ns1, z, j) = p
    /\ Promoted(ns1, ms, z, j, Key(ns, p, at), right)

LEMMA CutParent ==
    ASSUME NEW ns, NEW ns1, NEW r, NEW E, Sound(ns1, r, E), NEW ms0, NEW ms, NEW p, NEW right,
           NEW at, NEW z, NEW j, CutStep(ns, ns1, ms0, ms, p, right, at, z, j)
    PROVE  Sound(ms, r, E) /\ Kept(ns1, ms, p, z)
<1> USE DEF CutStep
<1>1. /\ p \in DOMAIN ns1 /\ ns1[p] = ns[p] /\ z \in DOMAIN ns1 /\ right \notin DOMAIN ns1
      /\ ns[p].leaf \in BOOLEAN
  BY NodeFields DEF Grown
<1>2. Width(ns1, p) = Width(ns, p) /\ Key(ns1, p, at) = Key(ns, p, at)
  BY <1>1 DEF Width, Key
<1>3. Typed(ms)
  <2> SUFFICES ASSUME NEW q \in DOMAIN ms
               PROVE  q \in Nat \ {0} /\ ms[q] \in LeafNodes \cup InternalNodes
    BY DEF Typed
  <2>1. DOMAIN ms = DOMAIN ms0 \cup {z} /\ \A x \in DOMAIN ms0 : x # z /\ x # p => ms[x] = ms0[x]
    BY DEF Carried
  <2>2. \A x \in DOMAIN ms0 : x \in Nat \ {0} /\ ms0[x] \in LeafNodes \cup InternalNodes
    BY DEF Typed
  <2> QED
    BY <2>1, <2>2
<1>4. CASE ns[p].leaf
  <2>1. p \in Leaves(ns) /\ LeafCut(ns, ms0, p, right, at, p)
    BY <1>4 DEF Leaves, PageCut
  <2>2. LeafCut(ns1, ms, p, right, at, z)
    BY <2>1, LeafCutCarried
  <2>3. p \in Leaves(ns1)
    BY <1>1, <1>4 DEF Leaves
  <2>4. Sound(ms, r, E)
    BY <1>1, <1>2, <1>3, <2>2, <2>3, LeafCutSound
  <2> QED
    BY <2>2, <2>4, SameNodeSamePage DEF LeafCut, Kept
<1>5. CASE ~ns[p].leaf
  <2>1. InternalCut(ns, ms0, p, right, at, p)
    BY <1>5 DEF PageCut
  <2>2. InternalCut(ns1, ms, p, right, at, z)
    BY <2>1, InternalCutCarried
  <2>3. ~ns1[p].leaf
    BY <1>1, <1>5
  <2>4. Sound(ms, r, E)
    BY <1>1, <1>2, <1>3, <2>2, <2>3, InternalCutSound
  <2> QED
    BY <2>2, <2>4, SameNodeSamePage DEF InternalCut, Kept
<1> QED
  BY <1>1, <1>4, <1>5

LEMMA KidBelow ==
    ASSUME NEW ns, NEW r, Placed(ns, r), NEW z \in DOMAIN ns, NEW j \in Slots(ns, z)
    PROVE  Kid(ns, z, j) \in DOMAIN ns /\ Kid(ns, z, j) # z /\ Kid(ns, z, j) # r
<1>1. PICK a, b, K : TreeShape(ns, r, a, b, K)
  BY DEF Placed
<1>2. Kid(ns, z, j) \in DOMAIN ns /\ Inside(a, b, Kid(ns, z, j), z)
  BY <1>1 DEF TreeShape, PagePlaced, KidsPlaced
<1>3. r \in DOMAIN ns /\ (z # r => Inside(a, b, z, r))
  BY <1>1 DEF TreeShape, Rooted
<1>4. \A q \in DOMAIN ns : a[q] \in Int /\ b[q] \in Int /\ a[q] < b[q]
  BY <1>1, LabelTypes DEF TreeShape
<1> QED
  BY <1>2, <1>3, <1>4 DEF Inside

\* A split below the root.
LEMMA SplitBelowRoot ==
    ASSUME NEW ns, NEW r, NEW E, NEW err, Sound(ns, r, E), NEW n \in Nat, DOMAIN ns = 1..n,
           NEW t, t = TreeOf(ns, r, err), NEW z \in DOMAIN ns, NEW j \in Slots(ns, z),
           NEW p, Kid(ns, z, j) = p, NEW at \in 1..Width(ns, p), NEW right, right = FreshPage(t),
           NEW key, key = Key(ns, p, at)
    PROVE  \E ms : /\ [SplitPage(t, p, at) EXCEPT !.nodes =
                          Put(@, z, promote_into_internal(@[z], key, p, right))] = TreeOf(ms, r, err)
                   /\ Sound(ms, r, E) /\ DOMAIN ms = 1..n + 1 /\ Kept(ns, ms, p, z)
<1>1. Typed(ns) /\ Placed(ns, r)
  BY DEF Sound
<1>2. p \in DOMAIN ns /\ p # z
  BY <1>1, KidBelow
<1>3. right = n + 1 /\ right \in Nat \ {0} /\ right \notin DOMAIN ns /\ z # right
  BY FreshIsNext
<1>4. PICK ms0 : /\ SplitPage(t, p, at) = TreeOf(ms0, r, err)
                 /\ Typed(ms0) /\ PageCut(ns, ms0, p, right, at, p)
                 /\ OtherNodes(ns, ms0, p)
  <2>1. right \in Nat \ {0} /\ right \notin DOMAIN ns
    BY <1>3
  <2> QED
    BY <1>1, <1>2, <2>1, SplitCut
<1>5. ~ns[z].leaf /\ ms0[z] = ns[z]
  BY <1>2, <1>4 DEF Slots, OtherNodes
<1>6. PICK node : node = promote_into_internal(ns[z], key, p, right)
  OBVIOUS
<1>7. PICK ms : ms = Put(ms0, z, node)
  OBVIOUS
<1>8. PICK u : u = SplitPage(t, p, at)
  OBVIOUS
<1>9. u = TreeOf(ms0, r, err) /\ u.nodes = ms0
  BY <1>4, <1>8, TreeFields
<1>10. [u EXCEPT !.nodes = Put(@, z, promote_into_internal(@[z], key, p, right))]
         = [u EXCEPT !.nodes = ms]
  BY Zenon, <1>5, <1>6, <1>7, <1>9
<1>11. [u EXCEPT !.nodes = ms] = TreeOf(ms, r, err)
  BY <1>9, TreeWithNodes
<1>12. Wrote(ms0, z, node, ms)
  BY <1>7, PutWrites
<1>13. DOMAIN ms0 = DOMAIN ns \cup {right}
  BY <1>4 DEF PageCut, LeafCut, InternalCut
<1>14. /\ DOMAIN ms = DOMAIN ms0 \cup {z} /\ ms[z] = node /\ ms[p] = ms0[p]
       /\ \A q \in DOMAIN ms0 : q # z => ms[q] = ms0[q]
  BY <1>2, <1>12, <1>13 DEF Wrote
<1>15. p \in Nat /\ key \in Keys
  BY <1>1, <1>2, NodeFields DEF Typed
<1>16. ms[z] \in InternalNodes /\ Promoted(ns, ms, z, j, key, right)
  BY <1>1, <1>3, <1>6, <1>14, <1>15, PromotedNode
<1>17. Carried(ms0, ms, p, z)
  BY <1>14, <1>16 DEF Carried, SameNode, SameLinks, InternalNodes
<1>18. Grown(ns, ns, z)
  BY <1>5 DEF Grown, Leaves
<1>19. z \in Nat \ {0} /\ ms[p] \in LeafNodes \cup InternalNodes
  BY <1>1, <1>2, <1>4, <1>13, <1>14 DEF Typed
<1>20. Sound(ms, r, E) /\ Kept(ns, ms, p, z)
  <2>1. CutStep(ns, ns, ms0, ms, p, right, at, z, j)
    BY <1>1, <1>2, <1>3, <1>4, <1>16, <1>17, <1>18, <1>19 DEF CutStep
  <2> QED
    BY <2>1, CutParent
<1>21. DOMAIN ms = 1..n + 1
  BY <1>3, <1>13, <1>14
<1> QED
  BY <1>8, <1>10, <1>11, <1>20, <1>21

\* A root above the root, without separators yet.
LEMMA RootSound ==
    ASSUME NEW ns, NEW r, NEW E, Sound(ns, r, E), NEW top \in Nat \ {0}, top \notin DOMAIN ns,
           NEW ns1, ns1 = Put(ns, top, InternalNode(<<>>, r, NO_PAGE))
    PROVE  /\ Sound(ns1, top, E) /\ Grown(ns, ns1, top)
           /\ Width(ns1, top) = 0 /\ Slots(ns1, top) = 1..1 /\ Kid(ns1, top, 1) = r
<1>1. PICK x : x = InternalNode(<<>>, r, NO_PAGE)
  OBVIOUS
<1>2. ~x.leaf /\ x.entries = <<>> /\ x.rightmost = r
  BY <1>1, InternalFields
<1>3. Wrote(ns, top, x, ns1)
  BY <1>1, PutWrites
<1>4. /\ DOMAIN ns1 = DOMAIN ns \cup {top} /\ ns1[top] = x
      /\ \A q \in DOMAIN ns : ns1[q] = ns[q]
  BY <1>3 DEF Wrote
<1>5. Width(ns1, top) = 0 /\ Slots(ns1, top) = 1..1 /\ Kid(ns1, top, 1) = r /\ ~ns1[top].leaf
  BY <1>2, <1>4 DEF Width, Slots, Kid
<1>6. Leaves(ns1) = Leaves(ns)
  BY <1>4, <1>5 DEF Leaves
<1>7. Grown(ns, ns1, top)
  BY <1>4, <1>5 DEF Grown, Leaves
<1>8. Typed(ns) /\ Placed(ns, r) /\ Stored(ns, E)
  BY DEF Sound
<1>9. PICK a, b, K : TreeShape(ns, r, a, b, K) /\ Chained(ns, a, b)
  BY <1>8 DEF Placed
<1>10. r \in DOMAIN ns /\ r \in Nat
  BY <1>8, <1>9 DEF TreeShape, Rooted, Typed
<1>11. Typed(ns1)
  <2>1. x \in InternalNodes
    <3>1. PICK e : e = <<>>
      OBVIOUS
    <3>2. e \in Seq(ChildSet) /\ NO_PAGE \in Nat /\ x = InternalNode(e, r, NO_PAGE)
      BY <1>1, <3>1 DEF NO_PAGE
    <3> QED
      BY <1>10, <3>2, InternalTyped
  <2> QED
    BY <1>4, <1>8, <2>1 DEF Typed
<1>12. \A q \in DOMAIN ns : SamePage(ns, ns1, q)
  <2>1. \A q \in DOMAIN ns : SameNode(ns, ns1, q)
    BY <1>4 DEF SameNode
  <2> QED
    BY <2>1, SameNodeSamePage
<1>13. PICK a2, b2, K2 : /\ TreeShape(ns1, top, a2, b2, K2)
                         /\ \A q \in DOMAIN ns : a2[q] = a[q] /\ b2[q] = b[q] /\ K2[q] = K[q]
  <2>1. Kept(ns, ns1, top, top)
    BY <1>12 DEF Kept
  <2>2. \E a2, b2, K2 : TreeShape(ns1, top, a2, b2, K2) /\ SameLabels(DOMAIN ns, a, b, K, a2, b2, K2)
    BY <1>4, <1>5, <1>9, <2>1, RootAdded
  <2> QED
    BY <2>2 DEF SameLabels
<1>14. Chained(ns1, a2, b2)
  <2>1. \A q \in Leaves(ns) : q \in DOMAIN ns
    BY DEF Leaves
  <2>2. \A q \in Leaves(ns) : ns1[q].next = ns[q].next /\ ns1[q].prev = ns[q].prev
    BY <1>4, <2>1
  <2>3. \A q, l \in Leaves(ns) : b2[q] < a2[l] <=> b[q] < a[l]
    BY <1>13, <2>1
  <2> QED
    BY <1>6, <1>9, <2>2, <2>3, ChainReordered
<1>15. Stored(ns1, E)
  BY <1>4, <1>6, <1>8, SameLeavesStored DEF Leaves
<1> QED
  BY <1>5, <1>7, <1>11, <1>13, <1>14, <1>15 DEF Sound, Placed

\* The new root `top` has p and its right half below it.
Topped(ms0, ms, p, top, key, right) ==
    /\ DOMAIN ms = DOMAIN ms0 \cup {top}
    /\ ms[top] = InternalNode(<<[key |-> key, child |-> p]>>, right, NO_PAGE)
    /\ ms[p] = [ms0[p] EXCEPT !.parent = top]
    /\ \A q \in DOMAIN ms0 : q # p => ms[q] = ms0[q]

LEMMA RootCut ==
    ASSUME NEW ns, NEW p, NEW E, Sound(ns, p, E), NEW at \in 1..Width(ns, p),
           NEW right \in Nat \ {0}, right \notin DOMAIN ns,
           NEW top \in Nat \ {0}, top \notin DOMAIN ns, top # right,
           NEW ms0, Typed(ms0), PageCut(ns, ms0, p, right, at, p),
           NEW ms, Topped(ms0, ms, p, top, Key(ns, p, at), right)
    PROVE  Sound(ms, top, E)
<1>1. Typed(ns) /\ Placed(ns, p)
  BY DEF Sound
<1>2. p \in DOMAIN ns /\ p \in Nat \ {0} /\ top # p
  BY <1>1 DEF Placed, TreeShape, Rooted, Typed
<1>3. DOMAIN ms0 = DOMAIN ns \cup {right}
  BY DEF PageCut, LeafCut, InternalCut
<1>4. PICK key : key = Key(ns, p, at)
  OBVIOUS
<1>5. PICK c : c = [key |-> key, child |-> p]
  OBVIOUS
<1>6. /\ DOMAIN ms = DOMAIN ms0 \cup {top} /\ ms[top] = InternalNode(<<c>>, right, NO_PAGE)
      /\ ms[p] = [ms0[p] EXCEPT !.parent = top]
      /\ \A q \in DOMAIN ms0 : q # p => ms[q] = ms0[q]
  BY <1>4, <1>5 DEF Topped
<1>7. key \in Keys
  BY <1>1, <1>2, <1>4, NodeFields
<1>8. c \in ChildSet /\ c.key = key /\ c.child = p
  BY <1>2, <1>5, <1>7 DEF ChildSet
<1>9. PICK e : e = <<c>>
  OBVIOUS
<1>10. e \in Seq(ChildSet) /\ Len(e) = 1 /\ e[1] = c
  BY <1>8, <1>9
<1>11. ms[top] = InternalNode(e, right, NO_PAGE) /\ NO_PAGE \in Nat /\ right \in Nat
  BY <1>6, <1>9 DEF NO_PAGE
<1>12. ms[top] \in InternalNodes
  BY <1>10, <1>11, InternalTyped
<1>13. ~ms[top].leaf /\ ms[top].entries = e /\ ms[top].rightmost = right
  BY <1>11, InternalFields
<1>14. /\ ms[p] \in LeafNodes \cup InternalNodes /\ SameNode(ms0, ms, p)
       /\ (ms0[p].leaf => SameLinks(ms0, ms, p))
  <2>1. PICK x : x = ms0[p]
    OBVIOUS
  <2>2. PICK y : y = ms[p]
    OBVIOUS
  <2>3. p \in DOMAIN ms0 /\ y = [x EXCEPT !.parent = top]
    BY <1>2, <1>3, <1>6, <2>1, <2>2
  <2>4. CASE x \in LeafNodes
    <3>1. /\ y \in LeafNodes /\ y.leaf = x.leaf /\ y.entries = x.entries /\ y.next = x.next
          /\ y.prev = x.prev /\ x.leaf
      BY <2>3, <2>4 DEF LeafNodes
    <3> QED
      BY <2>1, <2>2, <3>1 DEF SameNode, SameLinks
  <2>5. CASE x \in InternalNodes
    <3>1. /\ y \in InternalNodes /\ y.leaf = x.leaf /\ y.entries = x.entries
          /\ y.rightmost = x.rightmost /\ ~x.leaf
      BY <2>3, <2>5 DEF InternalNodes
    <3> QED
      BY <2>1, <2>2, <3>1 DEF SameNode, SameLinks
  <2> QED
    BY <2>1, <2>3, <2>4, <2>5 DEF Typed
<1>15. Carried(ms0, ms, p, top)
  BY <1>6, <1>13, <1>14 DEF Carried
<1>16. PICK ns1 : ns1 = Put(ns, top, InternalNode(<<>>, p, NO_PAGE))
  OBVIOUS
<1>17. /\ Sound(ns1, top, E) /\ Grown(ns, ns1, top)
       /\ Width(ns1, top) = 0 /\ Slots(ns1, top) = 1..1 /\ Kid(ns1, top, 1) = p
  BY <1>16, RootSound
<1>18. Promoted(ns1, ms, top, 1, key, right)
  <2>1. ~ms[top].leaf /\ Width(ms, top) = 1 /\ ms[top].entries[1] = c /\ ms[top].rightmost = right
    BY <1>6, <1>10, <1>13 DEF Width
  <2>2. Kid(ms, top, 1) = p /\ Kid(ms, top, 2) = right /\ Key(ms, top, 1) = key
    BY <1>8, <2>1 DEF Kid, Key
  <2>3. ASSUME NEW i \in 1..0 + 2
        PROVE  Kid(ms, top, i) = IF i <= 1 THEN Kid(ns1, top, i)
                                 ELSE IF i = 1 + 1 THEN right ELSE Kid(ns1, top, i - 1)
    <3>1. i = 1 \/ i = 2
      OBVIOUS
    <3> QED
      BY <1>17, <2>2, <3>1
  <2>4. ASSUME NEW i \in 1..0 + 1
        PROVE  Key(ms, top, i) = IF i < 1 THEN Key(ns1, top, i)
                                 ELSE IF i = 1 THEN key ELSE Key(ns1, top, i - 1)
    <3>1. i = 1
      OBVIOUS
    <3> QED
      BY <2>2, <3>1
  <2> QED
    BY <1>17, <2>1, <2>3, <2>4 DEF Promoted
<1>19. PICK j : j = 1
  OBVIOUS
<1>20. j \in Slots(ns1, top) /\ Kid(ns1, top, j) = p /\ Promoted(ns1, ms, top, j, Key(ns, p, at), right)
  BY <1>4, <1>17, <1>18, <1>19
<1>21. /\ Sound(ns1, top, E) /\ Grown(ns, ns1, top) /\ ms[top] \in InternalNodes
       /\ ms[p] \in LeafNodes \cup InternalNodes
  BY <1>12, <1>14, <1>17
<1> QED
  <2>1. CutStep(ns, ns1, ms0, ms, p, right, at, top, j)
    BY <1>1, <1>2, <1>15, <1>20, <1>21 DEF CutStep
  <2> QED
    BY <1>21, <2>1, CutParent

\* The root is split.
LEMMA SplitAtRoot ==
    ASSUME NEW ns, NEW r, NEW E, NEW err, Sound(ns, r, E), NEW n \in Nat, DOMAIN ns = 1..n,
           NEW t, t = TreeOf(ns, r, err), NEW at \in 1..Width(ns, r),
           NEW right, right = FreshPage(t), NEW key, key = Key(ns, r, at)
    PROVE  \E ms : /\ GrowRoot(SplitPage(t, r, at), key, r, right) = TreeOf(ms, n + 2, err)
                   /\ Sound(ms, n + 2, E) /\ DOMAIN ms = 1..n + 2
<1>1. Typed(ns) /\ Placed(ns, r)
  BY DEF Sound
<1>2. r \in DOMAIN ns
  BY <1>1 DEF Placed, TreeShape, Rooted
<1>3. right = n + 1 /\ right \in Nat \ {0} /\ right \notin DOMAIN ns
  BY FreshIsNext
<1>4. PICK ms0 : /\ SplitPage(t, r, at) = TreeOf(ms0, r, err)
                 /\ Typed(ms0) /\ PageCut(ns, ms0, r, right, at, r)
                 /\ OtherNodes(ns, ms0, r)
  <2>1. right \in Nat \ {0} /\ right \notin DOMAIN ns
    BY <1>3
  <2> QED
    BY <1>1, <1>2, <2>1, SplitCut
<1>5. DOMAIN ms0 = DOMAIN ns \cup {right}
  BY <1>4 DEF PageCut, LeafCut, InternalCut
<1>6. PICK top : top = n + 2
  OBVIOUS
<1>7. top \in Nat \ {0} /\ top \notin DOMAIN ns /\ top # right
  BY <1>3, <1>6
<1>8. PICK u : u = SplitPage(t, r, at)
  OBVIOUS
<1>9. u = TreeOf(ms0, r, err) /\ u.nodes = ms0 /\ FreshPage(u) = top
  <2>1. u = TreeOf(ms0, r, err)
    BY <1>4, <1>8
  <2>2. n + 1 \in Nat /\ DOMAIN ms0 = 1..n + 1 /\ n + 1 + 1 = top
    BY <1>3, <1>5, <1>6
  <2>3. FreshPage(u) = n + 1 + 1
    BY <2>1, <2>2, FreshIsNext
  <2> QED
    BY <2>1, <2>2, <2>3, TreeFields
<1>10. PICK c : c = [key |-> key, child |-> r]
  OBVIOUS
<1>11. PICK above : above = InternalNode(<<c>>, right, NO_PAGE)
  OBVIOUS
<1>12. PICK below : below = [ms0 EXCEPT ![r].parent = top]
  OBVIOUS
<1>13. PICK ms : ms = Put(below, top, above)
  OBVIOUS
<1>14. GrowRoot(u, key, r, right) = WithRoot(u, ms, top)
  BY Zenon, <1>9, <1>10, <1>11, <1>12, <1>13 DEF GrowRoot, WithRoot
<1>15. GrowRoot(u, key, r, right) = TreeOf(ms, top, err)
  <2>1. u = TreeOf(ms0, r, err)
    BY <1>9
  <2>2. WithRoot(u, ms, top) = TreeOf(ms, top, err)
    BY <2>1, TreeWithRoot
  <2> QED
    BY <1>14, <2>2
<1>16. Sound(ms, top, E) /\ DOMAIN ms = DOMAIN ms0 \cup {top}
  <2>1. right \in Nat \ {0} /\ right \notin DOMAIN ns
    BY <1>3
  <2>2. Topped(ms0, ms, r, top, Key(ns, r, at), right)
    <3>1. Wrote(below, top, above, ms)
      BY <1>13, PutWrites
    <3>2. r \in DOMAIN ms0 /\ top \notin DOMAIN ms0
      BY <1>2, <1>5, <1>7
    <3>3. /\ DOMAIN below = DOMAIN ms0 /\ below[r] = [ms0[r] EXCEPT !.parent = top]
          /\ \A q \in DOMAIN ms0 : q # r => below[q] = ms0[q]
      BY <1>12, <3>2
    <3>4. /\ DOMAIN ms = DOMAIN ms0 \cup {top} /\ ms[top] = above /\ ms[r] = below[r]
          /\ \A q \in DOMAIN ms0 : q # r => ms[q] = ms0[q]
      BY <3>1, <3>2, <3>3 DEF Wrote
    <3> QED
      BY <1>10, <1>11, <3>3, <3>4 DEF Topped
  <2> QED
    <3>1. Sound(ms, top, E)
      BY <1>4, <1>7, <2>1, <2>2, RootCut
    <3> QED
      BY <2>2, <3>1 DEF Topped
<1>17. DOMAIN ms = 1..n + 2
  BY <1>3, <1>5, <1>6, <1>16
<1> QED
  BY <1>6, <1>8, <1>15, <1>16, <1>17

-----------------------------------------------------------------------------
(* The way up                                                              *)

Errors == {"ok", "KeyTooLarge", "FailedToAllocatePage"}

LEMMA SplitPlace ==
    ASSUME NEW ns, Typed(ns), NEW p \in DOMAIN ns, NEW capacity, NEW at,
           at = byte_balanced_split_index(SizesOf(ns[p].entries), capacity, ~ns[p].leaf)
    PROVE  at = 0 \/ at \in 1..Width(ns, p)
<1>1. PICK s : s = SizesOf(ns[p].entries)
  OBVIOUS
<1>2. PICK e : e = ns[p].entries
  OBVIOUS
<1>3. /\ Width(ns, p) \in Nat /\ DOMAIN e = 1..Width(ns, p)
      /\ \A i \in 1..Width(ns, p) : e[i].key \in Keys
      /\ ns[p].leaf \in BOOLEAN
  BY <1>2, NodeFields DEF Key
<1>4. s = [i \in 1..Width(ns, p) |-> KeySize[e[i].key]]
  BY <1>1, <1>2, <1>3 DEF SizesOf
<1>5. Len(s) = Width(ns, p) /\ \A k \in 1..Width(ns, p) : s[k] \in Nat
  <2>1. \A k \in 1..Width(ns, p) : KeySize[e[k].key] \in Nat
    BY <1>3, IndexAssumption
  <2>2. s \in Seq(Nat)
    BY <1>3, <1>4, <2>1
  <2> QED
    BY <1>3, <1>4, <2>1, <2>2
<1>6. Len(s) \in Nat /\ \A k \in 1..Len(s) : s[k] \in Nat
  BY <1>3, <1>5
<1>7. PICK median : median = ~ns[p].leaf
  OBVIOUS
<1>8. median \in BOOLEAN /\ at = byte_balanced_split_index(s, capacity, median)
  BY <1>1, <1>7
<1>9. at = 0 \/ (at \in 2..Len(s) /\ (median => at < Len(s)))
  BY <1>6, <1>8, SplitIndexInside
<1> QED
  BY <1>3, <1>5, <1>9

\* The levels up to l have not been looked at yet: path still leads down there.
PathKept(ns, r, path, l) ==
    /\ l > 0 => r = path[1]
    /\ \A i \in 1..l : path[i] \in DOMAIN ns
    /\ \A i \in 1..l - 1 : \E j \in Slots(ns, path[i]) : Kid(ns, path[i], j) = path[i + 1]

Numbered(ns) == \E n \in Nat : DOMAIN ns = 1..n

Climbing(t, ns, r, err, path, l, E) ==
    /\ t = TreeOf(ns, r, err) /\ err \in Errors
    /\ Sound(ns, r, E) /\ Numbered(ns) /\ PathKept(ns, r, path, l)

\* One level of the way up.
Climbs(t, path, l, E) == \E ns, r, err : Climbing(t, ns, r, err, path, l, E)

Apart(path) == \A i, j \in 1..Len(path) : i < j => path[i] # path[j]

LEMMA PathShorter ==
    ASSUME NEW ns, NEW r, NEW path, NEW l \in Nat \ {0}, PathKept(ns, r, path, l)
    PROVE  PathKept(ns, r, path, l - 1)
BY DEF PathKept

LEMMA LevelClimbs ==
    ASSUME NEW t, NEW path, NEW l \in 1..Len(path), Len(path) \in Nat, Apart(path), NEW E,
           Climbs(t, path, l, E)
    PROVE  Climbs(SplitLevel(t, path, l), path, l - 1, E)
<1>1. PICK ns, r, err : Climbing(t, ns, r, err, path, l, E)
  BY DEF Climbs
<1>2. /\ t = TreeOf(ns, r, err) /\ err \in Errors /\ Sound(ns, r, E) /\ Numbered(ns)
      /\ PathKept(ns, r, path, l)
  BY <1>1 DEF Climbing
<1>3. PICK n \in Nat : DOMAIN ns = 1..n
  BY <1>2 DEF Numbered
<1>4. PathKept(ns, r, path, l - 1)
  BY <1>2, PathShorter
<1>5. ASSUME NEW e \in Errors
      PROVE  Climbs(TreeOf(ns, r, e), path, l - 1, E)
  BY <1>2, <1>4 DEF Climbs, Climbing
<1>6. PICK p : p = path[l]
  OBVIOUS
<1>7. PICK capacity : capacity = IF ns[p].leaf THEN LeafCapacity ELSE InternalCapacity
  OBVIOUS
<1>8. PICK at : at = byte_balanced_split_index(SizesOf(ns[p].entries), capacity, ~ns[p].leaf)
  OBVIOUS
<1>9. PICK right : right = FreshPage(t)
  OBVIOUS
<1>10. PICK key : key = Key(ns, p, at)
  OBVIOUS
<1>11. PICK above : above = path[l - 1]
  OBVIOUS
<1>12. t.nodes = ns /\ t.err = err
  BY <1>2, TreeFields
<1> DEFINE up == [SplitPage(t, p, at) EXCEPT !.nodes =
                     Put(@, above, promote_into_internal(@[above], key, p, right))]
           grown == GrowRoot(SplitPage(t, p, at), key, p, right)
<1>13. \/ SplitLevel(t, path, l) = t
       \/ SplitLevel(t, path, l) = [t EXCEPT !.err = "KeyTooLarge"]
       \/ SplitLevel(t, path, l) = [t EXCEPT !.err = "FailedToAllocatePage"]
       \/ at # 0 /\ l = 1 /\ SplitLevel(t, path, l) = grown
       \/ at # 0 /\ l # 1 /\ SplitLevel(t, path, l) = up
  BY <1>6, <1>7, <1>8, <1>9, <1>10, <1>11, <1>12 DEF SplitLevel, SplitPage, Key
<1> HIDE DEF up, grown
<1>14. Typed(ns) /\ p \in DOMAIN ns
  BY <1>2, <1>6 DEF Sound, PathKept
<1>15. at = 0 \/ at \in 1..Width(ns, p)
  BY <1>8, <1>14, SplitPlace
<1>16. CASE SplitLevel(t, path, l) = t
  BY <1>2, <1>5, <1>16
<1>17. CASE SplitLevel(t, path, l) = [t EXCEPT !.err = "KeyTooLarge"]
  <2>1. SplitLevel(t, path, l) = TreeOf(ns, r, "KeyTooLarge")
    BY <1>2, <1>17, TreeWithError
  <2> QED
    BY <1>5, <2>1 DEF Errors
<1>18. CASE SplitLevel(t, path, l) = [t EXCEPT !.err = "FailedToAllocatePage"]
  <2>1. SplitLevel(t, path, l) = TreeOf(ns, r, "FailedToAllocatePage")
    BY <1>2, <1>18, TreeWithError
  <2> QED
    BY <1>5, <2>1 DEF Errors
<1>19. CASE at # 0 /\ l = 1 /\ SplitLevel(t, path, l) = grown
  <2>1. p = r
    BY <1>2, <1>6, <1>19 DEF PathKept
  <2>2. PICK ms : /\ GrowRoot(SplitPage(t, r, at), key, r, right) = TreeOf(ms, n + 2, err)
                  /\ Sound(ms, n + 2, E) /\ DOMAIN ms = 1..n + 2
    <3>1. at \in 1..Width(ns, r) /\ key = Key(ns, r, at)
      BY <1>10, <1>15, <1>19, <2>1
    <3> QED
      BY <1>2, <1>3, <1>9, <3>1, SplitAtRoot
  <2>3. SplitLevel(t, path, l) = TreeOf(ms, n + 2, err)
    BY <1>19, <2>1, <2>2 DEF grown
  <2>4. Numbered(ms)
    BY <2>2 DEF Numbered
  <2>5. PathKept(ms, n + 2, path, 0)
    BY DEF PathKept
  <2>6. Climbing(SplitLevel(t, path, l), ms, n + 2, err, path, 0, E)
    BY <1>2, <2>2, <2>3, <2>4, <2>5 DEF Climbing
  <2>7. l - 1 = 0
    BY <1>19
  <2> QED
    BY <2>6, <2>7 DEF Climbs
<1>20. CASE at # 0 /\ l # 1 /\ SplitLevel(t, path, l) = up
  <2>1. l - 1 \in 1..l - 1 /\ l - 1 \in 1..l /\ l - 1 + 1 = l /\ l - 1 \in 1..Len(path)
    BY <1>20
  <2>2. above \in DOMAIN ns
    BY <1>2, <1>11, <2>1 DEF PathKept
  <2>3. PICK j \in Slots(ns, above) : Kid(ns, above, j) = p
    BY <1>2, <1>6, <1>11, <2>1 DEF PathKept
  <2>4. PICK ms : up = TreeOf(ms, r, err) /\ Sound(ms, r, E) /\ DOMAIN ms = 1..n + 1
                  /\ Kept(ns, ms, p, above)
    <3>1. at \in 1..Width(ns, p)
      BY <1>15, <1>20
    <3> QED
      BY <1>2, <1>3, <1>9, <1>10, <2>2, <2>3, <3>1, SplitBelowRoot DEF up
  <2>5. Numbered(ms)
    BY <2>4 DEF Numbered
  <2>6. PathKept(ms, r, path, l - 1)
    <3>1. r = path[1]
      BY <1>2 DEF PathKept
    <3>2. \A i \in 1..l - 1 : path[i] \in DOMAIN ms
      BY <1>2, <1>3, <2>4 DEF PathKept
    <3>3. ASSUME NEW i \in 1..l - 1 - 1
          PROVE  \E k \in Slots(ms, path[i]) : Kid(ms, path[i], k) = path[i + 1]
      <4>1. /\ i \in 1..Len(path) /\ i < l /\ i < l - 1 /\ i \in 1..l - 1 /\ l \in 1..Len(path)
            /\ l - 1 \in 1..Len(path) /\ i \in 1..l
        BY <2>1
      <4>2. path[i] # p /\ path[i] # above /\ path[i] \in DOMAIN ns
        BY <1>2, <1>6, <1>11, <4>1 DEF Apart, PathKept
      <4>3. SamePage(ns, ms, path[i])
        BY <2>4, <4>2 DEF Kept
      <4>4. PICK k \in Slots(ns, path[i]) : Kid(ns, path[i], k) = path[i + 1]
        BY <1>2, <4>1 DEF PathKept
      <4>5. Slots(ms, path[i]) = Slots(ns, path[i]) /\ Kid(ms, path[i], k) = Kid(ns, path[i], k)
        BY <4>3 DEF SamePage, Slots
      <4> QED
        BY <4>4, <4>5
    <3> QED
      BY <3>1, <3>2, <3>3 DEF PathKept
  <2>7. SplitLevel(t, path, l) = TreeOf(ms, r, err)
    BY <1>20, <2>4
  <2>8. Climbing(SplitLevel(t, path, l), ms, r, err, path, l - 1, E)
    BY <1>2, <2>4, <2>5, <2>6, <2>7 DEF Climbing
  <2> QED
    BY <2>8 DEF Climbs
<1> QED
  BY <1>13, <1>16, <1>17, <1>18, <1>19, <1>20

\* f holds the trees after the first n levels, as the function inside Climb does.
Climbed(f, start, path, n) ==
    f = [k \in 0..n |-> IF k = 0 THEN start ELSE SplitLevel(f[k - 1], path, Len(path) + 1 - k)]

LEMMA ClimbedGrow ==
    ASSUME NEW start, NEW path, NEW n \in Nat, NEW f, Climbed(f, start, path, n)
    PROVE  \E g : Climbed(g, start, path, n + 1)
<1> DEFINE g == [k \in 0..n + 1 |->
                    IF k = n + 1 THEN SplitLevel(f[n], path, Len(path) + 1 - k) ELSE f[k]]
<1>1. \A k \in 0..n : f[k] = IF k = 0 THEN start ELSE SplitLevel(f[k - 1], path, Len(path) + 1 - k)
  BY DEF Climbed
<1>2. ASSUME NEW k \in 0..n + 1
      PROVE  g[k] = IF k = 0 THEN start ELSE SplitLevel(g[k - 1], path, Len(path) + 1 - k)
  <2>1. CASE k = n + 1
    <3>1. k - 1 = n /\ n \in 0..n + 1 /\ n # n + 1 /\ k # 0
      BY <2>1
    <3> QED
      BY <2>1, <3>1
  <2>2. CASE k # n + 1
    <3>1. k \in 0..n /\ (k # 0 => k - 1 \in 0..n /\ k - 1 # n + 1 /\ k - 1 \in 0..n + 1)
      BY <2>2
    <3>2. g[k] = f[k]
      BY <2>2
    <3>3. k # 0 => g[k - 1] = f[k - 1]
      BY <3>1
    <3> HIDE DEF g
    <3> QED
      BY <3>1, <3>2, <3>3, <1>1
  <2> QED
    BY <2>1, <2>2
<1>3. Climbed(g, start, path, n + 1)
  BY <1>2 DEF Climbed
<1> QED
  BY <1>3

LEMMA ClimbedDefined ==
    ASSUME NEW start, NEW path, NEW N \in Nat
    PROVE  \E f : Climbed(f, start, path, N)
<1> DEFINE Missing == {n \in Nat : ~\E f : Climbed(f, start, path, n)}
<1> SUFFICES ASSUME Missing # {} PROVE FALSE
  OBVIOUS
<1>1. PICK n \in Missing : \A k \in Missing : n <= k
  BY LeastNatural
<1>2. n # 0
  <2>1. Climbed([k \in 0..0 |-> start], start, path, 0)
    BY DEF Climbed
  <2> QED
    BY <2>1
<1>3. n - 1 \in Nat /\ n - 1 \notin Missing /\ n = (n - 1) + 1
  BY <1>1, <1>2
<1>4. \E f : Climbed(f, start, path, n)
  BY <1>3, ClimbedGrow
<1> QED
  BY <1>4

\* The way up keeps the tree sound and loses no entry.
LEMMA ClimbSound ==
    ASSUME NEW start, NEW path, Len(path) \in Nat, Apart(path), NEW E,
           Climbs(start, path, Len(path), E)
    PROVE  Climbs(Climb(start, path), path, 0, E)
<1> DEFINE F == CHOOSE f : f = [k \in 0..Len(path) |->
                    IF k = 0 THEN start ELSE SplitLevel(f[k - 1], path, Len(path) + 1 - k)]
<1>1. Climb(start, path) = F[Len(path)]
  BY Zenon DEF Climb
<1>2. Climbed(F, start, path, Len(path))
  <2>1. \E f : Climbed(f, start, path, Len(path))
    BY ClimbedDefined
  <2> QED
    BY <2>1 DEF Climbed
<1> HIDE DEF F
<1>3. \A k \in 0..Len(path) :
          F[k] = IF k = 0 THEN start ELSE SplitLevel(F[k - 1], path, Len(path) + 1 - k)
  BY <1>2 DEF Climbed
<1> DEFINE Wrong == {k \in 0..Len(path) : ~Climbs(F[k], path, Len(path) - k, E)}
<1>4. Wrong = {}
  <2> SUFFICES ASSUME Wrong # {} PROVE FALSE
    OBVIOUS
  <2>1. PICK k \in Wrong : \A l \in Wrong : k <= l
    <3>1. Wrong \in SUBSET Nat
      OBVIOUS
    <3> HIDE DEF Wrong
    <3> QED
      BY <3>1, LeastNatural
  <2>2. k # 0
    <3>1. F[0] = start /\ Len(path) - 0 = Len(path)
      BY <1>3
    <3> QED
      BY <3>1
  <2>3. k - 1 \in 0..Len(path) /\ k - 1 \notin Wrong /\ k \in 0..Len(path)
    BY <2>1, <2>2
  <2>4. PICK l : l = Len(path) + 1 - k
    OBVIOUS
  <2>5. l \in 1..Len(path) /\ Len(path) - (k - 1) = l /\ Len(path) - k = l - 1
    BY <2>2, <2>3, <2>4
  <2>6. Climbs(F[k - 1], path, l, E)
    BY <2>3, <2>5
  <2>7. F[k] = SplitLevel(F[k - 1], path, l)
    BY <1>3, <2>2, <2>3, <2>4
  <2>8. PICK t : t = F[k - 1]
    OBVIOUS
  <2>9. Climbs(SplitLevel(t, path, l), path, l - 1, E)
    BY <2>5, <2>6, <2>8, LevelClimbs
  <2> QED
    BY <2>1, <2>5, <2>7, <2>8, <2>9
<1>5. Len(path) \notin Wrong /\ Len(path) \in 0..Len(path) /\ Len(path) - Len(path) = 0
  BY <1>4
<1> QED
  BY <1>1, <1>5

-----------------------------------------------------------------------------
(* The entries of one leaf change                                          *)

\* ms is ns with the entries s in leaf p.
Rewrote(ns, ms, p, s) ==
    /\ DOMAIN ms = DOMAIN ns /\ ms[p].leaf /\ ms[p].entries = s /\ SameLinks(ns, ms, p)
    /\ \A q \in DOMAIN ns : q # p => ms[q] = ns[q]

LEMMA PutEntriesWrites ==
    ASSUME NEW ns, Typed(ns), NEW p \in Leaves(ns), NEW s \in Seq(EntrySet),
           NEW ms, ms = PutEntries(ns, p, s)
    PROVE  Rewrote(ns, ms, p, s) /\ Typed(ms)
<1>1. /\ p \in DOMAIN ns /\ ns[p].prev \in Nat /\ ns[p].next \in Nat /\ ns[p].parent \in Nat
  BY LeafEntries
<1>2. PICK x : x = LeafNode(s, ns[p].prev, ns[p].next, ns[p].parent)
  OBVIOUS
<1>3. x.leaf /\ x.entries = s /\ x.prev = ns[p].prev /\ x.next = ns[p].next
  BY <1>2, LeafFields
<1>4. x \in LeafNodes
  BY <1>1, <1>2, LeafTyped
<1>5. ms = Put(ns, p, x)
  BY <1>2 DEF PutEntries
<1>6. Wrote(ns, p, x, ms)
  BY <1>5, PutWrites
<1>7. DOMAIN ms = DOMAIN ns /\ ms[p] = x /\ \A q \in DOMAIN ns : q # p => ms[q] = ns[q]
  BY <1>1, <1>6 DEF Wrote
<1>8. Rewrote(ns, ms, p, s)
  BY <1>3, <1>7 DEF Rewrote, SameLinks
<1>9. Typed(ms)
  BY <1>4, <1>7 DEF Typed
<1> QED
  BY <1>8, <1>9

LEMMA RewrittenLeaves ==
    ASSUME NEW ns, NEW ms, NEW p \in Leaves(ns), NEW s, Rewrote(ns, ms, p, s)
    PROVE  /\ Leaves(ms) = Leaves(ns)
           /\ \A q \in Leaves(ns) : SameLinks(ns, ms, q)
           /\ \A q \in Leaves(ns) : q # p => ms[q] = ns[q]
BY DEF Leaves, Rewrote, SameLinks

LEMMA RewrittenPage ==
    ASSUME NEW ns, NEW r, NEW a, NEW b, NEW K, TreeShape(ns, r, a, b, K), NEW ms,
           NEW p \in Leaves(ns), NEW s, Rewrote(ns, ms, p, s), NEW q \in DOMAIN ns, q # p
    PROVE  PagePlaced(ms, a, b, K, q)
<1>1. PagePlaced(ns, a, b, K, q)
  BY DEF TreeShape
<1>2. ms[q] = ns[q] /\ DOMAIN ms = DOMAIN ns
  BY DEF Rewrote
<1>3. /\ Slots(ms, q) = Slots(ns, q) /\ Width(ms, q) = Width(ns, q)
      /\ \A i : Kid(ms, q, i) = Kid(ns, q, i)
      /\ \A i : Key(ms, q, i) = Key(ns, q, i)
  BY <1>2 DEF Slots, Width, Kid, Key
<1>4. \A i : Allowed(ms, K, q, i) = Allowed(ns, K, q, i)
  BY <1>3 DEF Allowed
<1>5. KidsPlaced(ms, a, b, K, q)
  BY <1>1, <1>2, <1>3, <1>4 DEF PagePlaced, KidsPlaced
<1>6. KidsApart(ms, a, b, q)
  BY <1>1, <1>3 DEF PagePlaced, KidsApart
<1>7. KeysPlaced(ms, K, q)
  BY <1>1, <1>3 DEF PagePlaced, KeysPlaced
<1>8. KidsReach(ms, a, b, q)
  BY <1>1, <1>2, <1>3 DEF PagePlaced, KidsReach
<1> QED
  BY <1>5, <1>6, <1>7, <1>8 DEF PagePlaced

\* Keys that may stand below a page, in order.
KeysFit(s, S) ==
    /\ \A i \in 1..Len(s) : s[i].key \in S
    /\ \A i, j \in 1..Len(s) : i < j => s[i].key <= s[j].key

LEMMA RewrittenShape ==
    ASSUME NEW ns, NEW r, NEW a, NEW b, NEW K, TreeShape(ns, r, a, b, K), Chained(ns, a, b),
           NEW ms, NEW p \in Leaves(ns), NEW s, Len(s) \in Nat, Rewrote(ns, ms, p, s),
           KeysFit(s, K[p])
    PROVE  TreeShape(ms, r, a, b, K) /\ Chained(ms, a, b)
<1>1. p \in DOMAIN ns /\ ns[p].leaf /\ Slots(ns, p) = {}
  BY DEF Leaves, Slots
<1>2. DOMAIN ms = DOMAIN ns /\ ms[p].leaf /\ ms[p].entries = s
  BY DEF Rewrote
<1>3. PagePlaced(ms, a, b, K, p)
  <2>1. Slots(ms, p) = {}
    BY <1>2 DEF Slots
  <2>2. KidsReach(ns, a, b, p)
    BY <1>1 DEF TreeShape, PagePlaced
  <2>3. KidsReach(ms, a, b, p)
    BY <1>1, <1>2, <2>2 DEF KidsReach
  <2>4. KeysPlaced(ms, K, p)
    BY <1>2 DEF KeysPlaced, KeysFit, Width, Key
  <2> QED
    BY <2>1, <2>3, <2>4 DEF PagePlaced, KidsPlaced, KidsApart
<1>4. \A q \in DOMAIN ns : PagePlaced(ms, a, b, K, q)
  BY <1>3, RewrittenPage
<1>5. TreeShape(ms, r, a, b, K)
  BY <1>2, <1>4 DEF TreeShape
<1>6. Chained(ms, a, b)
  <2>1. /\ Leaves(ms) = Leaves(ns)
        /\ \A q \in Leaves(ns) : ms[q].next = ns[q].next /\ ms[q].prev = ns[q].prev
    BY RewrittenLeaves DEF SameLinks
  <2> QED
    BY <2>1, ChainReordered
<1> QED
  BY <1>5, <1>6

\* E2 is E with the entries of s in the place of those in p.
Exchanged(ns, p, s, E, E2) ==
    /\ \A x \in ToSet(s) : x \in Held(ns, p) \/ x \notin E
    /\ \A x : x \in E2 <=> (x \in E /\ x \notin Held(ns, p)) \/ x \in ToSet(s)

LEMMA RewrittenStored ==
    ASSUME NEW ns, NEW E, Stored(ns, E), NEW ms, NEW p \in Leaves(ns), NEW s,
           Rewrote(ns, ms, p, s), Lists(s, ToSet(s), EntryOrder),
           NEW E2, Exchanged(ns, p, s, E, E2)
    PROVE  Stored(ms, E2)
<1>1. Leaves(ms) = Leaves(ns) /\ \A q \in Leaves(ns) : q # p => ms[q] = ns[q]
  BY RewrittenLeaves
<1>2. ms[p].entries = s
  BY DEF Rewrote
<1>3. Held(ms, p) = ToSet(s) /\ \A q \in Leaves(ns) : q # p => Held(ms, q) = Held(ns, q)
  BY <1>1, <1>2 DEF Held
<1>4. \A q \in Leaves(ns) : Lists(ms[q].entries, Held(ms, q), EntryOrder)
  BY <1>1, <1>2, <1>3 DEF Stored
<1>5. \A q \in Leaves(ns) : \A x \in Held(ns, q) : x \in E
  BY DEF Stored
<1>6. ASSUME NEW q \in Leaves(ns), NEW u \in Leaves(ns), NEW x \in Held(ms, q), x \in Held(ms, u)
      PROVE  q = u
  <2>1. \A o \in Leaves(ns) : x \in Held(ns, o) /\ x \in Held(ns, p) => o = p
    BY DEF Stored
  <2>2. \A o \in Leaves(ns) : x \in ToSet(s) /\ x \in Held(ns, o) => o = p
    BY <1>5, <2>1 DEF Exchanged
  <2>3. CASE q = p
    BY <1>3, <1>6, <2>2, <2>3
  <2>4. CASE u = p
    BY <1>3, <1>6, <2>2, <2>4
  <2>5. CASE q # p /\ u # p
    BY <1>3, <1>6, <2>5 DEF Stored
  <2> QED
    BY <2>3, <2>4, <2>5
<1>7. ASSUME NEW x
      PROVE  x \in E2 <=> \E q \in Leaves(ns) : x \in Held(ms, q)
  <2>1. x \in E <=> \E q \in Leaves(ns) : x \in Held(ns, q)
    BY DEF Stored
  <2>2. \A o \in Leaves(ns) : x \in Held(ns, o) /\ x \in Held(ns, p) => o = p
    BY DEF Stored
  <2> QED
    BY <1>3, <2>1, <2>2 DEF Exchanged
<1> QED
  BY <1>1, <1>4, <1>6, <1>7 DEF Stored

-----------------------------------------------------------------------------
(* An entry is inserted                                                    *)

Entry(key, pointer) == [key |-> key, pointer |-> pointer]

LEMMA EntryFields ==
    ASSUME NEW key \in Keys, NEW pointer \in Pointers, NEW e, e = Entry(key, pointer)
    PROVE  e \in EntrySet /\ e.key = key /\ e.pointer = pointer
BY DEF Entry, EntrySet

LEMMA EntryTypes ==
    ASSUME NEW e \in EntrySet
    PROVE  /\ e.key \in Keys /\ e.key \in Int /\ e.pointer \in Pointers /\ e.pointer \in Int
           /\ e = Entry(e.key, e.pointer)
BY IndexAssumption DEF EntrySet, Entry

InsertPlace(s, key, pointer) ==
    partition_point(s, LAMBDA e : e.key < key \/ (e.key = key /\ e.pointer < pointer))

LEMMA InsertPlaceFound ==
    ASSUME NEW s \in Seq(EntrySet), NEW key \in Keys, NEW pointer \in Pointers,
           NEW at, at = InsertPlace(s, key, pointer)
    PROVE  /\ at \in 0..Len(s) /\ \A j \in 1..at : s[j].key <= key
           /\ at < Len(s) => key <= s[at + 1].key
<1> DEFINE I == {i \in 1..Len(s) : ~(s[i].key < key \/ (s[i].key = key /\ s[i].pointer < pointer))}
           x == IF I # {} THEN Min(I) ELSE 0
<1>1. Len(s) \in Nat /\ \A i \in 1..Len(s) : s[i].key \in Int
  BY EntryTypes
<1>2. at = IF x = 0 THEN Len(s) ELSE x - 1
  BY DEF InsertPlace, partition_point, SelectInSeq
<1>3. I \in SUBSET (1..Len(s))
  OBVIOUS
<1>4. key \in Int
  BY IndexAssumption
<1>5. \A i \in I : i \in 1..Len(s) /\ key <= s[i].key
  BY <1>1, <1>4
<1>6. \A i \in 1..Len(s) : i \notin I => s[i].key <= key
  BY <1>1, <1>4
<1> HIDE DEF I
<1>7. x = IF I # {} THEN Min(I) ELSE 0
  OBVIOUS
<1> HIDE DEF x
<1>8. /\ at \in 0..Len(s) /\ \A j \in 1..at : j \notin I
      /\ at < Len(s) => at + 1 \in I
  BY <1>1, <1>2, <1>3, <1>7, PartitionPoint
<1>9. \A j \in 1..at : j \in 1..Len(s)
  BY <1>1, <1>8
<1> QED
  BY <1>5, <1>6, <1>8, <1>9

LEMMA EntriesSorted ==
    ASSUME NEW s \in Seq(EntrySet), NEW S, Lists(s, S, EntryOrder)
    PROVE  /\ Len(s) \in Nat /\ ToSet(s) = S
           /\ \A i \in 1..Len(s) : s[i] \in S /\ s[i] \in EntrySet /\ s[i].key \in Int
           /\ \A x \in S : \E i \in 1..Len(s) : s[i] = x
           /\ \A i, j \in 1..Len(s) : i < j => s[i] # s[j] /\ s[i].key <= s[j].key
<1>1. /\ Len(s) \in Nat /\ \A i \in 1..Len(s) : s[i] \in S
      /\ \A x \in S : \E i \in 1..Len(s) : s[i] = x
      /\ \A i, j \in 1..Len(s) : i < j => <<s[i], s[j]>> \in EntryOrder
  BY ListsFields
<1>2. ToSet(s) = S
  BY ListsWhole
<1>3. \A i \in 1..Len(s) : s[i] \in EntrySet
  OBVIOUS
<1>4. \A i \in 1..Len(s) : s[i].key \in Int
  BY <1>3, EntryTypes
<1>5. \A i, j \in 1..Len(s) : i < j => s[i] # s[j] /\ s[i].key <= s[j].key
  BY <1>1, EntryOrderFacts
<1> QED
  BY <1>1, <1>2, <1>3, <1>4, <1>5

\* An entry that is not there yet comes to its place.
LEMMA InsertedLists ==
    ASSUME NEW s \in Seq(EntrySet), NEW S, Lists(s, S, EntryOrder),
           NEW key \in Keys, NEW pointer \in Pointers, NEW e, e = Entry(key, pointer), e \notin S,
           NEW at, at = InsertPlace(s, key, pointer), NEW u, u = InsertAt(s, at + 1, e)
    PROVE  u \in Seq(EntrySet) /\ Lists(u, S \cup {e}, EntryOrder)
<1>1. e \in EntrySet /\ e.key = key /\ key \in Int
  BY EntryFields, IndexAssumption
<1>2. /\ Len(s) \in Nat /\ \A i \in 1..Len(s) : s[i] \in S /\ s[i] \in EntrySet /\ s[i].key \in Int
      /\ \A i, j \in 1..Len(s) : i < j => s[i].key <= s[j].key
  BY EntriesSorted
<1>3. /\ at \in 0..Len(s) /\ \A j \in 1..at : s[j].key <= key
      /\ at < Len(s) => key <= s[at + 1].key
  BY InsertPlaceFound
<1>4. at + 1 \in 1..Len(s) + 1
  BY <1>2, <1>3
<1>5. ASSUME NEW k \in 1..(at + 1) - 1
      PROVE  <<s[k], e>> \in EntryOrder
  <2>1. k \in 1..at /\ k \in 1..Len(s)
    BY <1>2, <1>3
  <2>2. s[k].key <= key /\ s[k] \in EntrySet /\ s[k] # e
    BY <1>2, <1>3, <2>1
  <2> QED
    BY <1>1, <2>2, EntryOrderFacts
<1>6. ASSUME NEW k \in at + 1..Len(s)
      PROVE  <<e, s[k]>> \in EntryOrder
  <2>1. k \in 1..Len(s) /\ at + 1 \in 1..Len(s) /\ at < Len(s)
    BY <1>2, <1>3
  <2>2. s[at + 1].key <= s[k].key
    <3>1. CASE k = at + 1
      BY <1>2, <2>1, <3>1
    <3>2. CASE k # at + 1
      <4>1. at + 1 < k
        BY <1>3, <3>2
      <4> QED
        BY <1>2, <2>1, <4>1
    <3> QED
      BY <3>1, <3>2
  <2>3. key <= s[at + 1].key /\ s[at + 1].key \in Int /\ s[k].key \in Int
    BY <1>2, <1>3, <2>1
  <2>4. key <= s[k].key
    BY <1>1, <2>2, <2>3
  <2>5. s[k] \in EntrySet /\ s[k] # e
    BY <1>2, <2>1
  <2> QED
    BY <1>1, <2>4, <2>5, EntryOrderFacts
<1>7. Lists(u, S \cup {e}, EntryOrder)
  <2>1. PICK i : i = at + 1
    OBVIOUS
  <2>2. /\ i \in 1..Len(s) + 1 /\ \A k \in 1..i - 1 : <<s[k], e>> \in EntryOrder
        /\ \A k \in i..Len(s) : <<e, s[k]>> \in EntryOrder
    BY <1>4, <1>5, <1>6, <2>1
  <2>3. Lists(InsertAt(s, i, e), S \cup {e}, EntryOrder)
    BY <2>2, ListsInsert
  <2> QED
    BY <2>1, <2>3
<1>8. u \in Seq(EntrySet)
  BY <1>1, <1>4, InsertFacts
<1> QED
  BY <1>7, <1>8

KeysOf(S, Z) == \A x \in S : x.key \in Z

LEMMA HeldKeys ==
    ASSUME NEW ns, NEW r, NEW a, NEW b, NEW K, TreeShape(ns, r, a, b, K), Typed(ns),
           NEW p \in Leaves(ns)
    PROVE  KeysOf(Held(ns, p), K[p]) /\ Held(ns, p) \in SUBSET EntrySet
<1>1. p \in DOMAIN ns /\ ns[p].entries \in Seq(EntrySet)
  BY LeafEntries
<1>2. KeysPlaced(ns, K, p)
  BY <1>1 DEF TreeShape, PagePlaced
<1>3. \A x \in Held(ns, p) : \E i \in 1..Width(ns, p) : ns[p].entries[i] = x
  BY <1>1 DEF Held, ToSet, Width
<1>4. KeysOf(Held(ns, p), K[p])
  BY <1>2, <1>3 DEF KeysOf, KeysPlaced, Key
<1>5. Held(ns, p) \in SUBSET EntrySet
  BY <1>1, <1>3 DEF Width
<1> QED
  BY <1>4, <1>5

LEMMA RewriteSound ==
    ASSUME NEW ns, NEW r, NEW a, NEW b, NEW K, TreeShape(ns, r, a, b, K), Chained(ns, a, b),
           Typed(ns), NEW E, Stored(ns, E), NEW p \in Leaves(ns),
           NEW s \in Seq(EntrySet), NEW S, Lists(s, S, EntryOrder), KeysOf(S, K[p]),
           NEW E2, Exchanged(ns, p, s, E, E2), NEW ms, ms = PutEntries(ns, p, s)
    PROVE  Sound(ms, r, E2) /\ Rewrote(ns, ms, p, s)
<1>1. Rewrote(ns, ms, p, s) /\ Typed(ms)
  BY PutEntriesWrites
<1>2. /\ Len(s) \in Nat /\ ToSet(s) = S /\ \A i \in 1..Len(s) : s[i] \in S
      /\ \A i, j \in 1..Len(s) : i < j => s[i].key <= s[j].key
  BY EntriesSorted
<1>3. KeysFit(s, K[p])
  BY <1>2 DEF KeysFit, KeysOf
<1>4. TreeShape(ms, r, a, b, K) /\ Chained(ms, a, b)
  BY <1>1, <1>2, <1>3, RewrittenShape
<1>5. Lists(s, ToSet(s), EntryOrder)
  BY <1>2
<1>6. Stored(ms, E2)
  BY <1>1, <1>5, RewrittenStored
<1> QED
  BY <1>1, <1>4, <1>6 DEF Sound, Placed

\* A finished tree: the entries of E, or an error.
Made(t, E) ==
    \E ns, r, err : /\ t = TreeOf(ns, r, err) /\ err \in Errors
                    /\ Sound(ns, r, E) /\ Numbered(ns)

LEMMA ClimbsMade ==
    ASSUME NEW t, NEW path, NEW E, Climbs(t, path, 0, E)
    PROVE  Made(t, E)
BY DEF Climbs, Climbing, Made

LEMMA PathStaysKept ==
    ASSUME NEW ns, NEW r, NEW path, Descent(ns, path), path[1] = r, NEW p, p = path[Len(path)],
           NEW ms, NEW s, Rewrote(ns, ms, p, s)
    PROVE  PathKept(ms, r, path, Len(path)) /\ Apart(path) /\ Len(path) \in Nat
<1>1. /\ path \in Seq(DOMAIN ns) /\ Len(path) \in Nat \ {0}
      /\ \A i \in 1..Len(path) - 1 : \E j \in Slots(ns, path[i]) : Kid(ns, path[i], j) = path[i + 1]
      /\ \A i, j \in 1..Len(path) : i < j => path[i] # path[j]
  BY DEF Descent
<1>2. DOMAIN ms = DOMAIN ns /\ \A q \in DOMAIN ns : q # p => ms[q] = ns[q]
  BY DEF Rewrote
<1>3. \A i \in 1..Len(path) : path[i] \in DOMAIN ns
  BY <1>1
<1>4. ASSUME NEW i \in 1..Len(path) - 1
      PROVE  \E j \in Slots(ms, path[i]) : Kid(ms, path[i], j) = path[i + 1]
  <2>1. i \in 1..Len(path) /\ Len(path) \in 1..Len(path) /\ i < Len(path)
    BY <1>1
  <2>2. ms[path[i]] = ns[path[i]]
    BY <1>1, <1>2, <1>3, <2>1
  <2>3. Slots(ms, path[i]) = Slots(ns, path[i]) /\ \A j : Kid(ms, path[i], j) = Kid(ns, path[i], j)
    BY <2>2 DEF Slots, Kid, Width
  <2> QED
    BY <1>1, <2>3
<1>5. \A i \in 1..Len(path) : path[i] \in DOMAIN ms
  BY <1>2, <1>3
<1>6. PathKept(ms, r, path, Len(path))
  BY <1>4, <1>5 DEF PathKept
<1> QED
  BY <1>1, <1>6 DEF Apart

LEMMA InsertUnfolded ==
    ASSUME NEW ns, NEW r, NEW t, t = TreeOf(ns, r, "ok"), NEW key, NEW pointer,
           NEW path, path = read_path(ns, r, key), NEW s, s = ns[Last(path)].entries,
           NEW u, u = InsertAt(s, InsertPlace(s, key, pointer) + 1, Entry(key, pointer))
    PROVE  InsertEntry(t, key, pointer) = Climb(TreeOf(PutEntries(ns, Last(path), u), r, "ok"), path)
<1>1. t.nodes = ns /\ t.root = r /\ t.err = "ok"
  BY TreeFields
<1>2. PICK ms : ms = PutEntries(ns, Last(path), u)
  OBVIOUS
<1>3. InsertEntry(t, key, pointer) = Climb([t EXCEPT !.nodes = ms], path)
  BY <1>1, <1>2 DEF InsertEntry, InsertPlace, Entry
<1>4. [t EXCEPT !.nodes = ms] = TreeOf(ms, r, "ok")
  BY TreeWithNodes
<1> QED
  BY <1>2, <1>3, <1>4

\* An insertion adds its entry, or it fails.
LEMMA InsertSound ==
    ASSUME NEW ns, NEW r, NEW E, Sound(ns, r, E), Numbered(ns), NEW t, t = TreeOf(ns, r, "ok"),
           NEW key \in Keys, NEW pointer \in Pointers, Entry(key, pointer) \notin E
    PROVE  Made(InsertEntry(t, key, pointer), E \cup {Entry(key, pointer)})
<1>1. Typed(ns) /\ Placed(ns, r) /\ Stored(ns, E)
  BY DEF Sound
<1>2. PICK a, b, K : TreeShape(ns, r, a, b, K) /\ Chained(ns, a, b)
  BY <1>1 DEF Placed
<1>3. PICK e : e = Entry(key, pointer)
  OBVIOUS
<1>4. PICK path : path = read_path(ns, r, key)
  OBVIOUS
<1>5. PICK p : p = Last(path)
  OBVIOUS
<1>6. key \in Int
  BY IndexAssumption
<1>7. /\ Descent(ns, path) /\ path[1] = r /\ p \in Leaves(ns) /\ key \in K[p]
  BY <1>1, <1>2, <1>4, <1>5, <1>6, PathFound
<1>8. PICK s : s = ns[p].entries
  OBVIOUS
<1>9. s \in Seq(EntrySet) /\ Lists(s, Held(ns, p), EntryOrder)
  BY <1>1, <1>7, <1>8, LeafEntries DEF Stored
<1>10. e \notin E /\ e \notin Held(ns, p) /\ e.key = key
  BY <1>1, <1>3, <1>7, EntryFields DEF Stored
<1>11. PICK at : at = InsertPlace(s, key, pointer)
  OBVIOUS
<1>12. PICK u : u = InsertAt(s, at + 1, e)
  OBVIOUS
<1>13. PICK S : S = Held(ns, p) \cup {e}
  OBVIOUS
<1>14. u \in Seq(EntrySet) /\ Lists(u, S, EntryOrder)
  BY <1>3, <1>9, <1>10, <1>11, <1>12, <1>13, InsertedLists
<1>15. KeysOf(S, K[p])
  <2>1. KeysOf(Held(ns, p), K[p])
    BY <1>1, <1>2, <1>7, HeldKeys
  <2> QED
    BY <1>7, <1>10, <1>13, <2>1 DEF KeysOf
<1>16. PICK E2 : E2 = E \cup {e}
  OBVIOUS
<1>17. ToSet(u) = S
  BY <1>14, ListsWhole
<1>18. Exchanged(ns, p, u, E, E2)
  <2>1. \A x \in Held(ns, p) : x \in E
    BY <1>1, <1>7 DEF Stored
  <2> QED
    BY <1>10, <1>13, <1>16, <1>17, <2>1 DEF Exchanged
<1>19. PICK ms : ms = PutEntries(ns, p, u)
  OBVIOUS
<1>20. Sound(ms, r, E2) /\ Rewrote(ns, ms, p, u)
  BY <1>1, <1>2, <1>7, <1>14, <1>15, <1>18, <1>19, RewriteSound
<1>21. PathKept(ms, r, path, Len(path)) /\ Apart(path) /\ Len(path) \in Nat
  <2>1. p = path[Len(path)]
    BY <1>5 DEF Last
  <2> QED
    BY <1>7, <1>20, <2>1, PathStaysKept
<1>22. Numbered(ms)
  BY <1>20 DEF Numbered, Rewrote
<1>23. PICK start : start = TreeOf(ms, r, "ok")
  OBVIOUS
<1>24. Climbs(start, path, Len(path), E2)
  BY <1>20, <1>21, <1>22, <1>23 DEF Climbs, Climbing, Errors
<1>25. Climbs(Climb(start, path), path, 0, E2)
  BY <1>21, <1>24, ClimbSound
<1>26. InsertEntry(t, key, pointer) = Climb(start, path)
  BY <1>3, <1>4, <1>5, <1>8, <1>11, <1>12, <1>19, <1>23, InsertUnfolded
<1> QED
  BY <1>3, <1>16, <1>25, <1>26, ClimbsMade

-----------------------------------------------------------------------------
(* Where a lookup starts                                                   *)

\* A tree with its labels.
Laid(ns, r, a, b, K) == Typed(ns) /\ TreeShape(ns, r, a, b, K) /\ Chained(ns, a, b)

LEMMA LeafPlace ==
    ASSUME NEW ns, NEW r, NEW a, NEW b, NEW K, Laid(ns, r, a, b, K), NEW p \in Leaves(ns)
    PROVE  /\ p \in DOMAIN ns /\ p # NO_PAGE /\ a[p] \in Int /\ b[p] \in Int /\ a[p] < b[p]
           /\ a[r] \in Int /\ b[r] \in Int /\ a[r] <= a[p] /\ b[p] <= b[r] /\ a[r] < b[r]
<1>1. p \in DOMAIN ns /\ Typed(ns) /\ TreeShape(ns, r, a, b, K)
  BY DEF Leaves, Laid
<1>2. p # NO_PAGE
  BY <1>1, NodeFields DEF NO_PAGE
<1>3. Labelled(DOMAIN ns, a, b, K) /\ r \in DOMAIN ns /\ (p # r => Inside(a, b, p, r))
  BY <1>1 DEF TreeShape, Rooted
<1>4. /\ a[p] \in Int /\ b[p] \in Int /\ a[p] < b[p]
      /\ a[r] \in Int /\ b[r] \in Int /\ a[r] < b[r]
  BY <1>1, <1>3, LabelTypes
<1>5. a[r] <= a[p] /\ b[p] <= b[r]
  BY <1>3, <1>4 DEF Inside
<1> QED
  BY <1>1, <1>2, <1>4, <1>5

LEMMA LeafLinks ==
    ASSUME NEW ns, NEW r, NEW a, NEW b, NEW K, Laid(ns, r, a, b, K), NEW p \in Leaves(ns)
    PROVE  /\ ns[p].prev = NO_PAGE => \A q \in Leaves(ns) : ~(b[q] < a[p])
           /\ ns[p].prev # NO_PAGE =>
                 /\ ns[p].prev \in Leaves(ns) /\ b[ns[p].prev] < a[p]
                 /\ \A q \in Leaves(ns) : b[q] < a[p] => q = ns[p].prev \/ b[q] < a[ns[p].prev]
           /\ ns[p].next = NO_PAGE => \A q \in Leaves(ns) : ~(b[p] < a[q])
           /\ ns[p].next # NO_PAGE =>
                 /\ ns[p].next \in Leaves(ns) /\ b[p] < a[ns[p].next]
                 /\ \A q \in Leaves(ns) : b[p] < a[q] => q = ns[p].next \/ b[ns[p].next] < a[q]
<1>1. NextLeaf(ns, a, b, p) /\ PrevLeaf(ns, a, b, p)
  BY DEF Laid, Chained
<1> QED
  BY <1>1 DEF NextLeaf, PrevLeaf

\* The leaves between y and x are empty; NO_PAGE lies before all leaves.
Gap(ns, a, b, y, x) ==
    \A z \in Leaves(ns) : b[z] < a[x] /\ (y # NO_PAGE => b[y] < a[z]) => ns[z].entries = <<>>

NonEmpty(ns) == {q \in Leaves(ns) \cup {NO_PAGE} : q = NO_PAGE \/ ns[q].entries # <<>>}

Backwards(ns) == [q \in Leaves(ns) \cup {NO_PAGE} |-> ns[q].prev]

Same(D) == [q \in D |-> q]

\* How far a leaf is from the left end of the tree.
Depth(ns, r, a) == [q \in Leaves(ns) \cup {NO_PAGE} |-> IF q = NO_PAGE THEN 0 ELSE a[q] - a[r] + 1]

LEMMA BackwardsFalls ==
    ASSUME NEW ns, NEW r, NEW a, NEW b, NEW K, Laid(ns, r, a, b, K), Leaves(ns) # {}
    PROVE  Falls(Leaves(ns) \cup {NO_PAGE}, NonEmpty(ns), Backwards(ns), Depth(ns, r, a),
                 b[r] - a[r] + 1)
<1> DEFINE D == Leaves(ns) \cup {NO_PAGE}
           N == b[r] - a[r] + 1
           m == Depth(ns, r, a)
<1>1. N \in Nat
  BY LeafPlace
<1>2. \A p \in D : m[p] = IF p = NO_PAGE THEN 0 ELSE a[p] - a[r] + 1
  BY DEF Depth
<1>3. \A p \in Leaves(ns) : m[p] \in 1..N
  <2>1. ASSUME NEW p \in Leaves(ns) PROVE m[p] \in 1..N
    <3>1. m[p] = a[p] - a[r] + 1
      BY <1>2, LeafPlace
    <3>2. /\ a[p] \in Int /\ b[p] \in Int /\ a[p] < b[p]
          /\ a[r] \in Int /\ b[r] \in Int /\ a[r] <= a[p] /\ b[p] <= b[r]
      BY LeafPlace
    <3> QED
      BY <3>1, <3>2
  <2> QED
    BY <2>1
<1>4. m[NO_PAGE] = 0
  BY <1>2
<1>5. m \in [D -> 0..N]
  <2>1. \A p \in D : m[p] \in 0..N
    BY <1>1, <1>3, <1>4
  <2>2. m = [q \in D |-> m[q]]
    BY DEF Depth
  <2> HIDE DEF m, D, N
  <2> QED
    BY <2>1, <2>2
<1>6. ASSUME NEW p \in D \ NonEmpty(ns)
      PROVE  Backwards(ns)[p] \in D /\ m[Backwards(ns)[p]] < m[p]
  <2>1. p \in Leaves(ns) /\ Backwards(ns)[p] = ns[p].prev
    BY DEF NonEmpty, Backwards
  <2>2. CASE ns[p].prev = NO_PAGE
    BY <1>3, <1>4, <2>1, <2>2
  <2>3. CASE ns[p].prev # NO_PAGE
    <3>1. PICK q : q = ns[p].prev
      OBVIOUS
    <3>2. q \in Leaves(ns) /\ b[q] < a[p]
      BY <2>1, <2>3, <3>1, LeafLinks
    <3>3. a[q] \in Int /\ b[q] \in Int /\ a[q] < b[q] /\ a[p] \in Int /\ a[r] \in Int
          /\ p # NO_PAGE /\ q # NO_PAGE
      BY <2>1, <3>2, LeafPlace
    <3>4. m[p] = a[p] - a[r] + 1 /\ m[q] = a[q] - a[r] + 1
      BY <1>2, <2>1, <3>2, <3>3
    <3> QED
      BY <2>1, <3>1, <3>2, <3>3, <3>4
  <2> QED
    BY <2>2, <2>3
<1> QED
  BY <1>1, <1>5, <1>6 DEF Falls

LEMMA NonEmptyChases ==
    ASSUME NEW ns, NEW r, NEW a, NEW b, NEW K, Laid(ns, r, a, b, K), Leaves(ns) # {}
    PROVE  \E f : /\ Chases(f, Leaves(ns) \cup {NO_PAGE}, NonEmpty(ns), Same(Leaves(ns) \cup {NO_PAGE}),
                            Backwards(ns))
                  /\ \A p : NonEmptyFrom(ns, p) = f[p]
<1> DEFINE D == Leaves(ns) \cup {NO_PAGE}
           F == CHOOSE f : f = [q \in Leaves(ns) \cup {NO_PAGE} |->
                    IF q = NO_PAGE \/ ns[q].entries # <<>> THEN q ELSE f[ns[q].prev]]
<1>1. \A p : NonEmptyFrom(ns, p) = F[p]
  BY Zenon DEF NonEmptyFrom
<1>2. ASSUME NEW f
      PROVE  Chases(f, D, NonEmpty(ns), Same(D), Backwards(ns))
                 <=> f = [q \in Leaves(ns) \cup {NO_PAGE} |->
                            IF q = NO_PAGE \/ ns[q].entries # <<>> THEN q ELSE f[ns[q].prev]]
  <2>1. \A q \in D : ChaseStep(f, NonEmpty(ns), Same(D), Backwards(ns), q)
                       = IF q = NO_PAGE \/ ns[q].entries # <<>> THEN q ELSE f[ns[q].prev]
    BY DEF ChaseStep, NonEmpty, Same, Backwards
  <2>2. [q \in D |-> ChaseStep(f, NonEmpty(ns), Same(D), Backwards(ns), q)]
          = [q \in D |-> IF q = NO_PAGE \/ ns[q].entries # <<>> THEN q ELSE f[ns[q].prev]]
    BY <2>1
  <2> QED
    BY <2>2 DEF Chases
<1>3. \E f : Chases(f, D, NonEmpty(ns), Same(D), Backwards(ns))
  BY BackwardsFalls, ChaseDefined
<1>4. F = [q \in Leaves(ns) \cup {NO_PAGE} |->
             IF q = NO_PAGE \/ ns[q].entries # <<>> THEN q ELSE F[ns[q].prev]]
  BY <1>2, <1>3
<1> HIDE DEF F
<1>5. Chases(F, D, NonEmpty(ns), Same(D), Backwards(ns))
  BY <1>2, <1>4
<1> QED
  BY <1>1, <1>5

LEMMA GapGrows ==
    ASSUME NEW ns, NEW r, NEW a, NEW b, NEW K, Laid(ns, r, a, b, K), NEW x \in Leaves(ns),
           NEW y \in Leaves(ns), b[y] < a[x], ns[y].entries = <<>>, Gap(ns, a, b, y, x)
    PROVE  Gap(ns, a, b, ns[y].prev, x)
<1> SUFFICES ASSUME NEW z \in Leaves(ns), b[z] < a[x], ns[y].prev # NO_PAGE => b[ns[y].prev] < a[z]
             PROVE  ns[z].entries = <<>>
  BY DEF Gap
<1>1. y # NO_PAGE
  BY LeafPlace
<1>2. CASE z = y
  BY <1>2
<1>3. CASE b[y] < a[z]
  BY <1>1, <1>3 DEF Gap
<1>4. CASE b[z] < a[y]
  <2>1. ns[y].prev # NO_PAGE
    BY <1>4, LeafLinks
  <2>2. PICK w : w = ns[y].prev
    OBVIOUS
  <2>3. w \in Leaves(ns) /\ (z = w \/ b[z] < a[w]) /\ b[w] < a[z]
    BY <1>4, <2>1, <2>2, LeafLinks
  <2>4. a[z] \in Int /\ b[z] \in Int /\ a[z] < b[z] /\ a[w] \in Int /\ b[w] \in Int /\ a[w] < b[w]
    BY <2>3, LeafPlace
  <2> QED
    BY <2>3, <2>4
<1>5. TreeShape(ns, r, a, b, K)
  BY DEF Laid
<1> QED
  BY <1>2, <1>3, <1>4, <1>5, LeavesApart

\* The nearest leaf with entries before x.
LEMMA NonEmptyFound ==
    ASSUME NEW ns, NEW r, NEW a, NEW b, NEW K, Laid(ns, r, a, b, K), NEW x \in Leaves(ns),
           NEW q, q = NonEmptyFrom(ns, ns[x].prev)
    PROVE  /\ Gap(ns, a, b, q, x)
           /\ q # NO_PAGE => q \in Leaves(ns) /\ ns[q].entries # <<>> /\ b[q] < a[x]
<1> DEFINE D == Leaves(ns) \cup {NO_PAGE}
           I == {y \in D : (y # NO_PAGE => b[y] < a[x]) /\ Gap(ns, a, b, y, x)}
<1>1. PICK f : /\ Chases(f, D, NonEmpty(ns), Same(D), Backwards(ns))
               /\ \A p : NonEmptyFrom(ns, p) = f[p]
  BY NonEmptyChases
<1>2. Falls(D, NonEmpty(ns), Backwards(ns), Depth(ns, r, a), b[r] - a[r] + 1)
  BY BackwardsFalls
<1>3. ns[x].prev \in I
  <2>1. CASE ns[x].prev = NO_PAGE
    BY <2>1, LeafLinks DEF Gap
  <2>2. CASE ns[x].prev # NO_PAGE
    <3>1. PICK y : y = ns[x].prev
      OBVIOUS
    <3>2. /\ y \in Leaves(ns) /\ b[y] < a[x]
          /\ \A z \in Leaves(ns) : b[z] < a[x] => z = y \/ b[z] < a[y]
      BY <2>2, <3>1, LeafLinks
    <3>3. Gap(ns, a, b, y, x)
      <4> SUFFICES ASSUME NEW z \in Leaves(ns), b[z] < a[x], y # NO_PAGE => b[y] < a[z]
                   PROVE  ns[z].entries = <<>>
        BY DEF Gap
      <4>1. b[y] < a[z] /\ (z = y \/ b[z] < a[y])
        BY <2>2, <3>1, <3>2
      <4>2. a[z] \in Int /\ b[z] \in Int /\ a[z] < b[z] /\ a[y] \in Int /\ b[y] \in Int /\ a[y] < b[y]
        BY <3>2, LeafPlace
      <4> QED
        BY <4>1, <4>2
    <3> QED
      BY <3>1, <3>2, <3>3
  <2> QED
    BY <2>1, <2>2
<1>4. ASSUME NEW y \in I, y \notin NonEmpty(ns)
      PROVE  Backwards(ns)[y] \in I
  <2>1. y \in Leaves(ns) /\ ns[y].entries = <<>> /\ y # NO_PAGE /\ Backwards(ns)[y] = ns[y].prev
    BY <1>4 DEF NonEmpty, Backwards
  <2>2. b[y] < a[x] /\ Gap(ns, a, b, y, x)
    BY <2>1
  <2>3. Gap(ns, a, b, ns[y].prev, x)
    BY <2>1, <2>2, GapGrows
  <2>4. ns[y].prev # NO_PAGE => ns[y].prev \in Leaves(ns) /\ b[ns[y].prev] < a[x]
    <3> SUFFICES ASSUME ns[y].prev # NO_PAGE
                 PROVE  ns[y].prev \in Leaves(ns) /\ b[ns[y].prev] < a[x]
      OBVIOUS
    <3>1. PICK w : w = ns[y].prev
      OBVIOUS
    <3>2. w \in Leaves(ns) /\ b[w] < a[y]
      BY <2>1, <3>1, LeafLinks
    <3>3. /\ a[y] \in Int /\ b[y] \in Int /\ a[y] < b[y] /\ a[x] \in Int /\ b[w] \in Int
      BY <2>1, <3>2, LeafPlace
    <3>4. b[w] < a[x]
      BY <2>2, <3>2, <3>3
    <3> QED
      BY <3>1, <3>2, <3>4
  <2> QED
    BY <2>1, <2>3, <2>4
<1>5. I \in SUBSET D
  OBVIOUS
<1>6. PICK z \in I \cap NonEmpty(ns) : f[ns[x].prev] = Same(D)[z]
  <2> HIDE DEF I, D
  <2> QED
    BY <1>1, <1>2, <1>3, <1>4, <1>5, ChaseReaches
<1>7. q = z
  BY <1>1, <1>6 DEF Same
<1> QED
  BY <1>6, <1>7 DEF NonEmpty

LEMMA LeavesInKeyOrder ==
    ASSUME NEW ns, NEW r, NEW a, NEW b, NEW K, Laid(ns, r, a, b, K),
           NEW p \in Leaves(ns), NEW q \in Leaves(ns), b[p] < a[q],
           NEW x \in Held(ns, p), NEW y \in Held(ns, q)
    PROVE  x.key <= y.key
<1>1. Typed(ns) /\ TreeShape(ns, r, a, b, K) /\ p \in DOMAIN ns /\ q \in DOMAIN ns
  BY DEF Laid, Leaves
<1>2. x.key \in K[p] /\ y.key \in K[q]
  BY <1>1, HeldKeys DEF KeysOf
<1> QED
  BY <1>1, <1>2 DEF TreeShape, Ordered

LEMMA LeafKeys ==
    ASSUME NEW ns, NEW r, NEW a, NEW b, NEW K, Laid(ns, r, a, b, K), NEW p \in Leaves(ns)
    PROVE  /\ ns[p].entries \in Seq(EntrySet) /\ Len(ns[p].entries) \in Nat
           /\ \A i \in 1..Len(ns[p].entries) :
                 ns[p].entries[i] \in Held(ns, p) /\ ns[p].entries[i].key \in Int
           /\ \A x \in Held(ns, p) : \E i \in 1..Len(ns[p].entries) : ns[p].entries[i] = x
           /\ \A i, j \in 1..Len(ns[p].entries) :
                 i <= j => ns[p].entries[i].key <= ns[p].entries[j].key
           /\ \A x \in Held(ns, p) : x \in EntrySet /\ x.key \in Int
<1>1. PICK s : s = ns[p].entries
  OBVIOUS
<1>2. Typed(ns) /\ TreeShape(ns, r, a, b, K) /\ p \in DOMAIN ns
  BY DEF Laid, Leaves
<1>3. s \in Seq(EntrySet)
  BY <1>1, <1>2, LeafEntries
<1>4. Len(s) \in Nat /\ DOMAIN s = 1..Len(s) /\ \A i \in 1..Len(s) : s[i] \in EntrySet
  BY <1>3
<1>5. \A i \in 1..Len(s) : s[i].key \in Int
  BY <1>4, EntryTypes
<1>6. Held(ns, p) = {s[i] : i \in 1..Len(s)}
  BY <1>1, <1>4 DEF Held, ToSet
<1>7. KeysPlaced(ns, K, p)
  BY <1>2 DEF TreeShape, PagePlaced
<1>8. \A i, j \in 1..Len(s) : i <= j => s[i].key <= s[j].key
  BY <1>1, <1>4, <1>5, <1>7 DEF KeysPlaced, Key, Width
<1> QED
  BY <1>1, <1>3, <1>4, <1>5, <1>6, <1>8

LEMMA LeafEnds ==
    ASSUME NEW ns, NEW r, NEW a, NEW b, NEW K, Laid(ns, r, a, b, K), NEW p \in Leaves(ns),
           ns[p].entries # <<>>
    PROVE  /\ ns[p].entries[1] \in Held(ns, p) /\ Last(ns[p].entries) \in Held(ns, p)
           /\ \A x \in Held(ns, p) : ns[p].entries[1].key <= x.key /\ x.key <= Last(ns[p].entries).key
<1>1. PICK s : s = ns[p].entries
  OBVIOUS
<1>2. /\ s \in Seq(EntrySet) /\ Len(s) \in Nat
      /\ \A i \in 1..Len(s) : s[i] \in Held(ns, p)
      /\ \A x \in Held(ns, p) : \E i \in 1..Len(s) : s[i] = x
      /\ \A i, j \in 1..Len(s) : i <= j => s[i].key <= s[j].key
  <2>1. /\ ns[p].entries \in Seq(EntrySet) /\ Len(ns[p].entries) \in Nat
        /\ \A i \in 1..Len(ns[p].entries) :
              ns[p].entries[i] \in Held(ns, p) /\ ns[p].entries[i].key \in Int
        /\ \A x \in Held(ns, p) : \E i \in 1..Len(ns[p].entries) : ns[p].entries[i] = x
        /\ \A i, j \in 1..Len(ns[p].entries) :
              i <= j => ns[p].entries[i].key <= ns[p].entries[j].key
        /\ \A x \in Held(ns, p) : x \in EntrySet /\ x.key \in Int
    BY LeafKeys
  <2> QED
    BY <1>1, <2>1, Zenon
<1>3. 1 \in 1..Len(s) /\ Len(s) \in 1..Len(s)
  BY <1>1, <1>2
<1>4. s[1] \in Held(ns, p) /\ s[Len(s)] \in Held(ns, p)
  BY <1>2, <1>3
<1>5. \A x \in Held(ns, p) : s[1].key <= x.key /\ x.key <= s[Len(s)].key
  <2>1. ASSUME NEW x \in Held(ns, p)
        PROVE  s[1].key <= x.key /\ x.key <= s[Len(s)].key
    <3>1. PICK i \in 1..Len(s) : s[i] = x
      BY <1>2
    <3>2. 1 <= i /\ i <= Len(s)
      BY <1>2
    <3> QED
      BY <1>2, <1>3, <3>1, <3>2
  <2> QED
    BY <2>1
<1> QED
  BY <1>1, <1>4, <1>5 DEF Last

\* The search for earlier duplicates ends at these leaves.
StartsHere(ns, key) ==
    {p \in Leaves(ns) :
        \/ ns[p].entries # <<>> /\ ns[p].entries[1].key < key
        \/ NonEmptyFrom(ns, ns[p].prev) = NO_PAGE
        \/ ~(Last(ns[NonEmptyFrom(ns, ns[p].prev)].entries).key >= key)}

Earlier(ns) == [p \in Leaves(ns) |-> NonEmptyFrom(ns, ns[p].prev)]

FromLeft(ns, r, a) == [p \in Leaves(ns) |-> a[p] - a[r]]

LEMMA EarlierFalls ==
    ASSUME NEW ns, NEW r, NEW a, NEW b, NEW K, Laid(ns, r, a, b, K), Leaves(ns) # {}, NEW key
    PROVE  Falls(Leaves(ns), StartsHere(ns, key), Earlier(ns), FromLeft(ns, r, a), b[r] - a[r])
<1> DEFINE N == b[r] - a[r]
           m == FromLeft(ns, r, a)
<1>1. N \in Nat
  BY LeafPlace
<1>2. \A p \in Leaves(ns) : m[p] = a[p] - a[r]
  BY DEF FromLeft
<1>3. ASSUME NEW p \in Leaves(ns)
      PROVE  m[p] \in 0..N
  <2>1. /\ a[p] \in Int /\ b[p] \in Int /\ a[p] < b[p]
        /\ a[r] \in Int /\ b[r] \in Int /\ a[r] <= a[p] /\ b[p] <= b[r]
    BY LeafPlace
  <2> QED
    BY <1>2, <2>1
<1>4. m \in [Leaves(ns) -> 0..N]
  <2>1. m = [q \in Leaves(ns) |-> m[q]]
    BY DEF FromLeft
  <2> HIDE DEF m, N
  <2> QED
    BY <1>3, <2>1
<1>5. ASSUME NEW p \in Leaves(ns) \ StartsHere(ns, key)
      PROVE  Earlier(ns)[p] \in Leaves(ns) /\ m[Earlier(ns)[p]] < m[p]
  <2>1. PICK q : q = NonEmptyFrom(ns, ns[p].prev)
    OBVIOUS
  <2>2. q # NO_PAGE
    BY <2>1 DEF StartsHere
  <2>3. q \in Leaves(ns) /\ b[q] < a[p]
    BY <2>1, <2>2, NonEmptyFound
  <2>4. a[q] \in Int /\ b[q] \in Int /\ a[q] < b[q] /\ a[p] \in Int /\ a[r] \in Int
    BY <2>3, LeafPlace
  <2>5. m[q] < m[p]
    BY <1>2, <2>3, <2>4
  <2> QED
    BY <2>1, <2>3, <2>5 DEF Earlier
<1> QED
  BY <1>1, <1>4, <1>5 DEF Falls

LEMMA StartChases ==
    ASSUME NEW ns, NEW r, NEW a, NEW b, NEW K, Laid(ns, r, a, b, K), Leaves(ns) # {}, NEW key
    PROVE  \E f : /\ Chases(f, Leaves(ns), StartsHere(ns, key), Same(Leaves(ns)), Earlier(ns))
                  /\ find_search_start_page(ns, r, key) = f[Last(read_path(ns, r, key))]
<1> DEFINE Body(f, p) ==
               IF ns[p].entries # <<>> /\ ns[p].entries[1].key < key THEN p
               ELSE LET q == NonEmptyFrom(ns, ns[p].prev)
                    IN IF q # NO_PAGE /\ Last(ns[q].entries).key >= key THEN f[q] ELSE p
           F == CHOOSE f : f = [p \in Leaves(ns) |-> Body(f, p)]
<1>1. find_search_start_page(ns, r, key) = F[Last(read_path(ns, r, key))]
  BY Zenon DEF find_search_start_page
<1>2. ASSUME NEW f
      PROVE  Chases(f, Leaves(ns), StartsHere(ns, key), Same(Leaves(ns)), Earlier(ns))
                 <=> f = [p \in Leaves(ns) |-> Body(f, p)]
  <2>1. \A p \in Leaves(ns) :
            ChaseStep(f, StartsHere(ns, key), Same(Leaves(ns)), Earlier(ns), p) = Body(f, p)
    BY DEF ChaseStep, StartsHere, Same, Earlier
  <2>2. [p \in Leaves(ns) |-> ChaseStep(f, StartsHere(ns, key), Same(Leaves(ns)), Earlier(ns), p)]
          = [p \in Leaves(ns) |-> Body(f, p)]
    <3> HIDE DEF Body
    <3> QED
      BY <2>1
  <2> QED
    BY <2>2 DEF Chases
<1>3. \E f : Chases(f, Leaves(ns), StartsHere(ns, key), Same(Leaves(ns)), Earlier(ns))
  BY EarlierFalls, ChaseDefined
<1>4. F = [p \in Leaves(ns) |-> Body(F, p)]
  <2> HIDE DEF Body
  <2> QED
    BY <1>2, <1>3
<1> HIDE DEF F
<1>5. Chases(F, Leaves(ns), StartsHere(ns, key), Same(Leaves(ns)), Earlier(ns))
  BY <1>2, <1>4
<1> QED
  BY <1>1, <1>5

\* The leaves before s hold smaller keys only.
Passed(ns, a, b, key, s) == \A z \in Leaves(ns) : b[z] < a[s] => \A x \in Held(ns, z) : x.key < key

LEMMA StartPassed ==
    ASSUME NEW ns, NEW r, NEW a, NEW b, NEW K, Laid(ns, r, a, b, K), NEW key \in Int,
           NEW s \in StartsHere(ns, key)
    PROVE  Passed(ns, a, b, key, s)
<1>1. s \in Leaves(ns)
  BY DEF StartsHere
<1> SUFFICES ASSUME NEW z \in Leaves(ns), b[z] < a[s], NEW x \in Held(ns, z)
             PROVE  x.key < key
  BY DEF Passed
<1>2. x.key \in Int
  BY LeafKeys
<1>3. PICK q : q = NonEmptyFrom(ns, ns[s].prev)
  OBVIOUS
<1>4. /\ Gap(ns, a, b, q, s)
      /\ q # NO_PAGE => q \in Leaves(ns) /\ ns[q].entries # <<>> /\ b[q] < a[s]
  BY <1>1, <1>3, NonEmptyFound
<1>5. ns[z].entries # <<>>
  <2>1. \E i \in 1..Len(ns[z].entries) : ns[z].entries[i] = x
    BY LeafKeys
  <2> SUFFICES ASSUME ns[z].entries = <<>> PROVE FALSE
    OBVIOUS
  <2>2. Len(ns[z].entries) = 0
    OBVIOUS
  <2> QED
    BY <2>1, <2>2
<1>6. CASE ns[s].entries # <<>> /\ ns[s].entries[1].key < key
  <2>1. ns[s].entries[1] \in Held(ns, s)
    BY <1>1, <1>6, LeafEnds
  <2>2. ns[s].entries[1].key \in Int
    BY <1>1, <2>1, LeafKeys
  <2>3. x.key <= ns[s].entries[1].key
    BY <1>1, <2>1, LeavesInKeyOrder
  <2> QED
    BY <1>2, <1>6, <2>2, <2>3
<1>7. CASE q = NO_PAGE
  BY <1>4, <1>5, <1>7 DEF Gap
<1>8. CASE q # NO_PAGE /\ ~(Last(ns[q].entries).key >= key)
  <2>1. q \in Leaves(ns) /\ ns[q].entries # <<>>
    BY <1>4, <1>8
  <2>2. Last(ns[q].entries) \in Held(ns, q) /\ \A y \in Held(ns, q) : y.key <= Last(ns[q].entries).key
    BY <2>1, LeafEnds
  <2>3. Last(ns[q].entries).key \in Int
    BY <2>1, <2>2, LeafKeys
  <2>4. ~(b[q] < a[z])
    BY <1>4, <1>5, <1>8 DEF Gap
  <2>5. z = q \/ b[z] < a[q]
    BY <2>1, <2>4, LeavesApart DEF Laid
  <2>6. x.key <= Last(ns[q].entries).key
    BY <2>1, <2>2, <2>5, LeavesInKeyOrder
  <2> QED
    BY <1>2, <1>8, <2>3, <2>6
<1> QED
  BY <1>3, <1>6, <1>7, <1>8 DEF StartsHere

\* A lookup starts at a leaf with smaller keys before it and none behind it.
LEMMA StartFound ==
    ASSUME NEW ns, NEW r, NEW a, NEW b, NEW K, Laid(ns, r, a, b, K), NEW key \in Int,
           NEW s, s = find_search_start_page(ns, r, key)
    PROVE  s \in Leaves(ns) /\ Passed(ns, a, b, key, s) /\ Ahead(DOMAIN ns, a, b, K, key, s)
<1>1. Typed(ns) /\ TreeShape(ns, r, a, b, K)
  BY DEF Laid
<1>2. PICK o : o = Last(read_path(ns, r, key))
  OBVIOUS
<1>3. o \in Leaves(ns) /\ Ahead(DOMAIN ns, a, b, K, key, o)
  BY <1>1, <1>2, PathFound
<1>4. PICK f : /\ Chases(f, Leaves(ns), StartsHere(ns, key), Same(Leaves(ns)), Earlier(ns))
               /\ find_search_start_page(ns, r, key) = f[Last(read_path(ns, r, key))]
  BY <1>3, StartChases
<1>5. Falls(Leaves(ns), StartsHere(ns, key), Earlier(ns), FromLeft(ns, r, a), b[r] - a[r])
  BY <1>3, EarlierFalls
<1> DEFINE I == {p \in Leaves(ns) : Ahead(DOMAIN ns, a, b, K, key, p)}
<1>6. o \in I /\ I \in SUBSET Leaves(ns)
  BY <1>3
<1>7. ASSUME NEW p \in I, p \notin StartsHere(ns, key)
      PROVE  Earlier(ns)[p] \in I
  <2>1. PICK q : q = NonEmptyFrom(ns, ns[p].prev)
    OBVIOUS
  <2>2. Earlier(ns)[p] = q /\ q # NO_PAGE /\ Last(ns[q].entries).key >= key
    BY <1>7, <2>1 DEF Earlier, StartsHere
  <2>3. q \in Leaves(ns) /\ ns[q].entries # <<>>
    BY <2>1, <2>2, NonEmptyFound
  <2>4. PICK x : x = Last(ns[q].entries)
    OBVIOUS
  <2>5. x \in Held(ns, q)
    BY <2>3, <2>4, LeafEnds
  <2>6. x.key \in K[q] /\ x.key \in Int /\ key <= x.key
    BY <1>1, <2>2, <2>3, <2>4, <2>5, HeldKeys, LeafKeys DEF KeysOf
  <2>7. ASSUME NEW z \in DOMAIN ns, b[q] < a[z], NEW y \in K[z]
        PROVE  key <= y
    <3>1. Ordered(DOMAIN ns, a, b, K) /\ q \in DOMAIN ns /\ Labelled(DOMAIN ns, a, b, K)
      BY <1>1, <2>3, LeafPlace DEF TreeShape
    <3>2. x.key <= y
      BY <2>6, <2>7, <3>1 DEF Ordered
    <3>3. y \in Int
      BY <3>1, LabelTypes
    <3> QED
      BY <2>6, <3>2, <3>3
  <2>8. Ahead(DOMAIN ns, a, b, K, key, q)
    BY <2>7 DEF Ahead
  <2> QED
    BY <2>2, <2>3, <2>8
<1>8. PICK z \in I \cap StartsHere(ns, key) : f[o] = Same(Leaves(ns))[z]
  <2> HIDE DEF I
  <2> QED
    BY <1>4, <1>5, <1>6, <1>7, ChaseReaches
<1>9. s = z
  BY <1>2, <1>4, <1>8 DEF Same
<1>10. Passed(ns, a, b, key, z)
  BY <1>8, StartPassed
<1> QED
  BY <1>8, <1>9, <1>10

-----------------------------------------------------------------------------
(* An entry is deleted                                                     *)

Forwards(ns) == [p \in Leaves(ns) |-> ns[p].next]

FromRight(ns, r, b) == [p \in Leaves(ns) |-> b[r] - b[p]]

\* The last leaf is among those where the walk ends.
EndsInTime(ns, Stop) == \A p \in Leaves(ns) : p \notin Stop => ns[p].next # NO_PAGE

LEMMA ForwardsFalls ==
    ASSUME NEW ns, NEW r, NEW a, NEW b, NEW K, Laid(ns, r, a, b, K), Leaves(ns) # {},
           NEW Stop, EndsInTime(ns, Stop)
    PROVE  Falls(Leaves(ns), Stop, Forwards(ns), FromRight(ns, r, b), b[r] - a[r])
<1> DEFINE N == b[r] - a[r]
           m == FromRight(ns, r, b)
<1>1. N \in Nat
  BY LeafPlace
<1>2. \A p \in Leaves(ns) : m[p] = b[r] - b[p]
  BY DEF FromRight
<1>3. ASSUME NEW p \in Leaves(ns)
      PROVE  m[p] \in 0..N
  <2>1. /\ a[p] \in Int /\ b[p] \in Int /\ a[p] < b[p]
        /\ a[r] \in Int /\ b[r] \in Int /\ a[r] <= a[p] /\ b[p] <= b[r]
    BY LeafPlace
  <2> QED
    BY <1>2, <2>1
<1>4. m \in [Leaves(ns) -> 0..N]
  <2>1. m = [q \in Leaves(ns) |-> m[q]]
    BY DEF FromRight
  <2> HIDE DEF m, N
  <2> QED
    BY <1>3, <2>1
<1>5. ASSUME NEW p \in Leaves(ns) \ Stop
      PROVE  Forwards(ns)[p] \in Leaves(ns) /\ m[Forwards(ns)[p]] < m[p]
  <2>1. PICK q : q = ns[p].next
    OBVIOUS
  <2>2. q # NO_PAGE
    BY <2>1 DEF EndsInTime
  <2>3. q \in Leaves(ns) /\ b[p] < a[q]
    BY <2>1, <2>2, LeafLinks
  <2>4. a[q] \in Int /\ b[q] \in Int /\ a[q] < b[q] /\ b[p] \in Int /\ b[r] \in Int
    BY <2>3, LeafPlace
  <2>5. m[q] < m[p]
    BY <1>2, <2>3, <2>4
  <2> QED
    BY <2>1, <2>3, <2>5 DEF Forwards
<1> QED
  BY <1>1, <1>4, <1>5 DEF Falls

\* The walk of a deletion ends at these leaves, with the leaf or without.
HoldStops(ns, entry) ==
    {p \in Leaves(ns) :
        \/ Contains(ns[p].entries, entry)
        \/ ns[p].next = NO_PAGE
        \/ ns[ns[p].next].entries # <<>> /\ ns[ns[p].next].entries[1].key > entry.key}

HoldBase(ns, entry) ==
    [p \in Leaves(ns) |-> IF Contains(ns[p].entries, entry) THEN p ELSE NO_PAGE]

LEMMA HoldChases ==
    ASSUME NEW ns, NEW r, NEW a, NEW b, NEW K, Laid(ns, r, a, b, K), Leaves(ns) # {}, NEW entry,
           NEW t, t.nodes = ns, t.root = r
    PROVE  \E f : /\ Chases(f, Leaves(ns), HoldStops(ns, entry), HoldBase(ns, entry), Forwards(ns))
                  /\ LeafHolding(t, entry) = f[find_search_start_page(ns, r, entry.key)]
<1> DEFINE Body(f, p) ==
               LET next == t.nodes[p].next
               IN IF Contains(t.nodes[p].entries, entry) THEN p
                  ELSE IF next = NO_PAGE THEN NO_PAGE
                  ELSE IF t.nodes[next].entries # <<>> /\ t.nodes[next].entries[1].key > entry.key
                  THEN NO_PAGE ELSE f[next]
           F == CHOOSE f : f = [p \in Leaves(t.nodes) |-> Body(f, p)]
<1>1. LeafHolding(t, entry) = F[find_search_start_page(t.nodes, t.root, entry.key)]
  BY Zenon DEF LeafHolding
<1>2. ASSUME NEW f
      PROVE  Chases(f, Leaves(ns), HoldStops(ns, entry), HoldBase(ns, entry), Forwards(ns))
                 <=> f = [p \in Leaves(t.nodes) |-> Body(f, p)]
  <2>1. \A p \in Leaves(ns) :
            ChaseStep(f, HoldStops(ns, entry), HoldBase(ns, entry), Forwards(ns), p) = Body(f, p)
    BY DEF ChaseStep, HoldStops, HoldBase, Forwards
  <2>2. [p \in Leaves(ns) |-> ChaseStep(f, HoldStops(ns, entry), HoldBase(ns, entry), Forwards(ns), p)]
          = [p \in Leaves(ns) |-> Body(f, p)]
    <3> HIDE DEF Body
    <3> QED
      BY <2>1
  <2> QED
    BY <2>2 DEF Chases
<1>3. \E f : Chases(f, Leaves(ns), HoldStops(ns, entry), HoldBase(ns, entry), Forwards(ns))
  <2>1. EndsInTime(ns, HoldStops(ns, entry))
    BY DEF EndsInTime, HoldStops
  <2> QED
    BY <2>1, ForwardsFalls, ChaseDefined
<1>4. F = [p \in Leaves(t.nodes) |-> Body(F, p)]
  <2> HIDE DEF Body
  <2> QED
    BY <1>2, <1>3
<1> HIDE DEF F
<1>5. Chases(F, Leaves(ns), HoldStops(ns, entry), HoldBase(ns, entry), Forwards(ns))
  BY <1>2, <1>4
<1> QED
  BY <1>1, <1>5

\* The walk of a deletion reaches the leaf of the entry.
LEMMA HoldingFound ==
    ASSUME NEW ns, NEW r, NEW a, NEW b, NEW K, Laid(ns, r, a, b, K), NEW E, Stored(ns, E),
           NEW entry, NEW h \in Leaves(ns), entry \in Held(ns, h), NEW t, t.nodes = ns, t.root = r
    PROVE  LeafHolding(t, entry) = h
<1>1. entry.key \in Int
  BY LeafKeys
<1>2. PICK o : o = find_search_start_page(ns, r, entry.key)
  OBVIOUS
<1>3. o \in Leaves(ns) /\ Passed(ns, a, b, entry.key, o)
  <2>1. PICK key : key = entry.key
    OBVIOUS
  <2> QED
    BY <1>1, <1>2, <2>1, StartFound
<1>4. PICK f : /\ Chases(f, Leaves(ns), HoldStops(ns, entry), HoldBase(ns, entry), Forwards(ns))
               /\ LeafHolding(t, entry) = f[o]
  BY <1>2, HoldChases
<1>5. Falls(Leaves(ns), HoldStops(ns, entry), Forwards(ns), FromRight(ns, r, b), b[r] - a[r])
  <2>1. EndsInTime(ns, HoldStops(ns, entry))
    BY DEF EndsInTime, HoldStops
  <2> QED
    BY <2>1, ForwardsFalls
<1> DEFINE I == {p \in Leaves(ns) : p = h \/ b[p] < a[h]}
<1>6. o \in I /\ I \in SUBSET Leaves(ns)
  <2>1. ~(b[h] < a[o])
    <3> SUFFICES ASSUME b[h] < a[o] PROVE FALSE
      OBVIOUS
    <3>1. entry.key < entry.key
      BY <1>3 DEF Passed
    <3> QED
      BY <1>1, <3>1
  <2> QED
    BY <1>3, <2>1, LeavesApart DEF Laid
<1>7. \A p \in Leaves(ns) : Contains(ns[p].entries, entry) <=> p = h
  <2>1. ASSUME NEW p \in Leaves(ns)
        PROVE  Contains(ns[p].entries, entry) <=> entry \in Held(ns, p)
    BY LeafKeys DEF Contains
  <2> QED
    BY <2>1 DEF Stored
<1>8. ASSUME NEW p \in I, p # h
      PROVE  /\ ns[p].next # NO_PAGE /\ ns[p].next \in I
             /\ ~(ns[ns[p].next].entries # <<>> /\ ns[ns[p].next].entries[1].key > entry.key)
  <2>1. b[p] < a[h] /\ p \in Leaves(ns)
    BY <1>8
  <2>2. PICK n : n = ns[p].next
    OBVIOUS
  <2>3. n # NO_PAGE
    BY <2>1, <2>2, LeafLinks
  <2>4. n \in Leaves(ns) /\ (h = n \/ b[n] < a[h])
    BY <2>1, <2>2, <2>3, LeafLinks
  <2>5. ASSUME ns[n].entries # <<>>
        PROVE  ~(ns[n].entries[1].key > entry.key)
    <3>1. /\ ns[n].entries[1] \in Held(ns, n)
          /\ \A x \in Held(ns, n) : ns[n].entries[1].key <= x.key
      BY <2>4, <2>5, LeafEnds
    <3>2. ns[n].entries[1].key \in Int
      BY <2>4, <3>1, LeafKeys
    <3>3. ns[n].entries[1].key <= entry.key
      BY <2>4, <3>1, LeavesInKeyOrder
    <3> QED
      BY <1>1, <3>2, <3>3
  <2> QED
    BY <2>2, <2>3, <2>4, <2>5
<1>9. ASSUME NEW p \in I, p \notin HoldStops(ns, entry)
      PROVE  Forwards(ns)[p] \in I
  <2>1. p # h
    BY <1>7, <1>9 DEF HoldStops
  <2> QED
    BY <1>8, <2>1 DEF Forwards
<1>10. PICK z \in I \cap HoldStops(ns, entry) : f[o] = HoldBase(ns, entry)[z]
  <2> HIDE DEF I
  <2> QED
    BY <1>4, <1>5, <1>6, <1>9, ChaseReaches
<1>11. z = h
  BY <1>7, <1>8, <1>10 DEF HoldStops
<1> QED
  BY <1>4, <1>7, <1>10, <1>11 DEF HoldBase

LEMMA RemovedLists ==
    ASSUME NEW s \in Seq(EntrySet), NEW S, Lists(s, S, EntryOrder), NEW e \in S,
           NEW u, u = RemoveFirst(s, e)
    PROVE  u \in Seq(EntrySet) /\ Lists(u, S \ {e}, EntryOrder)
<1> DEFINE I == {i \in 1..Len(s) : s[i] = e}
<1>1. /\ Len(s) \in Nat /\ \E i \in 1..Len(s) : s[i] = e
  BY EntriesSorted
<1>2. I \in SUBSET Nat /\ I # {}
  BY <1>1
<1>3. Min(I) \in I
  BY <1>2, MinIsLeast
<1>4. PICK i \in 1..Len(s) : i = Min(I) /\ s[i] = e
  BY <1>3
<1>5. u = RemoveAt(s, i)
  BY <1>1, <1>2, <1>4 DEF RemoveFirst, SelectInSeq
<1>6. \A x : <<x, x>> \notin EntryOrder
  BY EntryOrderFacts
<1>7. Lists(u, S \ {e}, EntryOrder)
  BY <1>4, <1>5, <1>6, ListsRemove
<1>8. u \in Seq(EntrySet)
  <2>1. u \in Seq(S \ {e})
    BY <1>7, ListsFields
  <2>2. \A x \in S \ {e} : x \in EntrySet
    BY EntriesSorted
  <2>3. Len(u) \in Nat /\ u \in [1..Len(u) -> S \ {e}]
    BY <2>1
  <2>4. u \in [1..Len(u) -> EntrySet]
    BY <2>2, <2>3
  <2> QED
    BY <2>3, <2>4
<1> QED
  BY <1>7, <1>8

LEMMA DeleteUnfolded ==
    ASSUME NEW ns, NEW r, NEW t, t = TreeOf(ns, r, "ok"), NEW key, NEW pointer,
           NEW p, LeafHolding(t, Entry(key, pointer)) = p, p # NO_PAGE,
           NEW u, u = RemoveFirst(ns[p].entries, Entry(key, pointer))
    PROVE  DeleteEntry(t, key, pointer) = TreeOf(PutEntries(ns, p, u), r, "ok")
<1>1. t.nodes = ns
  BY TreeFields
<1>2. PICK ms : ms = PutEntries(ns, p, u)
  OBVIOUS
<1>3. DeleteEntry(t, key, pointer) = [t EXCEPT !.nodes = ms]
  BY <1>1, <1>2 DEF DeleteEntry, Entry
<1>4. [t EXCEPT !.nodes = ms] = TreeOf(ms, r, "ok")
  BY TreeWithNodes
<1> QED
  BY <1>2, <1>3, <1>4

\* A deletion finds its entry and takes it away.
LEMMA DeleteSound ==
    ASSUME NEW ns, NEW r, NEW E, Sound(ns, r, E), Numbered(ns), NEW t, t = TreeOf(ns, r, "ok"),
           NEW key, NEW pointer, Entry(key, pointer) \in E
    PROVE  \E ms : /\ DeleteEntry(t, key, pointer) = TreeOf(ms, r, "ok")
                   /\ Sound(ms, r, E \ {Entry(key, pointer)}) /\ Numbered(ms)
<1>1. Typed(ns) /\ Placed(ns, r) /\ Stored(ns, E)
  BY DEF Sound
<1>2. PICK a, b, K : TreeShape(ns, r, a, b, K) /\ Chained(ns, a, b)
  BY <1>1 DEF Placed
<1>3. Laid(ns, r, a, b, K)
  BY <1>1, <1>2 DEF Laid
<1>4. PICK e : e = Entry(key, pointer)
  OBVIOUS
<1>5. PICK p \in Leaves(ns) : e \in Held(ns, p)
  BY <1>1, <1>4 DEF Stored
<1>6. LeafHolding(t, e) = p
  <2>1. t.nodes = ns /\ t.root = r
    BY TreeFields
  <2> QED
    BY <1>1, <1>3, <1>5, <2>1, HoldingFound
<1>7. PICK s : s = ns[p].entries
  OBVIOUS
<1>8. s \in Seq(EntrySet) /\ Lists(s, Held(ns, p), EntryOrder)
  BY <1>1, <1>7, LeafEntries DEF Stored
<1>9. PICK u : u = RemoveFirst(s, e)
  OBVIOUS
<1>10. PICK S : S = Held(ns, p) \ {e}
  OBVIOUS
<1>11. u \in Seq(EntrySet) /\ Lists(u, S, EntryOrder)
  BY <1>5, <1>8, <1>9, <1>10, RemovedLists
<1>12. KeysOf(S, K[p])
  BY <1>1, <1>2, <1>10, HeldKeys DEF KeysOf
<1>13. PICK E2 : E2 = E \ {e}
  OBVIOUS
<1>14. Exchanged(ns, p, u, E, E2)
  <2>1. ToSet(u) = S
    BY <1>11, ListsWhole
  <2>2. \A x \in Held(ns, p) : x \in E
    BY <1>1 DEF Stored
  <2> QED
    BY <1>5, <1>10, <1>13, <2>1, <2>2 DEF Exchanged
<1>15. PICK ms : ms = PutEntries(ns, p, u)
  OBVIOUS
<1>16. Sound(ms, r, E2) /\ Rewrote(ns, ms, p, u)
  BY <1>1, <1>2, <1>11, <1>12, <1>14, <1>15, RewriteSound
<1>17. Numbered(ms)
  BY <1>16 DEF Numbered, Rewrote
<1>18. p # NO_PAGE
  BY <1>3, LeafPlace
<1>19. DeleteEntry(t, key, pointer) = TreeOf(ms, r, "ok")
  BY <1>4, <1>6, <1>7, <1>9, <1>15, <1>18, DeleteUnfolded
<1> QED
  BY <1>4, <1>13, <1>16, <1>17, <1>19

-----------------------------------------------------------------------------
(* The invariant                                                           *)

Stock(S) == {Entry(e[1], e[2]) : e \in S}

LEMMA StockFacts ==
    ASSUME NEW S \in SUBSET (Keys \X Pointers), NEW key \in Keys, NEW pointer \in Pointers
    PROVE  /\ Entry(key, pointer) \in Stock(S) <=> <<key, pointer>> \in S
           /\ Stock(S \cup {<<key, pointer>>}) = Stock(S) \cup {Entry(key, pointer)}
           /\ Stock(S \ {<<key, pointer>>}) = Stock(S) \ {Entry(key, pointer)}
<1>1. \A e \in Keys \X Pointers : Entry(e[1], e[2]) = Entry(key, pointer) <=> e = <<key, pointer>>
  BY DEF Entry
<1>2. <<key, pointer>>[1] = key /\ <<key, pointer>>[2] = pointer
  OBVIOUS
<1>3. Entry(key, pointer) \in Stock(S) <=> <<key, pointer>> \in S
  BY <1>1, <1>2 DEF Stock
<1>4. Stock(S \cup {<<key, pointer>>}) = Stock(S) \cup {Entry(key, pointer)}
  BY <1>2 DEF Stock
<1>5. Stock(S \ {<<key, pointer>>}) = Stock(S) \ {Entry(key, pointer)}
  BY <1>1, <1>2 DEF Stock
<1> QED
  BY <1>3, <1>4, <1>5

\* The tree has its shape, its pages are numbered as they were claimed, and its
\* leaves hold the entries inserted and not deleted.
IndexInv ==
    /\ live \in SUBSET (Keys \X Pointers) /\ result \in Errors
    /\ Sound(nodes, root, Stock(live)) /\ Numbered(nodes)

LEMMA FirstLeaf ==
    ASSUME NEW ns, ns = [p \in {1} |-> LeafNode(<<>>, NO_PAGE, NO_PAGE, NO_PAGE)]
    PROVE  Sound(ns, 1, {}) /\ Numbered(ns)
<1>1. PICK x : x = LeafNode(<<>>, NO_PAGE, NO_PAGE, NO_PAGE)
  OBVIOUS
<1>2. x.leaf /\ x.entries = <<>> /\ x.prev = NO_PAGE /\ x.next = NO_PAGE
  BY <1>1, LeafFields
<1>3. x \in LeafNodes
  <2>1. <<>> \in Seq(EntrySet) /\ NO_PAGE \in Nat
    BY DEF NO_PAGE
  <2> QED
    BY <1>1, <2>1, LeafTyped
<1>4. DOMAIN ns = {1} /\ ns[1] = x
  BY <1>1
<1>5. Numbered(ns)
  <2>1. DOMAIN ns = 1..1
    BY <1>4
  <2> QED
    BY <2>1 DEF Numbered
<1>6. Typed(ns)
  BY <1>3, <1>4 DEF Typed
<1>7. Leaves(ns) = {1}
  BY <1>2, <1>4 DEF Leaves
<1>8. Slots(ns, 1) = {} /\ Width(ns, 1) = 0
  BY <1>2, <1>4 DEF Slots, Width
<1>9. Placed(ns, 1)
  <2> DEFINE a == [p \in {1} |-> 0]
             b == [p \in {1} |-> 1]
             K == [p \in {1} |-> Int]
  <2>1. a[1] = 0 /\ b[1] = 1 /\ K[1] = Int
    OBVIOUS
  <2>2. Labelled({1}, a, b, K)
    BY DEF Labelled
  <2>3. \A p, q \in {1} : ~Inside(a, b, q, p) /\ ~(b[p] < a[q])
    BY <2>1 DEF Inside
  <2> HIDE DEF a, b, K
  <2>4. Rooted({1}, 1, a, b, K) /\ Nested({1}, a, b) /\ Ordered({1}, a, b, K) /\ Narrowing({1}, a, b, K)
    BY <2>1, <2>3 DEF Rooted, Nested, Ordered, Narrowing
  <2>5. PagePlaced(ns, a, b, K, 1)
    BY <1>4, <1>8, <2>3 DEF PagePlaced, KidsPlaced, KidsApart, KeysPlaced, KidsReach
  <2>6. TreeShape(ns, 1, a, b, K)
    BY <1>4, <2>2, <2>4, <2>5 DEF TreeShape
  <2>7. Chained(ns, a, b)
    BY <1>2, <1>4, <1>7, <2>3 DEF Chained, NextLeaf, PrevLeaf
  <2> QED
    BY <2>6, <2>7 DEF Placed
<1>10. Stored(ns, {})
  <2>1. ns[1].entries = <<>> /\ Held(ns, 1) = {}
    BY <1>2, <1>4 DEF Held, ToSet
  <2>2. Lists(ns[1].entries, Held(ns, 1), EntryOrder)
    BY <2>1, ListsNone
  <2> QED
    BY <1>7, <2>1, <2>2 DEF Stored
<1> QED
  BY <1>5, <1>6, <1>9, <1>10 DEF Sound

LEMMA FinishKeeps ==
    ASSUME NEW t, NEW S \in SUBSET (Keys \X Pointers), IndexInv, Made(t, Stock(S)), Finish(t, S)
    PROVE  IndexInv'
<1>1. PICK ns, r, err : /\ t = TreeOf(ns, r, err) /\ err \in Errors
                        /\ Sound(ns, r, Stock(S)) /\ Numbered(ns)
  BY DEF Made
<1>2. t.nodes = ns /\ t.root = r /\ t.err = err
  BY <1>1, TreeFields
<1>3. result' = err
  BY <1>2 DEF Finish
<1>4. CASE err = "ok"
  <2>1. nodes' = ns /\ root' = r /\ live' = S
    BY <1>2, <1>4 DEF Finish
  <2> QED
    BY <1>1, <1>3, <2>1 DEF IndexInv
<1>5. CASE err # "ok"
  <2>1. nodes' = nodes /\ root' = root /\ live' = live
    BY <1>2, <1>5 DEF Finish
  <2> QED
    BY <1>1, <1>3, <2>1 DEF IndexInv
<1> QED
  BY <1>4, <1>5

LEMMA InitSound == Init => IndexInv
<1> SUFFICES ASSUME Init PROVE IndexInv
  OBVIOUS
<1>1. /\ nodes = [p \in {1} |-> LeafNode(<<>>, NO_PAGE, NO_PAGE, NO_PAGE)]
      /\ root = 1 /\ live = {} /\ result = "ok"
  BY DEF Init
<1>2. Sound(nodes, 1, {}) /\ Numbered(nodes)
  BY <1>1, FirstLeaf
<1>3. Stock(live) = {}
  BY <1>1 DEF Stock
<1> QED
  BY <1>1, <1>2, <1>3 DEF IndexInv, Errors

LEMMA TreeIsOk == Tree = TreeOf(nodes, root, "ok")
BY DEF Tree, TreeOf

LEMMA InsertKeeps ==
    ASSUME IndexInv, Insert
    PROVE  IndexInv'
<1>1. PICK key \in Keys, pointer \in Pointers :
          /\ <<key, pointer>> \notin live
          /\ Finish(InsertEntry(Tree, key, pointer), live \cup {<<key, pointer>>})
  BY DEF Insert
<1>2. live \in SUBSET (Keys \X Pointers) /\ Sound(nodes, root, Stock(live)) /\ Numbered(nodes)
  BY DEF IndexInv
<1>3. Entry(key, pointer) \notin Stock(live)
  BY <1>1, <1>2, StockFacts
<1>4. Made(InsertEntry(Tree, key, pointer), Stock(live) \cup {Entry(key, pointer)})
  BY <1>2, <1>3, TreeIsOk, InsertSound
<1>5. Made(InsertEntry(Tree, key, pointer), Stock(live \cup {<<key, pointer>>}))
  <2>1. ASSUME NEW S \in SUBSET (Keys \X Pointers)
        PROVE  Stock(S \cup {<<key, pointer>>}) = Stock(S) \cup {Entry(key, pointer)}
    <3>1. /\ Entry(key, pointer) \in Stock(S) <=> <<key, pointer>> \in S
          /\ Stock(S \cup {<<key, pointer>>}) = Stock(S) \cup {Entry(key, pointer)}
          /\ Stock(S \ {<<key, pointer>>}) = Stock(S) \ {Entry(key, pointer)}
      BY StockFacts
    <3> QED
      BY <3>1
  <2>2. Stock(live \cup {<<key, pointer>>}) = Stock(live) \cup {Entry(key, pointer)}
    BY <1>2, <2>1, Zenon
  <2> QED
    BY <1>4, <2>2, Zenon
<1>6. PICK S : S = live \cup {<<key, pointer>>}
  OBVIOUS
<1>7. S \in SUBSET (Keys \X Pointers)
  BY <1>2, <1>6
<1> QED
  BY <1>1, <1>5, <1>6, <1>7, FinishKeeps

LEMMA DeleteKeeps ==
    ASSUME IndexInv, Delete
    PROVE  IndexInv'
<1>1. PICK entry \in live : Finish(DeleteEntry(Tree, entry[1], entry[2]), live \ {entry})
  BY DEF Delete
<1>2. live \in SUBSET (Keys \X Pointers) /\ Sound(nodes, root, Stock(live)) /\ Numbered(nodes)
  BY DEF IndexInv
<1>3. PICK key \in Keys, pointer \in Pointers : entry = <<key, pointer>>
  BY <1>2
<1>4. entry[1] = key /\ entry[2] = pointer
  BY <1>3
<1>5. Entry(key, pointer) \in Stock(live)
  BY <1>2, <1>3, StockFacts
<1>6. PICK ms : /\ DeleteEntry(Tree, key, pointer) = TreeOf(ms, root, "ok")
                /\ Sound(ms, root, Stock(live) \ {Entry(key, pointer)}) /\ Numbered(ms)
  BY <1>2, <1>5, TreeIsOk, DeleteSound
<1>7. PICK S : S = live \ {entry}
  OBVIOUS
<1>8. S \in SUBSET (Keys \X Pointers) /\ Stock(S) = Stock(live) \ {Entry(key, pointer)}
  BY <1>2, <1>3, <1>7, StockFacts
<1>9. Made(DeleteEntry(Tree, key, pointer), Stock(S))
  BY <1>6, <1>8 DEF Made, Errors
<1> QED
  BY <1>1, <1>4, <1>7, <1>8, <1>9, FinishKeeps

LEMMA UpdateKeeps ==
    ASSUME IndexInv, Update
    PROVE  IndexInv'
<1>1. PICK entry \in live, pointer \in Pointers :
          /\ <<entry[1], pointer>> \notin live
          /\ Finish(InsertEntry(DeleteEntry(Tree, entry[1], entry[2]), entry[1], pointer),
                    (live \ {entry}) \cup {<<entry[1], pointer>>})
  BY DEF Update
<1>2. live \in SUBSET (Keys \X Pointers) /\ Sound(nodes, root, Stock(live)) /\ Numbered(nodes)
  BY DEF IndexInv
<1>3. PICK key \in Keys, old \in Pointers : entry = <<key, old>>
  BY <1>2
<1>4. entry[1] = key /\ entry[2] = old
  BY <1>3
<1>5. Entry(key, old) \in Stock(live)
  BY <1>2, <1>3, StockFacts
<1>6. PICK ms : /\ DeleteEntry(Tree, key, old) = TreeOf(ms, root, "ok")
                /\ Sound(ms, root, Stock(live) \ {Entry(key, old)}) /\ Numbered(ms)
  BY <1>2, <1>5, TreeIsOk, DeleteSound
<1>7. PICK S : S = live \ {entry}
  OBVIOUS
<1>8. S \in SUBSET (Keys \X Pointers) /\ Stock(S) = Stock(live) \ {Entry(key, old)}
  BY <1>2, <1>3, <1>7, StockFacts
<1>9. <<key, pointer>> \notin S
  BY <1>1, <1>4, <1>7
<1>10. Entry(key, pointer) \notin Stock(S)
  BY <1>8, <1>9, StockFacts
<1>11. PICK t : t = DeleteEntry(Tree, key, old)
  OBVIOUS
<1>12. Sound(ms, root, Stock(S)) /\ Numbered(ms) /\ t = TreeOf(ms, root, "ok")
  BY <1>6, <1>8, <1>11
<1>13. Made(InsertEntry(t, key, pointer), Stock(S) \cup {Entry(key, pointer)})
  BY <1>10, <1>12, InsertSound
<1>14. PICK S2 : S2 = S \cup {<<key, pointer>>}
  OBVIOUS
<1>15. S2 \in SUBSET (Keys \X Pointers) /\ Stock(S2) = Stock(S) \cup {Entry(key, pointer)}
  <2>1. Stock(S \cup {<<key, pointer>>}) = Stock(S) \cup {Entry(key, pointer)}
    BY <1>8, StockFacts
  <2>2. <<key, pointer>> \in Keys \X Pointers
    OBVIOUS
  <2> QED
    BY <1>8, <1>14, <2>1, <2>2
<1>16. Finish(InsertEntry(t, key, pointer), S2)
  BY <1>1, <1>4, <1>7, <1>11, <1>14
<1> QED
  BY <1>13, <1>15, <1>16, FinishKeeps

\* Whatever was inserted, split, deleted and updated before, and whether the
\* last operation failed or not, the tree keeps its shape and its chain, and
\* its leaves hold the entries inserted and not deleted, each in one place
\* (IndexTree::insert, IndexTree::delete, IndexTree::update, split_node).
THEOREM IndexInvariant == Spec => []IndexInv
<1>1. Init => IndexInv
  BY InitSound
<1>2. IndexInv /\ [Next]_vars => IndexInv'
  <2> SUFFICES ASSUME IndexInv, [Next]_vars PROVE IndexInv'
    OBVIOUS
  <2>1. CASE Insert
    BY <2>1, InsertKeeps
  <2>2. CASE Delete
    BY <2>2, DeleteKeeps
  <2>3. CASE Update
    BY <2>3, UpdateKeeps
  <2>4. CASE UNCHANGED vars
    BY <2>4 DEF vars, IndexInv
  <2> QED
    BY <2>1, <2>2, <2>3, <2>4 DEF Next
<1> QED
  BY <1>1, <1>2, PTL DEF Spec

-----------------------------------------------------------------------------
(* What a lookup finds                                                     *)

\* The entries of Z from leaf p on.
From(ns, a, b, Z, p) ==
    {x \in Z : \E q \in Leaves(ns) : (q = p \/ b[p] < a[q]) /\ x \in Held(ns, q)}

\* Every leaf gives its entries of Z.
FoundIn(ns, found, Z) ==
    \A p \in Leaves(ns) : Lists(found[p], Held(ns, p) \cap Z, EntryOrder)

\* The walk ends when the leaves behind hold nothing of Z.
NothingBehind(ns, a, b, Z, Stop) ==
    \A p \in Leaves(ns) : p \in Stop =>
        \A q \in Leaves(ns) : b[p] < a[q] => \A x \in Held(ns, q) : x \notin Z

LEMMA FromStop ==
    ASSUME NEW ns, NEW a, NEW b, NEW Z, NEW Stop, NothingBehind(ns, a, b, Z, Stop),
           NEW p \in Leaves(ns), p \in Stop
    PROVE  From(ns, a, b, Z, p) = Held(ns, p) \cap Z
BY DEF From, NothingBehind

LEMMA FromNext ==
    ASSUME NEW ns, NEW r, NEW a, NEW b, NEW K, Laid(ns, r, a, b, K), NEW Z, NEW p \in Leaves(ns),
           NEW n, ns[p].next = n, n # NO_PAGE
    PROVE  /\ n \in Leaves(ns) /\ b[p] < a[n]
           /\ From(ns, a, b, Z, p) = (Held(ns, p) \cap Z) \cup From(ns, a, b, Z, n)
           /\ \A x \in From(ns, a, b, Z, n) : \E q \in Leaves(ns) : b[p] < a[q] /\ x \in Held(ns, q)
<1>1. /\ n \in Leaves(ns) /\ b[p] < a[n]
      /\ \A q \in Leaves(ns) : b[p] < a[q] => q = n \/ b[n] < a[q]
  BY LeafLinks
<1>2. \A q \in Leaves(ns) : b[n] < a[q] => b[p] < a[q]
  <2> SUFFICES ASSUME NEW q \in Leaves(ns), b[n] < a[q] PROVE b[p] < a[q]
    OBVIOUS
  <2>1. a[n] \in Int /\ b[n] \in Int /\ a[n] < b[n] /\ b[p] \in Int /\ a[q] \in Int
    BY <1>1, LeafPlace
  <2> QED
    BY <1>1, <2>1
<1>3. \A q \in Leaves(ns) : b[p] < a[q] <=> q = n \/ b[n] < a[q]
  BY <1>1, <1>2
<1>4. From(ns, a, b, Z, p) = (Held(ns, p) \cap Z) \cup From(ns, a, b, Z, n)
  BY <1>1, <1>3 DEF From
<1>5. \A x \in From(ns, a, b, Z, n) : \E q \in Leaves(ns) : b[p] < a[q] /\ x \in Held(ns, q)
  BY <1>3 DEF From
<1> QED
  BY <1>1, <1>4, <1>5

\* What is found further on follows what a leaf holds.
LEMMA FromFollows ==
    ASSUME NEW ns, NEW r, NEW a, NEW b, NEW K, Laid(ns, r, a, b, K), NEW E, Stored(ns, E), NEW Z,
           NEW p \in Leaves(ns), NEW n, ns[p].next = n, n # NO_PAGE
    PROVE  Before(Held(ns, p) \cap Z, From(ns, a, b, Z, n), EntryOrder)
<1> SUFFICES ASSUME NEW x \in Held(ns, p), NEW y \in From(ns, a, b, Z, n)
             PROVE  <<x, y>> \in EntryOrder
  BY DEF Before
<1>1. PICK q \in Leaves(ns) : b[p] < a[q] /\ y \in Held(ns, q)
  BY FromNext
<1>2. x.key <= y.key
  BY <1>1, LeavesInKeyOrder
<1>3. x \in EntrySet /\ y \in EntrySet
  BY <1>1, LeafKeys
<1>4. p # q
  BY <1>1, LeafPlace
<1>5. x # y
  BY <1>1, <1>4 DEF Stored
<1> QED
  BY <1>2, <1>3, <1>5, EntryOrderFacts

LEMMA GatheredFrom ==
    ASSUME NEW ns, NEW r, NEW a, NEW b, NEW K, Laid(ns, r, a, b, K), NEW E, Stored(ns, E), NEW Z,
           NEW Stop, EndsInTime(ns, Stop), NothingBehind(ns, a, b, Z, Stop),
           NEW found, FoundIn(ns, found, Z),
           NEW f, Gathers(f, Leaves(ns), Stop, found, Forwards(ns)), NEW s \in Leaves(ns)
    PROVE  Lists(f[s], From(ns, a, b, Z, s), EntryOrder)
<1> DEFINE P == [p \in Leaves(ns) |-> Held(ns, p) \cap Z]
           G == [p \in Leaves(ns) |-> From(ns, a, b, Z, p)]
<1>1. \A p \in Leaves(ns) : P[p] = Held(ns, p) \cap Z /\ G[p] = From(ns, a, b, Z, p)
  OBVIOUS
<1> HIDE DEF P, G
<1>2. \A p \in Leaves(ns) : Lists(found[p], P[p], EntryOrder)
  BY <1>1 DEF FoundIn
<1>3. \A p \in Leaves(ns) : p \in Stop => G[p] = P[p]
  BY <1>1, FromStop
<1>4. ASSUME NEW p \in Leaves(ns), p \notin Stop
      PROVE  /\ G[p] = P[p] \cup G[Forwards(ns)[p]]
             /\ Before(P[p], G[Forwards(ns)[p]], EntryOrder)
  <2>1. PICK n : ns[p].next = n
    OBVIOUS
  <2>2. n # NO_PAGE /\ Forwards(ns)[p] = n
    BY <1>4, <2>1 DEF EndsInTime, Forwards
  <2>3. n \in Leaves(ns) /\ From(ns, a, b, Z, p) = (Held(ns, p) \cap Z) \cup From(ns, a, b, Z, n)
    BY <2>1, <2>2, FromNext
  <2>4. Before(Held(ns, p) \cap Z, From(ns, a, b, Z, n), EntryOrder)
    BY <2>1, <2>2, FromFollows
  <2> QED
    BY <1>1, <2>2, <2>3, <2>4
<1>5. Collects(Leaves(ns), Stop, found, Forwards(ns), P, G, EntryOrder)
  BY <1>2, <1>3, <1>4 DEF Collects
<1>6. Falls(Leaves(ns), Stop, Forwards(ns), FromRight(ns, r, b), b[r] - a[r])
  BY ForwardsFalls
<1>7. \A p \in Leaves(ns) : Lists(f[p], G[p], EntryOrder)
  BY <1>5, <1>6, GatherLists
<1> QED
  BY <1>1, <1>7

LEMMA BelowFound ==
    ASSUME NEW s \in Seq(EntrySet), NEW key \in Int, NEW c, c = Below(s, key)
    PROVE  /\ c \in 0..Len(s) /\ \A j \in 1..c : s[j].key < key
           /\ c < Len(s) => key <= s[c + 1].key
<1> DEFINE I == {i \in 1..Len(s) : ~(s[i].key < key)}
           x == IF I # {} THEN Min(I) ELSE 0
<1>1. Len(s) \in Nat /\ \A i \in 1..Len(s) : s[i].key \in Int
  BY EntryTypes
<1>2. c = IF x = 0 THEN Len(s) ELSE x - 1
  BY DEF Below, partition_point, SelectInSeq
<1>3. I \in SUBSET (1..Len(s))
  OBVIOUS
<1>4. \A i \in I : i \in 1..Len(s) /\ key <= s[i].key
  BY <1>1
<1>5. \A i \in 1..Len(s) : i \notin I => s[i].key < key
  BY <1>1
<1> HIDE DEF I
<1>6. x = IF I # {} THEN Min(I) ELSE 0
  OBVIOUS
<1> HIDE DEF x
<1>7. /\ c \in 0..Len(s) /\ \A j \in 1..c : j \notin I
      /\ c < Len(s) => c + 1 \in I
  BY <1>1, <1>2, <1>3, <1>6, PartitionPoint
<1>8. \A j \in 1..c : j \in 1..Len(s)
  BY <1>1, <1>7
<1> QED
  BY <1>4, <1>5, <1>7, <1>8

\* The entries from there on are not below `key`.
LEMMA BelowSorted ==
    ASSUME NEW s \in Seq(EntrySet), NEW S, Lists(s, S, EntryOrder), NEW key \in Int,
           NEW c, c = Below(s, key)
    PROVE  /\ c \in 0..Len(s)
           /\ \A j \in 1..Len(s) : s[j].key < key <=> j <= c
<1>1. /\ Len(s) \in Nat /\ \A i \in 1..Len(s) : s[i].key \in Int
      /\ \A i, j \in 1..Len(s) : i < j => s[i].key <= s[j].key
  BY EntriesSorted
<1>2. /\ c \in 0..Len(s) /\ \A j \in 1..c : s[j].key < key
      /\ c < Len(s) => key <= s[c + 1].key
  BY BelowFound
<1>3. ASSUME NEW j \in 1..Len(s), ~(j <= c)
      PROVE  key <= s[j].key
  <2>1. c < Len(s) /\ c + 1 \in 1..Len(s) /\ (j = c + 1 \/ c + 1 < j)
    BY <1>1, <1>2, <1>3
  <2>2. key <= s[c + 1].key /\ s[c + 1].key \in Int /\ s[j].key \in Int
    BY <1>1, <1>2, <2>1
  <2>3. s[c + 1].key <= s[j].key
    BY <1>1, <2>1, <2>2
  <2> QED
    BY <2>2, <2>3
<1>4. ASSUME NEW j \in 1..Len(s)
      PROVE  s[j].key < key <=> j <= c
  <2>1. CASE j <= c
    <3>1. j \in 1..c
      BY <1>1, <1>2, <2>1
    <3> QED
      BY <1>2, <2>1, <3>1
  <2>2. CASE ~(j <= c)
    <3>1. key <= s[j].key /\ s[j].key \in Int
      BY <1>1, <1>3, <2>2
    <3> QED
      BY <2>2, <3>1
  <2> QED
    BY <2>1, <2>2
<1> QED
  BY <1>2, <1>4

\* Where a run of d entries behind the first c of w lies.
LEMMA RunTypes ==
    \A w \in Nat : \A c \in 0..w : \A d \in 0..w - c : c \in Nat /\ d \in Nat /\ c + d <= w
OBVIOUS

LEMMA RunOffset ==
    \A c, d, w \in Nat : d <= w =>
        \A j \in c + 1..c + d : j - c \in 1..d /\ j - c \in 1..w /\ c + (j - c) = j
OBVIOUS

LEMMA RunEnds ==
    \A c, d, w \in Nat : c + d <= w =>
        /\ c + 1 \in 1..w + 1 /\ c + d \in (c + 1) - 1..w
        /\ \A j \in c + 1..c + d : j \in 1..w
        /\ c + d < w => c + d + 1 \in 1..w /\ ~(c + d + 1 <= c)
OBVIOUS

LEMMA RunSides ==
    \A c, d, w \in Nat : c + d <= w => \A j \in 1..w :
        /\ j <= c \/ j \in c + 1..c + d \/ c + d < j
        /\ j <= c => j \notin c + 1..c + d
        /\ c + d < j => j \notin c + 1..c + d /\ c + d < w /\ (j = c + d + 1 \/ c + d + 1 < j)
OBVIOUS

LEMMA EqualRunFound ==
    ASSUME NEW s \in Seq(EntrySet), NEW key \in Int, NEW c \in 0..Len(s), c = Below(s, key),
           NEW d, d = EqualRun(s, key)
    PROVE  /\ d \in 0..Len(s) - c /\ \A j \in c + 1..c + d : s[j].key = key
           /\ c + d < Len(s) => s[c + d + 1].key # key
<1>1. PICK u : u = SubSeq(s, c + 1, Len(s))
  OBVIOUS
<1>2. Len(s) \in Nat
  OBVIOUS
<1>3. /\ Len(u) = Len(s) - c /\ \A k \in 1..Len(s) - c : u[k] = s[c + k]
  <2>1. c + 1 \in 1..Len(s) + 1 /\ Len(s) \in (c + 1) - 1..Len(s)
    BY <1>2
  <2>2. /\ Len(SubSeq(s, c + 1, Len(s))) = Len(s) - (c + 1) + 1
        /\ \A k \in 1..Len(s) - (c + 1) + 1 : SubSeq(s, c + 1, Len(s))[k] = s[c + 1 + k - 1]
    BY <2>1, SubFacts
  <2>3. Len(s) - (c + 1) + 1 = Len(s) - c /\ \A k \in 1..Len(s) - c : c + 1 + k - 1 = c + k
    BY <1>2
  <2> QED
    BY <1>1, <2>2, <2>3
<1> DEFINE I == {i \in 1..Len(u) : ~(u[i].key = key)}
           x == IF I # {} THEN Min(I) ELSE 0
<1>4. d = IF x = 0 THEN Len(u) ELSE x - 1
  BY <1>1 DEF EqualRun, partition_point, SelectInSeq
<1>5. I \in SUBSET (1..Len(u)) /\ Len(u) \in Nat
  BY <1>2, <1>3
<1>6. \A i \in I : i \in 1..Len(u) /\ u[i].key # key
  OBVIOUS
<1>7. \A i \in 1..Len(u) : i \notin I => u[i].key = key
  OBVIOUS
<1> HIDE DEF I
<1>8. x = IF I # {} THEN Min(I) ELSE 0
  OBVIOUS
<1> HIDE DEF x
<1>9. /\ d \in 0..Len(u) /\ \A j \in 1..d : j \notin I
      /\ d < Len(u) => d + 1 \in I
  BY <1>4, <1>5, <1>8, PartitionPoint
<1>10. ASSUME NEW j \in c + 1..c + d
       PROVE  s[j].key = key
  <2>1. j - c \in 1..d /\ j - c \in 1..Len(u) /\ j - c \in 1..Len(s) - c /\ c + (j - c) = j
    <3>1. c \in Nat /\ d \in Nat /\ Len(u) \in Nat /\ d <= Len(u) /\ Len(u) = Len(s) - c
      BY <1>2, <1>3, <1>5, <1>9
    <3> QED
      BY <3>1, RunOffset, Zenon
  <2> QED
    BY <1>3, <1>7, <1>9, <2>1
<1>11. ASSUME c + d < Len(s)
       PROVE  s[c + d + 1].key # key
  <2>1. d < Len(u) /\ d + 1 \in 1..Len(s) - c /\ c + (d + 1) = c + d + 1
    BY <1>2, <1>3, <1>9, <1>11
  <2>2. u[d + 1].key # key
    BY <1>6, <1>9, <2>1, Zenon
  <2>3. u[d + 1] = s[c + d + 1]
    <3>1. u[d + 1] = s[c + (d + 1)]
      BY <1>3, <2>1, Zenon
    <3> QED
      BY <2>1, <3>1, Zenon
  <2> QED
    BY <2>2, <2>3, Zenon
<1> QED
  BY <1>3, <1>9, <1>10, <1>11

WithKey(key) == {x \in EntrySet : x.key = key}
KeyBelow(key) == {x \in EntrySet : x.key < key}

\* The entries of a leaf with the key.
LEMMA EqualEntries ==
    ASSUME NEW s \in Seq(EntrySet), NEW S, Lists(s, S, EntryOrder), NEW key \in Int,
           NEW c, c = Below(s, key), NEW d, d = EqualRun(s, key)
    PROVE  /\ Lists(SubSeq(s, c + 1, c + d), S \cap WithKey(key), EntryOrder)
           /\ c + d < Len(s) => s[c + d + 1].key > key
           /\ c \in Nat /\ d \in Nat /\ c + d <= Len(s)
<1>1. /\ Len(s) \in Nat /\ \A i \in 1..Len(s) : s[i] \in S /\ s[i] \in EntrySet /\ s[i].key \in Int
      /\ \A x \in S : \E i \in 1..Len(s) : s[i] = x
      /\ \A i, j \in 1..Len(s) : i < j => s[i].key <= s[j].key
  BY EntriesSorted
<1>2. /\ c \in 0..Len(s) /\ \A j \in 1..Len(s) : s[j].key < key <=> j <= c
  BY BelowSorted
<1>3. /\ d \in 0..Len(s) - c /\ \A j \in c + 1..c + d : s[j].key = key
      /\ c + d < Len(s) => s[c + d + 1].key # key
  BY <1>2, EqualRunFound
<1>4. c \in Nat /\ d \in Nat /\ c + d <= Len(s)
  BY <1>1, <1>2, <1>3, RunTypes, Zenon
<1>5. c + d < Len(s) => s[c + d + 1].key > key
  <2> SUFFICES ASSUME c + d < Len(s) PROVE s[c + d + 1].key > key
    OBVIOUS
  <2>1. c + d + 1 \in 1..Len(s) /\ ~(c + d + 1 <= c)
    BY <1>1, <1>4, RunEnds, Zenon
  <2>2. ~(s[c + d + 1].key < key) /\ s[c + d + 1].key \in Int /\ s[c + d + 1].key # key
    BY <1>1, <1>2, <1>3, <2>1
  <2> QED
    BY <2>2
<1>6. \A j \in 1..Len(s) : s[j].key = key <=> j \in c + 1..c + d
  <2> SUFFICES ASSUME NEW j \in 1..Len(s) PROVE s[j].key = key <=> j \in c + 1..c + d
    OBVIOUS
  <2>1. CASE j <= c
    <3>1. s[j].key < key /\ s[j].key \in Int
      BY <1>1, <1>2, <2>1, Zenon
    <3>2. s[j].key # key
      BY <3>1
    <3> QED
      BY <1>1, <1>4, <2>1, <3>2, RunSides, Zenon
  <2>2. CASE j \in c + 1..c + d
    BY <1>3, <2>2, Zenon
  <2>3. CASE c + d < j
    <3>1. c + d < Len(s) /\ c + d + 1 \in 1..Len(s) /\ (j = c + d + 1 \/ c + d + 1 < j)
      <4>1. c + d < Len(s) /\ (j = c + d + 1 \/ c + d + 1 < j)
        BY <1>1, <1>4, <2>3, RunSides, Zenon
      <4>2. c + d + 1 \in 1..Len(s)
        BY <1>1, <1>4, <4>1, RunEnds, Zenon
      <4> QED
        BY <4>1, <4>2
    <3>2. s[c + d + 1].key > key /\ s[c + d + 1].key \in Int /\ s[j].key \in Int
      BY <1>1, <1>5, <3>1
    <3>3. s[c + d + 1].key <= s[j].key
      BY <1>1, <3>1, <3>2
    <3>4. s[j].key # key
      BY <3>2, <3>3
    <3>5. j \notin c + 1..c + d
      BY <1>1, <1>4, <2>3, RunSides, Zenon
    <3> QED
      BY <3>4, <3>5
  <2> QED
    BY <1>1, <1>4, <2>1, <2>2, <2>3, RunSides, Zenon
<1>7. \A j \in c + 1..c + d : j \in 1..Len(s)
  BY <1>1, <1>4, RunEnds, Zenon
<1>8. Slice(s, c + 1, c + d) = S \cap WithKey(key)
  BY <1>1, <1>6, <1>7 DEF Slice, WithKey
<1>9. PICK i, j : i = c + 1 /\ j = c + d
  OBVIOUS
<1>10. i \in 1..Len(s) + 1 /\ j \in i - 1..Len(s)
  BY <1>1, <1>9, <1>4, RunEnds, Zenon
<1>11. Lists(SubSeq(s, i, j), Slice(s, i, j), EntryOrder)
  BY <1>10, ListsSub
<1>12. Lists(SubSeq(s, c + 1, c + d), S \cap WithKey(key), EntryOrder)
  BY <1>8, <1>9, <1>11
<1> QED
  BY <1>5, <1>12, <1>4

\* The entries of a leaf below the key.
LEMMA BelowEntries ==
    ASSUME NEW s \in Seq(EntrySet), NEW S, Lists(s, S, EntryOrder), NEW key \in Int,
           NEW c, c = Below(s, key)
    PROVE  Lists(SubSeq(s, 1, c), S \cap KeyBelow(key), EntryOrder)
<1>1. /\ Len(s) \in Nat /\ \A i \in 1..Len(s) : s[i] \in S /\ s[i] \in EntrySet
      /\ \A x \in S : \E i \in 1..Len(s) : s[i] = x
  BY EntriesSorted
<1>2. /\ c \in 0..Len(s) /\ \A j \in 1..Len(s) : s[j].key < key <=> j <= c
  BY BelowSorted
<1>3. \A j \in 1..c : j \in 1..Len(s) /\ j <= c
  BY <1>1, <1>2
<1>4. \A j \in 1..Len(s) : j <= c => j \in 1..c
  BY <1>2
<1>5. Slice(s, 1, c) = S \cap KeyBelow(key)
  BY <1>1, <1>2, <1>3, <1>4 DEF Slice, KeyBelow
<1>6. 1 \in 1..Len(s) + 1 /\ c \in 1 - 1..Len(s)
  BY <1>1, <1>2
<1>7. Lists(SubSeq(s, 1, c), Slice(s, 1, c), EntryOrder)
  BY <1>6, ListsSub
<1> QED
  BY <1>5, <1>7

SearchStops(ns, key) ==
    {p \in Leaves(ns) :
        \/ Below(ns[p].entries, key) + EqualRun(ns[p].entries, key) < Len(ns[p].entries)
        \/ ns[p].next = NO_PAGE}

SearchFinds(ns, key) ==
    [p \in Leaves(ns) |-> SubSeq(ns[p].entries, Below(ns[p].entries, key) + 1,
                                 Below(ns[p].entries, key) + EqualRun(ns[p].entries, key))]

LEMMA SearchGathers ==
    ASSUME NEW a, NEW b, NEW K, Laid(nodes, root, a, b, K), Leaves(nodes) # {}, NEW key
    PROVE  \E f : /\ Gathers(f, Leaves(nodes), SearchStops(nodes, key), SearchFinds(nodes, key),
                             Forwards(nodes))
                  /\ search(key) = f[find_search_start_page(nodes, root, key)]
<1> DEFINE Body(f, p) ==
               LET entries == nodes[p].entries
                   start   == Below(entries, key)
                   end     == start + EqualRun(entries, key)
                   found   == SubSeq(entries, start + 1, end)
               IN IF end < Len(entries) \/ nodes[p].next = NO_PAGE
                  THEN found ELSE found \o f[nodes[p].next]
           F == CHOOSE f : f = [p \in Leaves(nodes) |-> Body(f, p)]
<1>1. search(key) = F[find_search_start_page(nodes, root, key)]
  BY Zenon DEF search
<1>2. ASSUME NEW f
      PROVE  Gathers(f, Leaves(nodes), SearchStops(nodes, key), SearchFinds(nodes, key),
                     Forwards(nodes))
                 <=> f = [p \in Leaves(nodes) |-> Body(f, p)]
  <2>1. ASSUME NEW p \in Leaves(nodes)
        PROVE  GatherStep(f, SearchStops(nodes, key), SearchFinds(nodes, key), Forwards(nodes), p)
                 = Body(f, p)
    <3>1. SearchFinds(nodes, key)[p]
            = SubSeq(nodes[p].entries, Below(nodes[p].entries, key) + 1,
                     Below(nodes[p].entries, key) + EqualRun(nodes[p].entries, key))
      BY DEF SearchFinds
    <3>2. Forwards(nodes)[p] = nodes[p].next
      BY DEF Forwards
    <3>3. p \in SearchStops(nodes, key) <=>
             \/ Below(nodes[p].entries, key) + EqualRun(nodes[p].entries, key) < Len(nodes[p].entries)
             \/ nodes[p].next = NO_PAGE
      BY DEF SearchStops
    <3> QED
      BY <3>1, <3>2, <3>3 DEF GatherStep
  <2>2. [p \in Leaves(nodes) |->
            GatherStep(f, SearchStops(nodes, key), SearchFinds(nodes, key), Forwards(nodes), p)]
          = [p \in Leaves(nodes) |-> Body(f, p)]
    <3> HIDE DEF Body
    <3> QED
      BY <2>1
  <2> QED
    BY <2>2 DEF Gathers
<1>3. \E f : Gathers(f, Leaves(nodes), SearchStops(nodes, key), SearchFinds(nodes, key),
                     Forwards(nodes))
  <2>1. EndsInTime(nodes, SearchStops(nodes, key))
    BY DEF EndsInTime, SearchStops
  <2>2. Falls(Leaves(nodes), SearchStops(nodes, key), Forwards(nodes), FromRight(nodes, root, b),
              b[root] - a[root])
    BY <2>1, ForwardsFalls
  <2> QED
    BY <2>2, GatherDefined
<1>4. F = [p \in Leaves(nodes) |-> Body(F, p)]
  <2> HIDE DEF Body
  <2> QED
    BY <1>2, <1>3
<1> HIDE DEF F
<1>5. Gathers(F, Leaves(nodes), SearchStops(nodes, key), SearchFinds(nodes, key), Forwards(nodes))
  BY <1>2, <1>4
<1> QED
  BY <1>1, <1>5

LEMMA SearchSteps ==
    ASSUME NEW ns, NEW r, NEW a, NEW b, NEW K, Laid(ns, r, a, b, K), NEW E, Stored(ns, E),
           NEW key \in Int
    PROVE  /\ FoundIn(ns, SearchFinds(ns, key), WithKey(key))
           /\ NothingBehind(ns, a, b, WithKey(key), SearchStops(ns, key))
           /\ EndsInTime(ns, SearchStops(ns, key))
<1>1. EndsInTime(ns, SearchStops(ns, key))
  BY DEF EndsInTime, SearchStops
<1>2. ASSUME NEW p \in Leaves(ns)
      PROVE  /\ Lists(SearchFinds(ns, key)[p], Held(ns, p) \cap WithKey(key), EntryOrder)
             /\ p \in SearchStops(ns, key) => \A q \in Leaves(ns) : b[p] < a[q] =>
                   \A x \in Held(ns, q) : x \notin WithKey(key)
  <2>1. PICK s : s = ns[p].entries
    OBVIOUS
  <2>2. s \in Seq(EntrySet) /\ Lists(s, Held(ns, p), EntryOrder)
    BY <2>1, LeafKeys DEF Stored
  <2>3. PICK c : c = Below(s, key)
    OBVIOUS
  <2>4. PICK d : d = EqualRun(s, key)
    OBVIOUS
  <2>5. /\ Lists(SubSeq(s, c + 1, c + d), Held(ns, p) \cap WithKey(key), EntryOrder)
        /\ c + d < Len(s) => s[c + d + 1].key > key
        /\ c \in Nat /\ d \in Nat /\ c + d <= Len(s)
    BY <2>2, <2>3, <2>4, EqualEntries
  <2>6. SearchFinds(ns, key)[p] = SubSeq(s, c + 1, c + d)
    BY <2>1, <2>3, <2>4 DEF SearchFinds
  <2>7. ASSUME p \in SearchStops(ns, key), NEW q \in Leaves(ns), b[p] < a[q], NEW x \in Held(ns, q)
        PROVE  x.key # key
    <3>1. c + d < Len(s) \/ ns[p].next = NO_PAGE
      BY <2>1, <2>3, <2>4, <2>7 DEF SearchStops
    <3>2. ns[p].next # NO_PAGE
      BY <2>7, LeafLinks
    <3>3. c + d < Len(s)
      BY <3>1, <3>2
    <3>4. c + d + 1 \in 1..Len(s)
      BY <2>2, <2>5, <3>3
    <3>5. s[c + d + 1] \in Held(ns, p) /\ s[c + d + 1].key \in Int /\ x.key \in Int
      BY <2>1, <3>4, LeafKeys
    <3>6. s[c + d + 1].key <= x.key
      BY <2>7, <3>5, LeavesInKeyOrder
    <3> QED
      BY <2>5, <3>3, <3>5, <3>6
  <2> QED
    BY <2>5, <2>6, <2>7 DEF WithKey
<1>3. FoundIn(ns, SearchFinds(ns, key), WithKey(key))
  BY <1>2 DEF FoundIn
<1>4. NothingBehind(ns, a, b, WithKey(key), SearchStops(ns, key))
  BY <1>2 DEF NothingBehind
<1> QED
  BY <1>1, <1>3, <1>4

\* Nothing of Z stands before the leaf s.
LEMMA FromStart ==
    ASSUME NEW ns, NEW r, NEW a, NEW b, NEW K, Laid(ns, r, a, b, K), NEW E, Stored(ns, E),
           NEW key \in Int, NEW s \in Leaves(ns), Passed(ns, a, b, key, s),
           NEW Z, \A x \in Z : x \in EntrySet /\ ~(x.key < key)
    PROVE  From(ns, a, b, Z, s) = E \cap Z
<1>1. ASSUME NEW q \in Leaves(ns), NEW x \in Held(ns, q), x \in Z
      PROVE  q = s \/ b[s] < a[q]
  <2>1. ~(b[q] < a[s])
    BY <1>1 DEF Passed
  <2> QED
    BY <2>1, LeavesApart DEF Laid
<1>2. \A x : x \in E <=> \E q \in Leaves(ns) : x \in Held(ns, q)
  BY DEF Stored
<1> QED
  BY <1>1, <1>2 DEF From

LEMMA SearchListed ==
    ASSUME NEW E, Sound(nodes, root, E), NEW key \in Int
    PROVE  Lists(search(key), E \cap WithKey(key), EntryOrder)
<1>1. Typed(nodes) /\ Placed(nodes, root) /\ Stored(nodes, E)
  BY DEF Sound
<1>2. PICK a, b, K : TreeShape(nodes, root, a, b, K) /\ Chained(nodes, a, b)
  BY <1>1 DEF Placed
<1>3. Laid(nodes, root, a, b, K)
  BY <1>1, <1>2 DEF Laid
<1>4. PICK s : s = find_search_start_page(nodes, root, key)
  OBVIOUS
<1>5. s \in Leaves(nodes) /\ Passed(nodes, a, b, key, s)
  BY <1>3, <1>4, StartFound
<1>6. PICK f : /\ Gathers(f, Leaves(nodes), SearchStops(nodes, key), SearchFinds(nodes, key),
                          Forwards(nodes))
               /\ search(key) = f[s]
  BY <1>3, <1>4, <1>5, SearchGathers
<1>7. /\ FoundIn(nodes, SearchFinds(nodes, key), WithKey(key))
      /\ NothingBehind(nodes, a, b, WithKey(key), SearchStops(nodes, key))
      /\ EndsInTime(nodes, SearchStops(nodes, key))
  BY <1>1, <1>3, SearchSteps
<1>8. Lists(f[s], From(nodes, a, b, WithKey(key), s), EntryOrder)
  BY <1>1, <1>3, <1>5, <1>6, <1>7, GatheredFrom
<1>9. \A x \in WithKey(key) : x \in EntrySet /\ ~(x.key < key)
  BY DEF WithKey
<1>10. From(nodes, a, b, WithKey(key), s) = E \cap WithKey(key)
  BY <1>1, <1>3, <1>5, <1>9, FromStart
<1> QED
  BY <1>6, <1>8, <1>10

RangeStops(ns, end) ==
    {p \in Leaves(ns) : Below(ns[p].entries, end) < Len(ns[p].entries) \/ ns[p].next = NO_PAGE}

RangeFinds(ns, end) ==
    [p \in Leaves(ns) |-> SubSeq(ns[p].entries, 1, Below(ns[p].entries, end))]

LEMMA RangeGathers ==
    ASSUME NEW a, NEW b, NEW K, Laid(nodes, root, a, b, K), Leaves(nodes) # {}, NEW first, NEW end,
           NEW s, s = find_search_start_page(nodes, root, first)
    PROVE  \E f : /\ Gathers(f, Leaves(nodes), RangeStops(nodes, end), RangeFinds(nodes, end),
                             Forwards(nodes))
                  /\ range_scan(first, end)
                       = SubSeq(f[s], Below(nodes[s].entries, first) + 1, Len(f[s]))
<1> DEFINE Body(f, p) ==
               LET entries == nodes[p].entries
                   inside  == Below(entries, end)
                   found   == SubSeq(entries, 1, inside)
               IN IF inside < Len(entries) \/ nodes[p].next = NO_PAGE
                  THEN found ELSE found \o f[nodes[p].next]
           F == CHOOSE f : f = [p \in Leaves(nodes) |-> Body(f, p)]
<1>1. range_scan(first, end)
        = LET start == find_search_start_page(nodes, root, first)
          IN SubSeq(F[start], Below(nodes[start].entries, first) + 1, Len(F[start]))
  BY Zenon DEF range_scan
<1>2. ASSUME NEW f
      PROVE  Gathers(f, Leaves(nodes), RangeStops(nodes, end), RangeFinds(nodes, end),
                     Forwards(nodes))
                 <=> f = [p \in Leaves(nodes) |-> Body(f, p)]
  <2>1. ASSUME NEW p \in Leaves(nodes)
        PROVE  GatherStep(f, RangeStops(nodes, end), RangeFinds(nodes, end), Forwards(nodes), p)
                 = Body(f, p)
    <3>1. RangeFinds(nodes, end)[p] = SubSeq(nodes[p].entries, 1, Below(nodes[p].entries, end))
      BY DEF RangeFinds
    <3>2. Forwards(nodes)[p] = nodes[p].next
      BY DEF Forwards
    <3>3. p \in RangeStops(nodes, end) <=>
             \/ Below(nodes[p].entries, end) < Len(nodes[p].entries)
             \/ nodes[p].next = NO_PAGE
      BY DEF RangeStops
    <3> QED
      BY <3>1, <3>2, <3>3 DEF GatherStep
  <2>2. [p \in Leaves(nodes) |->
            GatherStep(f, RangeStops(nodes, end), RangeFinds(nodes, end), Forwards(nodes), p)]
          = [p \in Leaves(nodes) |-> Body(f, p)]
    <3> HIDE DEF Body
    <3> QED
      BY <2>1
  <2> QED
    BY <2>2 DEF Gathers
<1>3. \E f : Gathers(f, Leaves(nodes), RangeStops(nodes, end), RangeFinds(nodes, end),
                     Forwards(nodes))
  <2>1. EndsInTime(nodes, RangeStops(nodes, end))
    BY DEF EndsInTime, RangeStops
  <2>2. Falls(Leaves(nodes), RangeStops(nodes, end), Forwards(nodes), FromRight(nodes, root, b),
              b[root] - a[root])
    BY <2>1, ForwardsFalls
  <2> QED
    BY <2>2, GatherDefined
<1>4. F = [p \in Leaves(nodes) |-> Body(F, p)]
  <2> HIDE DEF Body
  <2> QED
    BY <1>2, <1>3
<1> HIDE DEF F
<1>5. Gathers(F, Leaves(nodes), RangeStops(nodes, end), RangeFinds(nodes, end), Forwards(nodes))
  BY <1>2, <1>4
<1> QED
  BY <1>1, <1>5

LEMMA RangeSteps ==
    ASSUME NEW ns, NEW r, NEW a, NEW b, NEW K, Laid(ns, r, a, b, K), NEW E, Stored(ns, E),
           NEW end \in Int
    PROVE  /\ FoundIn(ns, RangeFinds(ns, end), KeyBelow(end))
           /\ NothingBehind(ns, a, b, KeyBelow(end), RangeStops(ns, end))
           /\ EndsInTime(ns, RangeStops(ns, end))
<1>1. EndsInTime(ns, RangeStops(ns, end))
  BY DEF EndsInTime, RangeStops
<1>2. ASSUME NEW p \in Leaves(ns)
      PROVE  /\ Lists(RangeFinds(ns, end)[p], Held(ns, p) \cap KeyBelow(end), EntryOrder)
             /\ p \in RangeStops(ns, end) => \A q \in Leaves(ns) : b[p] < a[q] =>
                   \A x \in Held(ns, q) : x \notin KeyBelow(end)
  <2>1. PICK s : s = ns[p].entries
    OBVIOUS
  <2>2. s \in Seq(EntrySet) /\ Lists(s, Held(ns, p), EntryOrder)
    BY <2>1, LeafKeys DEF Stored
  <2>3. PICK c : c = Below(s, end)
    OBVIOUS
  <2>4. Lists(SubSeq(s, 1, c), Held(ns, p) \cap KeyBelow(end), EntryOrder)
    BY <2>2, <2>3, BelowEntries
  <2>5. c \in 0..Len(s) /\ (c < Len(s) => end <= s[c + 1].key)
    BY <2>2, <2>3, BelowFound
  <2>6. RangeFinds(ns, end)[p] = SubSeq(s, 1, c)
    BY <2>1, <2>3 DEF RangeFinds
  <2>7. ASSUME p \in RangeStops(ns, end), NEW q \in Leaves(ns), b[p] < a[q], NEW x \in Held(ns, q)
        PROVE  ~(x.key < end)
    <3>1. c < Len(s) \/ ns[p].next = NO_PAGE
      BY <2>1, <2>3, <2>7 DEF RangeStops
    <3>2. ns[p].next # NO_PAGE
      BY <2>7, LeafLinks
    <3>3. c < Len(s)
      BY <3>1, <3>2
    <3>4. c + 1 \in 1..Len(s)
      BY <2>2, <2>5, <3>3
    <3>5. s[c + 1] \in Held(ns, p) /\ s[c + 1].key \in Int /\ x.key \in Int
      BY <2>1, <3>4, LeafKeys
    <3>6. s[c + 1].key <= x.key
      BY <2>7, <3>5, LeavesInKeyOrder
    <3> QED
      BY <2>5, <3>3, <3>5, <3>6
  <2> QED
    BY <2>4, <2>6, <2>7 DEF KeyBelow
<1>3. FoundIn(ns, RangeFinds(ns, end), KeyBelow(end))
  BY <1>2 DEF FoundIn
<1>4. NothingBehind(ns, a, b, KeyBelow(end), RangeStops(ns, end))
  BY <1>2 DEF NothingBehind
<1> QED
  BY <1>1, <1>3, <1>4

\* The first c entries of s, and no others, are below the key.
Opens(s, c, key) == c \in Nat /\ \A k \in 1..Len(s) : s[k].key < key <=> k <= c

LEMMA OpeningDropped ==
    ASSUME NEW s \in Seq(EntrySet), NEW S, Lists(s, S, EntryOrder), NEW key \in Int,
           NEW c, Opens(s, c, key), NEW u, u = SubSeq(s, c + 1, Len(s))
    PROVE  Lists(u, {x \in S : ~(x.key < key)}, EntryOrder)
<1>1. /\ Len(s) \in Nat /\ \A i \in 1..Len(s) : s[i] \in S
      /\ \A x \in S : \E i \in 1..Len(s) : s[i] = x
  BY EntriesSorted
<1>2. c \in Nat /\ \A k \in 1..Len(s) : s[k].key < key <=> k <= c
  BY DEF Opens
<1>3. CASE c <= Len(s)
  <2>1. PICK i : i = c + 1
    OBVIOUS
  <2>2. i \in 1..Len(s) + 1 /\ Len(s) \in i - 1..Len(s)
    BY <1>1, <1>2, <1>3, <2>1
  <2>3. Lists(SubSeq(s, i, Len(s)), Slice(s, i, Len(s)), EntryOrder)
    BY <2>2, ListsSub
  <2>4. \A k \in 1..Len(s) : k \in i..Len(s) <=> ~(k <= c)
    BY <1>1, <1>2, <2>1
  <2>5. \A k \in i..Len(s) : k \in 1..Len(s)
    BY <1>1, <1>2, <2>1
  <2>6. Slice(s, i, Len(s)) = {x \in S : ~(x.key < key)}
    BY <1>1, <1>2, <2>4, <2>5 DEF Slice
  <2> QED
    BY <2>1, <2>3, <2>6
<1>4. CASE ~(c <= Len(s))
  <2>1. u = <<>>
    <3>1. c + 1 > Len(s) /\ c + 1 \in Int
      BY <1>1, <1>2, <1>4
    <3> QED
      BY <1>1, <3>1
  <2>2. \A k \in 1..Len(s) : k <= c
    BY <1>1, <1>2, <1>4
  <2>3. {x \in S : ~(x.key < key)} = {}
    BY <1>1, <1>2, <2>2
  <2> QED
    BY <2>1, <2>3, ListsNone
<1> QED
  BY <1>3, <1>4

LEMMA ListsTyped ==
    ASSUME NEW s, NEW S, NEW R, Lists(s, S, R), \A x \in S : x \in EntrySet
    PROVE  s \in Seq(EntrySet)
<1>1. s \in Seq(S) /\ Len(s) \in Nat
  BY ListsFields
<1>2. s \in [1..Len(s) -> S]
  BY <1>1
<1>3. s \in [1..Len(s) -> EntrySet]
  BY <1>2
<1> QED
  BY <1>1, <1>3

\* Only the leaf where the scan starts holds entries below its first key.
LEMMA RangeOpens ==
    ASSUME NEW ns, NEW r, NEW a, NEW b, NEW K, Laid(ns, r, a, b, K), NEW E, Stored(ns, E),
           NEW first \in Int, NEW end \in Int, NEW s \in Leaves(ns),
           Ahead(DOMAIN ns, a, b, K, first, s),
           NEW f, Gathers(f, Leaves(ns), RangeStops(ns, end), RangeFinds(ns, end), Forwards(ns)),
           NEW c, c = Below(ns[s].entries, first)
    PROVE  Opens(f[s], c, first)
<1>1. PICK e : e = ns[s].entries
  OBVIOUS
<1>2. e \in Seq(EntrySet) /\ Lists(e, Held(ns, s), EntryOrder) /\ Len(e) \in Nat
  BY <1>1, LeafKeys DEF Stored
<1>3. c \in 0..Len(e) /\ \A j \in 1..Len(e) : e[j].key < first <=> j <= c
  BY <1>1, <1>2, BelowSorted
<1>4. PICK i : i = Below(e, end)
  OBVIOUS
<1>5. i \in 0..Len(e)
  BY <1>2, <1>4, BelowFound
<1>6. PICK u : u = SubSeq(e, 1, i)
  OBVIOUS
<1>7. u \in Seq(EntrySet) /\ Len(u) = i /\ \A k \in 1..i : u[k] = e[k]
  <2>1. 1 \in 1..Len(e) + 1 /\ i \in 1 - 1..Len(e)
    BY <1>2, <1>5
  <2>2. /\ SubSeq(e, 1, i) \in Seq(EntrySet) /\ Len(SubSeq(e, 1, i)) = i - 1 + 1
        /\ \A k \in 1..i - 1 + 1 : SubSeq(e, 1, i)[k] = e[1 + k - 1]
    BY <1>2, <2>1, SubFacts
  <2>3. i - 1 + 1 = i /\ \A k \in 1..i : 1 + k - 1 = k
    BY <1>5
  <2> QED
    BY <1>6, <2>2, <2>3
<1>8. RangeFinds(ns, end)[s] = u
  BY <1>1, <1>4, <1>6 DEF RangeFinds
<1>9. f[s] = GatherStep(f, RangeStops(ns, end), RangeFinds(ns, end), Forwards(ns), s)
  BY DEF Gathers
<1>10. \A k \in 1..i : u[k].key < first <=> k <= c
  <2>1. \A k \in 1..i : k \in 1..Len(e)
    BY <1>2, <1>5
  <2> QED
    BY <1>3, <1>7, <2>1
<1>11. c \in Nat
  BY <1>2, <1>3
<1>12. CASE s \in RangeStops(ns, end)
  <2>1. f[s] = u
    BY <1>8, <1>9, <1>12 DEF GatherStep
  <2> QED
    BY <1>7, <1>10, <1>11, <2>1 DEF Opens
<1>13. CASE s \notin RangeStops(ns, end)
  <2>1. PICK n : ns[s].next = n
    OBVIOUS
  <2>2. n # NO_PAGE /\ ~(i < Len(e)) /\ Forwards(ns)[s] = n
    BY <1>1, <1>4, <1>13, <2>1 DEF RangeStops, Forwards
  <2>3. PICK w : w = f[n]
    OBVIOUS
  <2>4. f[s] = u \o w
    BY <1>8, <1>9, <1>13, <2>2, <2>3 DEF GatherStep
  <2>5. i = Len(e)
    BY <1>2, <1>5, <2>2
  <2>6. /\ n \in Leaves(ns)
        /\ \A x \in From(ns, a, b, KeyBelow(end), n) :
              \E q \in Leaves(ns) : b[s] < a[q] /\ x \in Held(ns, q)
    BY <2>1, <2>2, FromNext
  <2>7. /\ FoundIn(ns, RangeFinds(ns, end), KeyBelow(end))
        /\ NothingBehind(ns, a, b, KeyBelow(end), RangeStops(ns, end))
        /\ EndsInTime(ns, RangeStops(ns, end))
    BY RangeSteps
  <2>8. Lists(w, From(ns, a, b, KeyBelow(end), n), EntryOrder)
    BY <2>3, <2>6, <2>7, GatheredFrom
  <2>9. ASSUME NEW x \in From(ns, a, b, KeyBelow(end), n)
        PROVE  x \in EntrySet /\ ~(x.key < first)
    <3>1. PICK q \in Leaves(ns) : b[s] < a[q] /\ x \in Held(ns, q)
      BY <2>6
    <3>2. x \in EntrySet /\ x.key \in Int /\ q \in DOMAIN ns
      BY <3>1, LeafKeys, LeafPlace
    <3>3. x.key \in K[q]
      BY <3>1, HeldKeys DEF KeysOf, Laid
    <3>4. first <= x.key
      BY <3>1, <3>2, <3>3 DEF Ahead
    <3> QED
      BY <3>2, <3>4
  <2>10. w \in Seq(EntrySet) /\ Len(w) \in Nat
         /\ \A k \in 1..Len(w) : w[k] \in From(ns, a, b, KeyBelow(end), n)
    BY <2>8, <2>9, ListsTyped, ListsFields
  <2>11. PICK T : T = u \o w
    OBVIOUS
  <2>12. Joined(u, w, T)
    BY <1>7, <2>10, <2>11, ConcatFacts
  <2>13. /\ Len(T) = i + Len(w) /\ \A k \in 1..i : T[k] = u[k]
         /\ \A k \in i + 1..i + Len(w) : T[k] = w[k - i]
    BY <1>7, <2>12 DEF Joined
  <2>14. ASSUME NEW k \in 1..Len(T)
         PROVE  T[k].key < first <=> k <= c
    <3>1. CASE k <= i
      <4>1. k \in 1..i
        BY <1>2, <1>5, <3>1
      <4> QED
        BY <1>10, <2>13, <4>1
    <3>2. CASE ~(k <= i)
      <4>1. i \in Nat /\ Len(w) \in Nat /\ c <= i /\ k \in Int /\ k <= i + Len(w) /\ c \in Nat
        BY <1>2, <1>3, <1>5, <2>5, <2>10, <2>13
      <4>2. k \in i + 1..i + Len(w) /\ k - i \in 1..Len(w) /\ ~(k <= c)
        BY <3>2, <4>1
      <4>3. T[k] = w[k - i]
        BY <2>13, <4>2
      <4>4. ~(w[k - i].key < first)
        BY <2>9, <2>10, <4>2
      <4> QED
        BY <4>2, <4>3, <4>4
    <3> QED
      BY <3>1, <3>2
  <2>15. Opens(T, c, first)
    BY <1>11, <2>14 DEF Opens
  <2> QED
    BY <2>4, <2>11, <2>15
<1> QED
  BY <1>12, <1>13

KeyBetween(first, end) == {x \in EntrySet : first <= x.key /\ x.key < end}

LEMMA RangeListed ==
    ASSUME NEW E, Sound(nodes, root, E), NEW first \in Int, NEW end \in Int
    PROVE  Lists(range_scan(first, end), E \cap KeyBetween(first, end), EntryOrder)
<1>1. Typed(nodes) /\ Placed(nodes, root) /\ Stored(nodes, E)
  BY DEF Sound
<1>2. PICK a, b, K : TreeShape(nodes, root, a, b, K) /\ Chained(nodes, a, b)
  BY <1>1 DEF Placed
<1>3. Laid(nodes, root, a, b, K)
  BY <1>1, <1>2 DEF Laid
<1>4. PICK s : s = find_search_start_page(nodes, root, first)
  OBVIOUS
<1>5. s \in Leaves(nodes) /\ Passed(nodes, a, b, first, s) /\ Ahead(DOMAIN nodes, a, b, K, first, s)
  BY <1>3, <1>4, StartFound
<1>6. PICK f : /\ Gathers(f, Leaves(nodes), RangeStops(nodes, end), RangeFinds(nodes, end),
                          Forwards(nodes))
               /\ range_scan(first, end)
                    = SubSeq(f[s], Below(nodes[s].entries, first) + 1, Len(f[s]))
  BY <1>3, <1>4, <1>5, RangeGathers
<1>7. /\ FoundIn(nodes, RangeFinds(nodes, end), KeyBelow(end))
      /\ NothingBehind(nodes, a, b, KeyBelow(end), RangeStops(nodes, end))
      /\ EndsInTime(nodes, RangeStops(nodes, end))
  BY <1>1, <1>3, RangeSteps
<1>8. PICK T : T = f[s]
  OBVIOUS
<1>9. PICK S : S = From(nodes, a, b, KeyBelow(end), s)
  OBVIOUS
<1>10. Lists(T, S, EntryOrder)
  BY <1>1, <1>3, <1>5, <1>6, <1>7, <1>8, <1>9, GatheredFrom
<1>11. PICK c : c = Below(nodes[s].entries, first)
  OBVIOUS
<1>12. Opens(T, c, first)
  BY <1>1, <1>3, <1>5, <1>6, <1>8, <1>11, RangeOpens
<1>13. \A x \in S : x \in EntrySet
  BY <1>9 DEF From, KeyBelow
<1>14. T \in Seq(EntrySet)
  BY <1>10, <1>13, ListsTyped
<1>15. Lists(SubSeq(T, c + 1, Len(T)), {x \in S : ~(x.key < first)}, EntryOrder)
  BY <1>10, <1>12, <1>14, OpeningDropped
<1>16. {x \in S : ~(x.key < first)} = E \cap KeyBetween(first, end)
  <2>1. \A x \in EntrySet : x.key \in Int
    BY EntryTypes
  <2>2. \A x : x \in E <=> \E q \in Leaves(nodes) : x \in Held(nodes, q)
    BY <1>1 DEF Stored
  <2>3. ASSUME NEW q \in Leaves(nodes), NEW x \in Held(nodes, q), ~(x.key < first)
        PROVE  q = s \/ b[s] < a[q]
    <3>1. ~(b[q] < a[s])
      BY <1>5, <2>3 DEF Passed
    <3> QED
      BY <1>2, <1>5, <3>1, LeavesApart
  <2>4. ASSUME NEW x
        PROVE  x \in S /\ ~(x.key < first) <=> x \in E /\ x \in KeyBetween(first, end)
    <3>1. ASSUME x \in S, ~(x.key < first)
          PROVE  x \in E /\ x \in KeyBetween(first, end)
      <4>1. x \in KeyBelow(end) /\ \E q \in Leaves(nodes) : x \in Held(nodes, q)
        BY <1>9, <3>1 DEF From
      <4>2. x \in EntrySet /\ x.key \in Int /\ x.key < end
        BY <2>1, <4>1 DEF KeyBelow
      <4> QED
        BY <2>2, <3>1, <4>1, <4>2 DEF KeyBetween
    <3>2. ASSUME x \in E, x \in KeyBetween(first, end)
          PROVE  x \in S /\ ~(x.key < first)
      <4>1. x \in EntrySet /\ x.key \in Int /\ x.key < end /\ first <= x.key
        BY <2>1, <3>2 DEF KeyBetween
      <4>2. ~(x.key < first) /\ x \in KeyBelow(end)
        BY <4>1 DEF KeyBelow
      <4>3. PICK q \in Leaves(nodes) : x \in Held(nodes, q)
        BY <2>2, <3>2
      <4>4. q = s \/ b[s] < a[q]
        BY <2>3, <4>2, <4>3
      <4> QED
        BY <1>9, <4>2, <4>3, <4>4 DEF From
    <3> QED
      BY <3>1, <3>2
  <2> QED
    BY <2>4
<1> QED
  BY <1>6, <1>8, <1>11, <1>15, <1>16

\* Addresses under keys, in key order.
PairOrder == {e \in (Keys \X Pointers) \X (Keys \X Pointers) : e[1] # e[2] /\ e[1][1] <= e[2][1]}

LEMMA PairOrderFacts ==
    \A x, y : <<x, y>> \in PairOrder
                <=> x \in Keys \X Pointers /\ y \in Keys \X Pointers /\ x # y /\ x[1] <= y[1]
BY DEF PairOrder

LEMMA PairsListed ==
    ASSUME NEW s, NEW T \in SUBSET (Keys \X Pointers), Lists(s, Stock(T), EntryOrder)
    PROVE  Lists(Pairs(s), T, PairOrder)
<1>1. /\ Len(s) \in Nat /\ DOMAIN s = 1..Len(s)
      /\ \A i \in 1..Len(s) : s[i] \in Stock(T)
      /\ \A x \in Stock(T) : \E i \in 1..Len(s) : s[i] = x
      /\ \A i, j \in 1..Len(s) : i < j => <<s[i], s[j]>> \in EntryOrder
  BY ListsFields
<1>2. PICK w : w = Pairs(s)
  OBVIOUS
<1>3. w = [i \in 1..Len(s) |-> <<s[i].key, s[i].pointer>>]
  BY <1>1, <1>2 DEF Pairs
<1>4. ASSUME NEW e \in T
      PROVE  e = <<Entry(e[1], e[2]).key, Entry(e[1], e[2]).pointer>> /\ Entry(e[1], e[2]) \in Stock(T)
  <2>1. e = <<e[1], e[2]>>
    OBVIOUS
  <2>2. Entry(e[1], e[2]).key = e[1] /\ Entry(e[1], e[2]).pointer = e[2]
    BY DEF Entry
  <2> QED
    BY <2>1, <2>2 DEF Stock
<1>5. ASSUME NEW x \in Stock(T)
      PROVE  <<x.key, x.pointer>> \in T /\ x = Entry(x.key, x.pointer)
  <2>1. PICK e \in T : x = Entry(e[1], e[2])
    BY DEF Stock
  <2>2. x.key = e[1] /\ x.pointer = e[2] /\ e = <<e[1], e[2]>>
    BY <2>1 DEF Entry
  <2> QED
    BY <2>1, <2>2
<1>6. \A i \in 1..Len(s) : <<s[i].key, s[i].pointer>> \in T
  BY <1>1, <1>5
<1>7. w \in [1..Len(s) -> T]
  BY <1>3, <1>6
<1>8. w \in Seq(T) /\ DOMAIN w = 1..Len(s)
  BY <1>1, <1>7
<1>9. \A i \in 1..Len(s) : w[i] = <<s[i].key, s[i].pointer>> /\ w[i] \in T
  BY <1>3, <1>6
<1>10. ASSUME NEW e \in T
       PROVE  \E i \in 1..Len(s) : w[i] = e
  <2>1. PICK i \in 1..Len(s) : s[i] = Entry(e[1], e[2])
    BY <1>1, <1>4
  <2> QED
    BY <1>4, <1>9, <2>1
<1>11. ASSUME NEW i \in 1..Len(s), NEW j \in 1..Len(s), i < j
       PROVE  <<w[i], w[j]>> \in PairOrder
  <2>1. s[i] # s[j] /\ s[i].key <= s[j].key
    BY <1>1, <1>11, EntryOrderFacts
  <2>2. w[i] \in Keys \X Pointers /\ w[j] \in Keys \X Pointers
    BY <1>9
  <2>3. w[i] = <<s[i].key, s[i].pointer>> /\ w[j] = <<s[j].key, s[j].pointer>>
    BY <1>9
  <2>4. /\ w[i][1] = s[i].key /\ w[j][1] = s[j].key
        /\ w[i][2] = s[i].pointer /\ w[j][2] = s[j].pointer
    BY <2>3
  <2>5. w[i] # w[j]
    <3> SUFFICES ASSUME w[i] = w[j] PROVE FALSE
      OBVIOUS
    <3>1. s[i].key = s[j].key /\ s[i].pointer = s[j].pointer
      BY <2>4
    <3>2. s[i] = Entry(s[i].key, s[i].pointer) /\ s[j] = Entry(s[j].key, s[j].pointer)
      BY <1>1, <1>5
    <3> QED
      BY <2>1, <3>1, <3>2
  <2> QED
    BY <2>1, <2>2, <2>4, <2>5, PairOrderFacts
<1> QED
  BY <1>2, <1>8, <1>10, <1>11 DEF Lists

LEMMA PairsExact ==
    ASSUME NEW s, NEW T \in SUBSET (Keys \X Pointers), Lists(s, Stock(T), EntryOrder)
    PROVE  /\ ToSet(Pairs(s)) = T /\ Len(Pairs(s)) = Cardinality(ToSet(Pairs(s)))
           /\ \A i, j \in 1..Len(Pairs(s)) : i < j => Pairs(s)[i][1] <= Pairs(s)[j][1]
<1>1. PICK w : w = Pairs(s)
  OBVIOUS
<1>2. Lists(w, T, PairOrder)
  BY <1>1, PairsListed
<1>3. \A x : <<x, x>> \notin PairOrder
  BY PairOrderFacts
<1>4. ToSet(w) = T /\ Len(w) = Cardinality(T)
  BY <1>2, <1>3, ListsCount
<1>5. \A i, j \in 1..Len(w) : i < j => <<w[i], w[j]>> \in PairOrder
  BY <1>2, ListsFields
<1>6. \A i, j \in 1..Len(w) : i < j => w[i][1] <= w[j][1]
  BY <1>5, PairOrderFacts
<1> QED
  BY <1>1, <1>4, <1>6

LEMMA SearchExact == IndexInv => SearchIsExact
<1> SUFFICES ASSUME IndexInv, NEW key \in Keys
             PROVE  /\ ToSet(Pairs(search(key))) = {e \in live : e[1] = key}
                    /\ Len(Pairs(search(key))) = Cardinality(ToSet(Pairs(search(key))))
  BY DEF SearchIsExact
<1>1. live \in SUBSET (Keys \X Pointers) /\ Sound(nodes, root, Stock(live))
  BY DEF IndexInv
<1>2. PICK T : T = {e \in live : e[1] = key}
  OBVIOUS
<1>3. T \in SUBSET (Keys \X Pointers)
  BY <1>1, <1>2
<1>4. Stock(live) \cap WithKey(key) = Stock(T)
  <2>1. \A e \in live : Entry(e[1], e[2]) \in EntrySet /\ Entry(e[1], e[2]).key = e[1]
    BY <1>1 DEF Entry, EntrySet
  <2> QED
    BY <1>2, <2>1 DEF Stock, WithKey
<1>5. PICK s : s = search(key)
  OBVIOUS
<1>6. Lists(s, Stock(T), EntryOrder)
  <2>1. key \in Int
    BY IndexAssumption
  <2>2. Lists(search(key), Stock(live) \cap WithKey(key), EntryOrder)
    BY <1>1, <2>1, SearchListed
  <2> QED
    BY <1>4, <1>5, <2>2
<1>7. ToSet(Pairs(s)) = T /\ Len(Pairs(s)) = Cardinality(ToSet(Pairs(s)))
  BY <1>3, <1>6, PairsExact
<1> QED
  BY <1>2, <1>5, <1>7

LEMMA RangeExact == IndexInv => RangeScanIsExact
<1> SUFFICES ASSUME IndexInv, NEW first \in Keys, NEW end \in {key + 1 : key \in Keys}
             PROVE  /\ ToSet(Pairs(range_scan(first, end))) = {e \in live : first <= e[1] /\ e[1] < end}
                    /\ Len(Pairs(range_scan(first, end)))
                          = Cardinality(ToSet(Pairs(range_scan(first, end))))
                    /\ \A i, j \in 1..Len(Pairs(range_scan(first, end))) : i < j =>
                          Pairs(range_scan(first, end))[i][1] <= Pairs(range_scan(first, end))[j][1]
  BY DEF RangeScanIsExact, IsSorted
<1>1. live \in SUBSET (Keys \X Pointers) /\ Sound(nodes, root, Stock(live))
  BY DEF IndexInv
<1>2. PICK T : T = {e \in live : first <= e[1] /\ e[1] < end}
  OBVIOUS
<1>3. T \in SUBSET (Keys \X Pointers)
  BY <1>1, <1>2
<1>4. Stock(live) \cap KeyBetween(first, end) = Stock(T)
  <2>1. \A e \in live : Entry(e[1], e[2]) \in EntrySet /\ Entry(e[1], e[2]).key = e[1]
    BY <1>1 DEF Entry, EntrySet
  <2> QED
    BY <1>2, <2>1 DEF Stock, KeyBetween
<1>5. PICK s : s = range_scan(first, end)
  OBVIOUS
<1>6. Lists(s, Stock(T), EntryOrder)
  <2>1. first \in Int /\ end \in Int
    BY IndexAssumption
  <2>2. Lists(range_scan(first, end), Stock(live) \cap KeyBetween(first, end), EntryOrder)
    BY <1>1, <2>1, RangeListed
  <2> QED
    BY <1>4, <1>5, <2>2
<1>7. /\ ToSet(Pairs(s)) = T /\ Len(Pairs(s)) = Cardinality(ToSet(Pairs(s)))
      /\ \A i, j \in 1..Len(Pairs(s)) : i < j => Pairs(s)[i][1] <= Pairs(s)[j][1]
  BY <1>3, <1>6, PairsExact
<1> QED
  BY <1>2, <1>5, <1>7

\* Links and children lead to claimed pages.
LEMMA InvTypes == IndexInv => TypeOK
<1> SUFFICES ASSUME IndexInv PROVE TypeOK
  OBVIOUS
<1>1. Typed(nodes) /\ Placed(nodes, root)
  BY DEF IndexInv, Sound
<1>2. PICK a, b, K : TreeShape(nodes, root, a, b, K) /\ Chained(nodes, a, b)
  BY <1>1 DEF Placed
<1>3. Laid(nodes, root, a, b, K)
  BY <1>1, <1>2 DEF Laid
<1>4. root \in DOMAIN nodes
  BY <1>2 DEF TreeShape, Rooted
<1>5. ASSUME NEW p \in DOMAIN nodes, nodes[p].leaf
      PROVE  /\ nodes[p].entries \in Seq(EntrySet)
             /\ {nodes[p].prev, nodes[p].next} \subseteq DOMAIN nodes \cup {NO_PAGE}
  <2>1. p \in Leaves(nodes)
    BY <1>5 DEF Leaves
  <2>2. /\ nodes[p].prev # NO_PAGE => nodes[p].prev \in Leaves(nodes)
        /\ nodes[p].next # NO_PAGE => nodes[p].next \in Leaves(nodes)
    BY <1>3, <2>1, LeafLinks
  <2>3. \A q \in Leaves(nodes) : q \in DOMAIN nodes
    BY DEF Leaves
  <2>4. nodes[p].entries \in Seq(EntrySet)
    BY <1>1, <2>1, LeafEntries
  <2> QED
    BY <2>2, <2>3, <2>4
<1>6. ASSUME NEW p \in DOMAIN nodes, ~nodes[p].leaf
      PROVE  /\ nodes[p].entries \in Seq([key : Keys, child : DOMAIN nodes])
             /\ nodes[p].rightmost \in DOMAIN nodes
  <2>1. PICK e : e = nodes[p].entries
    OBVIOUS
  <2>2. PICK W : W = Width(nodes, p)
    OBVIOUS
  <2>3. e \in Seq(ChildSet) /\ W = Len(e) /\ W \in Nat
    BY <1>1, <1>6, <2>1, <2>2, InternalEntries
  <2>4. KidsPlaced(nodes, a, b, K, p)
    BY <1>2 DEF TreeShape, PagePlaced
  <2>5. Slots(nodes, p) = 1..W + 1
    BY <1>6, <2>2 DEF Slots
  <2>6. \A i \in 1..W + 1 : Kid(nodes, p, i) \in DOMAIN nodes
    BY <2>4, <2>5 DEF KidsPlaced
  <2>7. \A i \in 1..W : e[i].child \in DOMAIN nodes
    <3>1. ASSUME NEW i \in 1..W
          PROVE  e[i].child \in DOMAIN nodes
      <4>1. i \in 1..W + 1 /\ i <= W
        BY <2>3
      <4>2. Kid(nodes, p, i) = e[i].child
        BY <2>1, <2>2, <4>1 DEF Kid
      <4> QED
        BY <2>6, <4>1, <4>2
    <3> QED
      BY <3>1
  <2>8. nodes[p].rightmost \in DOMAIN nodes
    <3>1. W + 1 \in 1..W + 1 /\ ~(W + 1 <= W)
      BY <2>3
    <3>2. Kid(nodes, p, W + 1) = nodes[p].rightmost
      BY <2>2, <3>1 DEF Kid
    <3> QED
      BY <2>6, <3>1, <3>2
  <2>9. \A i \in 1..W : e[i] \in [key : Keys, child : DOMAIN nodes]
    <3>1. \A i \in 1..W : e[i] \in ChildSet
      BY <2>3
    <3> QED
      BY <2>7, <3>1 DEF ChildSet
  <2>10. PICK C : C = [key : Keys, child : DOMAIN nodes]
    OBVIOUS
  <2>11. e \in Seq(C)
    <3>1. \A i \in 1..W : e[i] \in C
      BY <2>9, <2>10
    <3>2. DOMAIN e = 1..W /\ e = [i \in 1..W |-> e[i]]
      BY <2>3
    <3>3. e \in [1..W -> C]
      BY <3>1, <3>2
    <3> QED
      BY <2>3, <3>3
  <2> QED
    BY <2>1, <2>8, <2>10, <2>11
<1> QED
  BY <1>4, <1>5, <1>6 DEF TypeOK

\* The links between leaves, the children of a node and the root in the index
\* ledger lead to claimed pages after every operation of the tree.
THEOREM TypesHold == Spec => []TypeOK
BY IndexInvariant, InvTypes, PTL

\* A dropped table releases every page its index claimed, each once: the walk
\* from the root misses none and meets none twice (index_tree_pages).
THEOREM ReleasesEveryPage == Spec => []ReleaseIsComplete
<1>1. IndexInv => ReleaseIsComplete
  BY PagesListed DEF IndexInv, Sound, Placed
<1> QED
  BY <1>1, IndexInvariant, PTL

\* A lookup by key returns the addresses of the key, each once, and a range
\* scan those of its range in key order, whatever leaves the duplicates of a
\* key span and whatever leaves were emptied; the chain of leaves is the order
\* of the tree, and the deletion of an entry that was inserted finds it
\* (IndexTree::search, IndexTree::range_scan, IndexTree::delete).
THEOREM LookupsExact == Spec => []LookupsAreExact
<1>1. IndexInv => ChainFollowsTree
  BY ChainInOrder DEF IndexInv, Sound, Placed
<1>2. IndexInv => DeleteFindsEntry
  BY DEF IndexInv, Errors, DeleteFindsEntry
<1>3. IndexInv => LookupsAreExact
  BY <1>1, <1>2, SearchExact, RangeExact DEF LookupsAreExact
<1> QED
  BY <1>3, IndexInvariant, PTL
=============================================================================
