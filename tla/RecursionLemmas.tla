---------------------------- MODULE RecursionLemmas ----------------------------
(* Induction over the naturals and what follows from it: sets of naturals  *)
(* have a least element, recursions and folds of sequences a solution.     *)
EXTENDS Integers, SequencesExt, FiniteSetsExt, FiniteSetTheorems, SequenceTheorems, TLAPS

\* Induction over the naturals for a set of them.  By the pigeonhole principle: if m were
\* not in S, adding one would map what S has below m into itself, without reaching 0.
LEMMA Induction ==
  ASSUME NEW S, 0 \in S, \A k \in Nat : k \in S => k + 1 \in S
  PROVE  \A m \in Nat : m \in S
<1> SUFFICES ASSUME NEW m \in Nat, m \notin S PROVE FALSE
  OBVIOUS
<1> DEFINE T == {k \in 0..m : k \in S}
           f == [k \in T |-> k + 1]
<1>1. IsFiniteSet(T)
  <2>1. IsFiniteSet(0..m) /\ T \in SUBSET (0..m)
    BY FS_Interval
  <2> QED
    BY <2>1, FS_Subset
<1>2. IsFiniteSet(T \ {0}) /\ Cardinality(T \ {0}) = Cardinality(T) - 1
  <2>1. 0 \in T
    OBVIOUS
  <2> QED
    BY <1>1, <2>1, FS_RemoveElement
<1>3. f \in Injection(T, T \ {0})
  <2>1. \A k \in T : k + 1 \in T \ {0}
    <3>1. SUFFICES ASSUME NEW k \in T PROVE k + 1 \in T \ {0}
      OBVIOUS
    <3>2. k \in Nat /\ k \in S /\ k =< m /\ k # m
      OBVIOUS
    <3>3. k + 1 \in S /\ k + 1 \in 0..m /\ k + 1 # 0
      BY <3>2
    <3> QED
      BY <3>3
  <2>2. f \in [T -> T \ {0}]
    BY <2>1
  <2>3. \A a, b \in T : f[a] = f[b] => a = b
    OBVIOUS
  <2> QED
    BY <2>2, <2>3 DEF Injection, IsInjective
<1>4. Cardinality(T) =< Cardinality(T \ {0})
  <2> HIDE DEF T, f
  <2> QED
    BY <1>2, <1>3, FS_Injection
<1>5. Cardinality(T) \in Nat
  BY <1>1, FS_CardinalityType
<1> QED
  BY <1>2, <1>4, <1>5

\* Every set of naturals that is not empty has a least element.
LEMMA LeastExists ==
  ASSUME NEW S, S \subseteq Nat, NEW z \in S
  PROVE  \E x \in S : \A y \in S : x =< y
<1> SUFFICES ASSUME \A x \in S : ~(\A y \in S : x =< y) PROVE FALSE
  OBVIOUS
<1> DEFINE T == {k \in Nat : \A y \in S : k =< y}
<1>1. 0 \in T
  OBVIOUS
<1>2. ASSUME NEW k \in Nat, k \in T PROVE k + 1 \in T
  <2>1. k \notin S
    BY <1>2
  <2>2. \A y \in S : k =< y /\ k # y
    BY <1>2, <2>1
  <2> QED
    BY <2>2
<1>3. \A k \in Nat : k \in T
  <2>1. \A k \in Nat : k \in T => k + 1 \in T
    BY <1>2
  <2> HIDE DEF T
  <2> QED
    BY <1>1, <2>1, Induction
<1>4. z + 1 \in T
  BY <1>3
<1> QED
  BY <1>4

\* What Min() chooses.
LEMMA LeastIs ==
  ASSUME NEW S, S \subseteq Int, NEW x \in S, \A y \in S : x =< y
  PROVE  Min(S) = x
<1>1. \A z \in S : (\A y \in S : z =< y) => z = x
  OBVIOUS
<1> QED
  BY <1>1 DEF Min

\* What Max() chooses.
LEMMA LargestIs ==
  ASSUME NEW S, S \subseteq Int, NEW x \in S, \A y \in S : x >= y
  PROVE  Max(S) = x
<1>1. \A z \in S : (\A y \in S : z >= y) => z = x
  OBVIOUS
<1> QED
  BY <1>1 DEF Max

\* f starts with a and goes on with h.
Iterates(f, a, h) == f[0] = a /\ \A i \in Nat : f[i + 1] = h[f[i]]

\* A function may be defined by its first value and the way from each value to the next.
LEMMA PrimitiveRecursion ==
  ASSUME NEW S, NEW a \in S, NEW h \in [S -> S]
  PROVE  \E f \in [Nat -> S] : Iterates(f, a, h)
<1> DEFINE solves(g, k) == /\ g \in [0..k -> S] /\ g[0] = a
                           /\ \A i \in 0..(k - 1) : g[i + 1] = h[g[i]]
           Solvable == {k \in Nat : \E g : solves(g, k)}
<1>1. 0 \in Solvable
  <2>1. [i \in 0..0 |-> a] \in [0..0 -> S] /\ [i \in 0..0 |-> a][0] = a /\ 0..(0 - 1) = {}
    OBVIOUS
  <2>2. solves([i \in 0..0 |-> a], 0)
    BY <2>1
  <2> HIDE DEF solves
  <2> QED
    BY <2>2
<1>2. ASSUME NEW k \in Nat, k \in Solvable PROVE k + 1 \in Solvable
  <2>1. PICK g : solves(g, k)
    BY <1>2
  <2> DEFINE f == [i \in 0..(k + 1) |-> IF i = k + 1 THEN h[g[k]] ELSE g[i]]
  <2>2. k \in 0..k /\ (\A i \in 0..(k + 1) : i = k + 1 \/ i \in 0..k)
    OBVIOUS
  <2>3. \A i \in 0..(k + 1) : f[i] \in S
    BY <2>1, <2>2
  <2>4. f \in [0..(k + 1) -> S]
    BY <2>3
  <2>5. f[0] = a
    BY <2>1
  <2>6. \A i \in 0..((k + 1) - 1) : f[i + 1] = h[f[i]]
    <3>1. SUFFICES ASSUME NEW i \in 0..k PROVE f[i + 1] = h[f[i]]
      OBVIOUS
    <3>2. f[i] = g[i] /\ i + 1 \in 0..(k + 1)
      OBVIOUS
    <3>3. CASE i = k
      BY <3>2, <3>3
    <3>4. CASE i # k
      <4>1. i \in 0..(k - 1) /\ i + 1 # k + 1
        BY <3>4
      <4> QED
        BY <2>1, <3>2, <4>1
    <3> QED
      BY <3>3, <3>4
  <2>7. solves(f, k + 1)
    BY <2>4, <2>5, <2>6
  <2> HIDE DEF f, solves
  <2> QED
    BY <2>7
<1>3. \A k \in Nat : k \in Solvable
  <2> HIDE DEF Solvable
  <2>1. \A k \in Nat : k \in Solvable => k + 1 \in Solvable
    BY <1>2
  <2> QED
    BY <1>1, <2>1, Induction
<1> DEFINE G(k) == CHOOSE g : solves(g, k)
           f == [k \in Nat |-> G(k)[k]]
<1>4. \A k \in Nat : solves(G(k), k)
  <2> HIDE DEF solves
  <2> QED
    BY <1>3
<1>5. \A k \in Nat : G(k + 1)[k] = G(k)[k]
  <2>1. SUFFICES ASSUME NEW k \in Nat PROVE G(k + 1)[k] = G(k)[k]
    OBVIOUS
  <2>2. PICK g1, g2 : g1 = G(k) /\ g2 = G(k + 1)
    OBVIOUS
  <2>3. solves(g1, k) /\ solves(g2, k + 1)
    <3> HIDE DEF solves, G
    <3>1. k + 1 \in Nat
      OBVIOUS
    <3> QED
      BY <1>4, <2>2, <3>1
  <2> HIDE DEF G
  <2> DEFINE Same == {i \in Nat : i =< k => g1[i] = g2[i]}
  <2>4. 0 \in Same
    BY <2>3
  <2>5. ASSUME NEW i \in Nat, i \in Same PROVE i + 1 \in Same
    <3>1. SUFFICES ASSUME i + 1 =< k PROVE g1[i + 1] = g2[i + 1]
      OBVIOUS
    <3>2. i \in 0..(k - 1) /\ i \in 0..((k + 1) - 1) /\ g1[i] = g2[i]
      BY <2>5, <3>1
    <3> QED
      BY <2>3, <3>2
  <2>6. \A i \in Nat : i \in Same
    <3> HIDE DEF Same
    <3>1. \A i \in Nat : i \in Same => i + 1 \in Same
      BY <2>5
    <3> QED
      BY <2>4, <3>1, Induction
  <2>7. g1[k] = g2[k]
    BY <2>6
  <2> QED
    BY <2>2, <2>7
<1>6. ASSUME NEW k \in Nat PROVE f[k] \in S /\ f[k + 1] = h[f[k]]
  <2>1. PICK g : g = G(k + 1)
    OBVIOUS
  <2>2. solves(g, k + 1) /\ solves(G(k), k) /\ g[k] = G(k)[k]
    <3> HIDE DEF solves, G
    <3>1. k + 1 \in Nat
      OBVIOUS
    <3> QED
      BY <1>4, <1>5, <2>1, <3>1
  <2> HIDE DEF G
  <2>3. f[k] = g[k] /\ f[k + 1] = g[k + 1]
    BY <2>1, <2>2
  <2>4. k \in 0..((k + 1) - 1) /\ k \in 0..(k + 1)
    OBVIOUS
  <2> QED
    BY <2>2, <2>3, <2>4
<1>7. f[0] = a
  <2>1. f[0] = G(0)[0]
    OBVIOUS
  <2>2. solves(G(0), 0)
    <3> HIDE DEF solves, G
    <3> QED
      BY <1>4
  <2> HIDE DEF G
  <2> QED
    BY <2>1, <2>2
<1>8. f \in [Nat -> S]
  <2>1. \A k \in Nat : f[k] \in S
    BY <1>6
  <2>2. f = [k \in Nat |-> f[k]]
    OBVIOUS
  <2> HIDE DEF f
  <2> QED
    BY <2>1, <2>2
<1> HIDE DEF f
<1> QED
  BY <1>6, <1>7, <1>8 DEF Iterates

\* FlattenSeq() in the terms of any function that solves its recursion.
LEMMA FlattenIs ==
  ASSUME NEW seqs, Len(seqs) \in Nat, Len(seqs) # 0, NEW f,
         f = [k \in 1..Len(seqs) |-> IF k = 1 THEN seqs[k] ELSE f[k - 1] \o seqs[k]]
  PROVE  FlattenSeq(seqs) = f[Len(seqs)]
<1>1. PICK m : m = Len(seqs)
  OBVIOUS
<1> DEFINE flatten == CHOOSE g : g = [k \in 1..Len(seqs) |->
                                        IF k = 1 THEN seqs[k] ELSE g[k - 1] \o seqs[k]]
<1>2. flatten = [k \in 1..Len(seqs) |->
                   IF k = 1 THEN seqs[k] ELSE flatten[k - 1] \o seqs[k]]
  OBVIOUS
<1>3. FlattenSeq(seqs) = flatten[Len(seqs)]
  BY DEF FlattenSeq
<1> HIDE DEF flatten
<1>4. \A k \in 1..m : /\ flatten[k] = IF k = 1 THEN seqs[k] ELSE flatten[k - 1] \o seqs[k]
                      /\ f[k] = IF k = 1 THEN seqs[k] ELSE f[k - 1] \o seqs[k]
  BY <1>1, <1>2
<1> DEFINE S == {k \in Nat : k + 1 \in 1..m => flatten[k + 1] = f[k + 1]}
<1>5. 0 \in S
  <2>1. 1 \in 1..m
    BY <1>1
  <2>2. flatten[1] = f[1]
    BY <1>4, <2>1
  <2>3. 0 \in Nat /\ 0 + 1 = 1
    OBVIOUS
  <2> QED
    BY <2>2, <2>3
<1>6. ASSUME NEW k \in Nat, k \in S PROVE k + 1 \in S
  <2>1. SUFFICES ASSUME (k + 1) + 1 \in 1..m PROVE flatten[(k + 1) + 1] = f[(k + 1) + 1]
    OBVIOUS
  <2>2. PICK j : j = (k + 1) + 1
    OBVIOUS
  <2>3. j \in 1..m /\ j # 1 /\ j - 1 = k + 1 /\ k + 1 \in 1..m
    BY <1>1, <2>1, <2>2
  <2>4. flatten[j - 1] = f[j - 1]
    BY <1>6, <2>3
  <2>5. flatten[j] = flatten[j - 1] \o seqs[j] /\ f[j] = f[j - 1] \o seqs[j]
    BY <1>4, <2>3
  <2>6. flatten[j] = f[j]
    BY <2>4, <2>5
  <2> QED
    BY <2>2, <2>6
<1>7. m - 1 \in S
  <2>1. m - 1 \in Nat
    BY <1>1
  <2>2. \A k \in Nat : k \in S => k + 1 \in S
    BY <1>6
  <2> HIDE DEF S
  <2>3. \A k \in Nat : k \in S
    BY <1>5, <2>2, Induction
  <2> QED
    BY <2>1, <2>3
<1> QED
  BY <1>1, <1>3, <1>7

\* The first k + 1 numbers: their largest is k + 1, and without it they are the first k.
LEMMA FirstNumbers ==
  ASSUME NEW k \in Nat
  PROVE  /\ 1..(k + 1) # {} /\ Max(1..(k + 1)) = k + 1
         /\ (1..(k + 1)) \ {k + 1} = 1..k
<1>1. PICK j, s : j = k + 1 /\ s = 1..(k + 1)
  OBVIOUS
<1>2. s \subseteq Int /\ j \in s /\ \A y \in s : j >= y
  BY <1>1
<1>3. Max(s) = j
  BY <1>2, LargestIs
<1>4. s # {} /\ s \ {j} = 1..k
  <2>1. \A x : x \in s \ {j} => x \in 1..k
    BY <1>1
  <2>2. \A x : x \in 1..k => x \in s \ {j}
    BY <1>1
  <2> QED
    BY <1>2, <2>1, <2>2
<1> QED
  BY <1>1, <1>3, <1>4

\* f folds the elements of a sequence with h, set by set, as FoldLeft() does: a for none.
Folds(f, a, h, seq) ==
  \A s \in SUBSET DOMAIN seq :
    /\ s = {} => f[s] = a
    /\ s # {} => Max(s) \in s /\ f[s] = h[f[s \ {Max(s)}]][seq[Max(s)]]

\* The recursion that FoldLeft() stands for has a solution: one for k elements extends to
\* one more element.
LEMMA FoldsExist ==
  ASSUME NEW S, NEW T, NEW a \in S, NEW h \in [S -> [T -> S]], NEW seq \in Seq(T)
  PROVE  \E f \in [SUBSET DOMAIN seq -> S] : Folds(f, a, h, seq)
<1> DEFINE solves(f, k) == /\ f \in [SUBSET (1..k) -> S]
                           /\ \A s \in SUBSET (1..k) :
                                /\ s = {} => f[s] = a
                                /\ s # {} => /\ Max(s) \in s
                                             /\ f[s] = h[f[s \ {Max(s)}]][seq[Max(s)]]
           Solvable == {k \in Nat : k =< Len(seq) => \E f : solves(f, k)}
<1>1. Len(seq) \in Nat /\ DOMAIN seq = 1..Len(seq)
  BY LenProperties
<1>2. 0 \in Solvable
  <2>1. \A s \in SUBSET (1..0) : s = {}
    OBVIOUS
  <2>2. solves([s \in SUBSET (1..0) |-> a], 0)
    BY <2>1
  <2> HIDE DEF solves
  <2> QED
    BY <2>2
<1>3. ASSUME NEW k \in Nat, k \in Solvable PROVE k + 1 \in Solvable
  <2>1. SUFFICES ASSUME k + 1 =< Len(seq) PROVE \E f : solves(f, k + 1)
    <3> HIDE DEF solves
    <3> QED
      OBVIOUS
  <2>2. PICK f : solves(f, k)
    <3> HIDE DEF solves
    <3> QED
      BY <1>1, <1>3, <2>1
  <2>3. PICK j : j = k + 1
    OBVIOUS
  <2>4. /\ j \in Nat /\ 1..j = (1..k) \union {j} /\ j \notin 1..k /\ j \in 1..Len(seq)
    BY <1>1, <2>1, <2>3
  <2>5. seq[j] \in T
    BY <2>4, ElementOfSeq
  <2>6. \A s \in SUBSET (1..j) : s \ {j} \in SUBSET (1..k) /\ (j \notin s => s \ {j} = s)
    BY <2>4
  <2> DEFINE g == [s \in SUBSET (1..j) |-> IF j \in s THEN h[f[s \ {j}]][seq[j]] ELSE f[s]]
  <2>7. g \in [SUBSET (1..j) -> S]
    <3>1. \A s \in SUBSET (1..j) : f[s \ {j}] \in S
      BY <2>2, <2>6
    <3>2. \A s \in SUBSET (1..j) : h[f[s \ {j}]][seq[j]] \in S
      BY <2>5, <3>1
    <3>3. \A s \in SUBSET (1..j) : j \notin s => f[s] \in S
      BY <2>6, <3>1
    <3> QED
      BY <3>2, <3>3
  <2>8. ASSUME NEW s \in SUBSET (1..j)
        PROVE  /\ s = {} => g[s] = a
               /\ s # {} => /\ Max(s) \in s
                            /\ g[s] = h[g[s \ {Max(s)}]][seq[Max(s)]]
    <3>1. \A t \in SUBSET (1..j) : j \notin t => t \in SUBSET (1..k) /\ g[t] = f[t]
      BY <2>4
    <3>2. CASE s = {}
      <4>1. f[{}] = a
        BY <2>2
      <4> QED
        BY <3>1, <3>2, <4>1
    <3>3. CASE s # {} /\ j \notin s
      <4>1. s \in SUBSET (1..k) /\ g[s] = f[s]
        BY <3>1, <3>3
      <4>2. Max(s) \in s /\ f[s] = h[f[s \ {Max(s)}]][seq[Max(s)]]
        BY <2>2, <3>3, <4>1
      <4>3. g[s \ {Max(s)}] = f[s \ {Max(s)}]
        <5>1. s \ {Max(s)} \in SUBSET (1..j) /\ j \notin s \ {Max(s)}
          BY <3>3
        <5> QED
          BY <3>1, <5>1
      <4> QED
        BY <3>3, <4>1, <4>2, <4>3
    <3>4. CASE j \in s
      <4>1. Max(s) = j
        <5>1. s \subseteq Int /\ \A y \in s : j >= y
          BY <2>4
        <5> QED
          BY <3>4, <5>1, LargestIs
      <4>2. g[s] = h[f[s \ {j}]][seq[j]]
        BY <3>4
      <4>3. g[s \ {j}] = f[s \ {j}]
        <5>1. s \ {j} \in SUBSET (1..j) /\ j \notin s \ {j}
          OBVIOUS
        <5> QED
          BY <3>1, <5>1
      <4> QED
        BY <3>4, <4>1, <4>2, <4>3
    <3> QED
      BY <3>2, <3>3, <3>4
  <2>9. solves(g, j)
    <3> HIDE DEF g
    <3> QED
      BY <2>7, <2>8
  <2> HIDE DEF g, solves
  <2> QED
    BY <2>3, <2>9
<1>4. \A k \in Nat : k \in Solvable
  <2>1. \A k \in Nat : k \in Solvable => k + 1 \in Solvable
    BY <1>3
  <2> HIDE DEF Solvable
  <2> QED
    BY <1>2, <2>1, Induction
<1>5. PICK f : solves(f, Len(seq))
  <2>1. PICK m : m = Len(seq)
    OBVIOUS
  <2>2. m \in Nat /\ m \in Solvable
    <3> HIDE DEF Solvable
    <3> QED
      BY <1>1, <1>4, <2>1
  <2> HIDE DEF solves
  <2> QED
    BY <2>1, <2>2
<1> QED
  BY <1>1, <1>5 DEF Folds

================================================================================
